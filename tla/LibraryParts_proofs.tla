------------------------- MODULE LibraryParts_proofs -------------------------
(***************************************************************************)
(* What holds of each part, whatever part of the library a program uses    *)
(* and for every value of the constants: the time stamp report, its clock, *)
(* the teletext boxes, the handlers that write WAV files and dumps, with   *)
(* the program that reads a file back, and the calculations.               *)
(***************************************************************************)
EXTENDS LibraryParts, Sums_proofs, FiniteSetTheorems, FunctionTheorems

QueueType == Seq(PESPacket_t)

HandlerTypeOK ==
  /\ PESdata \in QueueType
  /\ CurrentState \in {WaitForPesStart, WaitForPESData}

ReportInv == HandlerTypeOK /\ OnlyLastIsStarted

-----------------------------------------------------------------------------
(* What the queue looks like after each way a row changes it.                *)
LEMMA StartedPacket ==
  ASSUME NEW ts, ts.pts \in HeaderPTSs \cup {NoPTS}, HeaderFound(ts)
  PROVE  NewPESPacket(ts) \in PESPacket_t /\ NewPESPacket(ts).Started
BY DEF HeaderFound, NewPESPacket, PESPacket_t

LEMMA AppendedIsLast ==
  ASSUME NEW q \in QueueType, NEW p \in PESPacket_t
  PROVE  /\ Append(q, p) \in QueueType
         /\ Append(q, p) # <<>>
         /\ Last(Append(q, p)) = p
         /\ \A i \in 1 .. Len(Append(q, p)) - 1 : i \in 1 .. Len(q) /\ Append(q, p)[i] = q[i]
BY DEF QueueType, Last

LEMMA ReplacedIsLast ==
  ASSUME NEW q \in QueueType, q # <<>>, NEW p \in PESPacket_t
  PROVE  /\ Append(Front(q), p) \in QueueType
         /\ Append(Front(q), p) # <<>>
         /\ Last(Append(Front(q), p)) = p
         /\ \A i \in 1 .. Len(Append(Front(q), p)) - 1 :
              i \in 1 .. Len(q) - 1 /\ Append(Front(q), p)[i] = q[i]
<1> DEFINE f == Front(q)
<1>1. Len(q) \in Nat /\ 1 <= Len(q)  BY DEF QueueType
<1>2. f = [i \in 1 .. Len(q) - 1 |-> q[i]]  BY <1>1 DEF QueueType, Front
<1>3. f \in QueueType /\ Len(f) = Len(q) - 1  BY <1>1, <1>2 DEF QueueType
<1>4. \A i \in 1 .. Len(q) - 1 : f[i] = q[i]  BY <1>2
<1>5. f \in QueueType => /\ Append(f, p) \in QueueType
                         /\ Append(f, p) # <<>>
                         /\ Last(Append(f, p)) = p
                         /\ \A i \in 1 .. Len(Append(f, p)) - 1 :
                              i \in 1 .. Len(f) /\ Append(f, p)[i] = f[i]
  <2> HIDE DEF f
  <2>1. QED  BY AppendedIsLast
<1>6. \A i \in 1 .. Len(Append(f, p)) - 1 : i \in 1 .. Len(q) - 1 /\ Append(f, p)[i] = q[i]
  <2> HIDE DEF f
  <2>1. QED  BY <1>3, <1>4, <1>5
<1>7. QED  BY <1>3, <1>5, <1>6, Zenon

Stopped(q) == [q EXCEPT ![Len(q)].Started = FALSE]

LEMMA StoppedIsLast ==
  ASSUME NEW q \in QueueType, q # <<>>
  PROVE  /\ Stopped(q) \in QueueType
         /\ Stopped(q) # <<>>
         /\ ~Last(Stopped(q)).Started
         /\ \A i \in 1 .. Len(Stopped(q)) - 1 : i \in 1 .. Len(q) - 1 /\ Stopped(q)[i] = q[i]
<1> DEFINE stopped == Stopped(q)
           n == Len(q)
           p == [q[n] EXCEPT !.Started = FALSE]
<1>1. n = Len(q) /\ n \in Nat /\ 1 <= n /\ q \in [1 .. n -> PESPacket_t] /\ q[n] \in PESPacket_t
  BY DEF QueueType
<1>2. p \in PESPacket_t /\ ~p.Started
  BY <1>1 DEF PESPacket_t
<1>3. stopped = [q EXCEPT ![n] = p]
  BY DEF Stopped
<1> HIDE DEF n, p, stopped
<1>4. stopped \in [1 .. n -> PESPacket_t] /\ stopped[n] = p /\ \A i \in 1 .. n - 1 : stopped[i] = q[i]
  <2>0. n \in Nat /\ 1 <= n  BY <1>1, Zenon
  <2>1. n \in 1 .. n /\ \A i \in 1 .. n - 1 : i \in 1 .. n /\ i # n  BY <2>0
  <2>2. \A i \in 1 .. n : stopped[i] = IF i = n THEN p ELSE q[i]  BY <1>1, <1>3, Zenon
  <2>3. stopped \in [1 .. n -> PESPacket_t]  BY <1>1, <1>2, <1>3, Zenon
  <2>4. QED  BY <2>1, <2>2, <2>3
<1>5. stopped \in QueueType /\ Len(stopped) = n
  BY <1>1, <1>4 DEF QueueType
<1>6. /\ stopped \in QueueType /\ stopped # <<>> /\ ~Last(stopped).Started
      /\ \A i \in 1 .. Len(stopped) - 1 : i \in 1 .. Len(q) - 1 /\ stopped[i] = q[i]
  BY <1>1, <1>2, <1>4, <1>5 DEF Last
<1>7. QED  BY <1>6 DEF stopped

-----------------------------------------------------------------------------
LEMMA RowStep ==
  ASSUME ReportInv, NEW ts, NEW n, ts.pts \in HeaderPTSs \cup {NoPTS}, NextPacket(ts, n)
  PROVE  ReportInv'
<1> USE DEF WaitForPesStart, WaitForPESData
<1>1. CASE UNCHANGED <<CurrentState, PESdata>>
  BY <1>1 DEF ReportInv, HandlerTypeOK, OnlyLastIsStarted
<1>2. CASE StartPES(ts, n)
  <2>1. CurrentState = WaitForPesStart /\ HeaderFound(ts) /\ CurrentState' = WaitForPESData
        /\ PESdata' = Append(PESdata, NewPESPacket(ts))
    BY <1>2 DEF StartPES
  <2>2. \A i \in 1 .. Len(PESdata) : ~PESdata[i].Started
    BY <2>1 DEF ReportInv, HandlerTypeOK, QueueType, OnlyLastIsStarted, Last
  <2>3. NewPESPacket(ts) \in PESPacket_t /\ NewPESPacket(ts).Started
    BY <2>1, StartedPacket
  <2> DEFINE p == NewPESPacket(ts)
  <2>4. /\ PESdata' \in QueueType /\ PESdata' # <<>> /\ Last(PESdata').Started
        /\ \A i \in 1 .. Len(PESdata') - 1 : ~PESdata'[i].Started
    BY <2>1, <2>2, <2>3, AppendedIsLast DEF ReportInv, HandlerTypeOK
  <2>5. QED  BY <2>1, <2>4 DEF ReportInv, HandlerTypeOK, OnlyLastIsStarted
<1>3. CASE RestartPES(ts, n)
  <2>1. CurrentState = WaitForPESData /\ PESdata # <<>> /\ PESdata \in QueueType
        /\ \A i \in 1 .. Len(PESdata) - 1 : ~PESdata[i].Started
    BY <1>3 DEF RestartPES, ReportInv, HandlerTypeOK, OnlyLastIsStarted
  <2>2. CASE HeaderFound(ts)
    <3>1. PESdata' = Append(Front(PESdata), NewPESPacket(ts)) /\ CurrentState' = WaitForPESData
      BY <1>3, <2>2 DEF RestartPES
    <3>2. NewPESPacket(ts) \in PESPacket_t /\ NewPESPacket(ts).Started
      BY <2>2, StartedPacket
    <3>3. /\ PESdata' \in QueueType /\ PESdata' # <<>> /\ Last(PESdata').Started
          /\ \A i \in 1 .. Len(PESdata') - 1 : ~PESdata'[i].Started
      BY <2>1, <3>1, <3>2, ReplacedIsLast
    <3>4. QED  BY <3>1, <3>3 DEF ReportInv, HandlerTypeOK, OnlyLastIsStarted
  <2>3. CASE ~HeaderFound(ts)
    <3>1. PESdata' = [PESdata EXCEPT ![Len(PESdata)].Started = FALSE] /\ CurrentState' = WaitForPesStart
      BY <1>3, <2>3 DEF RestartPES
    <3>2. /\ PESdata' \in QueueType /\ PESdata' # <<>> /\ ~Last(PESdata').Started
          /\ \A i \in 1 .. Len(PESdata') - 1 : ~PESdata'[i].Started
      <4>1. PESdata' = Stopped(PESdata)  BY <3>1 DEF Stopped
      <4>2. QED  BY <2>1, <4>1, StoppedIsLast
    <3>3. QED  BY <3>1, <3>2 DEF ReportInv, HandlerTypeOK, OnlyLastIsStarted
  <2>4. QED  BY <2>2, <2>3
<1>4. QED
  BY <1>1, <1>2, <1>3 DEF NextPacket, AdaptationRow, CCErrorRow, SkipPayload, ContinueLastPESPacket

LEMMA ReportStep ==
  ASSUME ReportInv, ReportNext
  PROVE  ReportInv'
<1>1. CASE UNCHANGED handlerVars
  BY <1>1 DEF ReportInv, HandlerTypeOK, OnlyLastIsStarted, handlerVars
<1>2. CASE HandlerPID
  <2>1. PICK pusi \in BOOLEAN, payload \in BOOLEAN, pts \in HeaderPTSs \cup {NoPTS} :
          LET ts == [payloadPresent |-> payload, pusi |-> pusi, pts |-> pts, cc |-> sentCC']
          IN  NextPacket(ts, packetNumber') \/ UNCHANGED handlerVars
    BY <1>2 DEF HandlerPID
  <2> DEFINE ts == [payloadPresent |-> payload, pusi |-> pusi, pts |-> pts, cc |-> sentCC']
  <2>2. ts.pts \in HeaderPTSs \cup {NoPTS}  OBVIOUS
  <2>3. NextPacket(ts, packetNumber') \/ UNCHANGED handlerVars  BY <2>1
  <2> HIDE DEF ts
  <2>4. QED  BY <2>2, <2>3, <1>1, RowStep
<1>3. QED  BY <1>1, <1>2 DEF ReportNext, ClockPID, OtherPID

LEMMA ReportInitial == Init => ReportInv
<1>1. Init => HandlerInit  BY DEF Init, ReportRests, ReportInit
<1>2. HandlerInit => ReportInv
  BY DEF HandlerInit, ReportInv, HandlerTypeOK, QueueType, OnlyLastIsStarted, WaitForPesStart, WaitForPESData
<1>3. QED  BY <1>1, <1>2

(* OnlyLastIsStarted: NextPacket's calls of back() find a packet, and the    *)
(* rows of a PES packet show the packet started last.                        *)
THEOREM OnlyLastIsStartedHolds == Spec => []OnlyLastIsStarted
<1>1. ReportInv /\ [Next]_libraryVars => ReportInv'
  <2> SUFFICES ASSUME ReportInv, [Next]_libraryVars PROVE ReportInv'  OBVIOUS
  <2>1. CASE ReportNext  BY <2>1, ReportStep
  <2>2. CASE UNCHANGED reportVars
    BY <2>2 DEF reportVars, handlerVars, ReportInv, HandlerTypeOK, OnlyLastIsStarted
  <2>3. QED  BY <2>1, <2>2 DEF Next, libraryVars
<1>2. ReportInv => OnlyLastIsStarted  BY DEF ReportInv
<1>3. QED  BY ReportInitial, <1>1, <1>2, PTL DEF Spec

-----------------------------------------------------------------------------
(* The rows.  The packet at the back of the queue has the time stamp of the  *)
(* start taken last, or the handler skips another stream's, since that start *)
(* or from the beginning.  While nothing of the PES packet has been lost,    *)
(* the handler's continuity counter is the sender's, so there is no          *)
(* continuity error.                                                         *)
HandlerShows ==
  /\ CurrentState = WaitForPESData => Last(PESdata).PTS = lastStart
  /\ CurrentState = WaitForPesStart => lastStart = NoPTS

HandlerFollows == ContinuityCount = sentCC /\ lastStart = sending

RowsInv == ReportInv /\ HandlerShows /\ (inStep => HandlerFollows) /\ RowsAreRight

LEMMA LastStarted ==
  ASSUME ReportInv, NEW ts, NEW n, ts.pts \in HeaderPTSs \cup {NoPTS}, HeaderFound(ts),
         StartPES(ts, n) \/ RestartPES(ts, n)
  PROVE  Last(PESdata').PTS = ts.pts
<1>1. NewPESPacket(ts) \in PESPacket_t /\ NewPESPacket(ts).PTS = ts.pts
  BY StartedPacket DEF NewPESPacket
<1>2. CASE StartPES(ts, n)
  BY <1>1, <1>2, AppendedIsLast DEF StartPES, ReportInv, HandlerTypeOK
<1>3. CASE RestartPES(ts, n)
  <2>1. PESdata \in QueueType /\ PESdata # <<>>
    BY <1>3 DEF RestartPES, ReportInv, HandlerTypeOK, OnlyLastIsStarted
  <2>2. QED  BY <1>1, <1>3, <2>1, ReplacedIsLast DEF RestartPES
<1>4. QED  BY <1>2, <1>3

LEMMA HandlerShowsStep ==
  ASSUME RowsInv, NEW ts, NEW n, ts.pts \in HeaderPTSs \cup {NoPTS}, NextPacket(ts, n), ts.payloadPresent,
         ts.pts # NoPTS => ts.pusi,
         lastStart' = IF TakesStart(ts) THEN ts.pts ELSE lastStart
  PROVE  HandlerShows' /\ (row'.comment = "" => row'.pts = lastStart')
<1> USE DEF WaitForPesStart, WaitForPESData
<1>1. CASE CheckCCError(ts)
  <2>1. CCErrorRow(ts, n)
    BY <1>1 DEF NextPacket, AdaptationRow
  <2>2. UNCHANGED <<CurrentState, PESdata>> /\ row'.comment = "CCError"
    BY <2>1 DEF CCErrorRow, Row
  <2>3. lastStart' = lastStart
    BY <1>1 DEF TakesStart
  <2>4. QED  BY <2>2, <2>3 DEF RowsInv, HandlerShows
<1>2. CASE ~CheckCCError(ts) /\ ts.pusi /\ HeaderFound(ts)
  <2>1. StartPES(ts, n) \/ RestartPES(ts, n)
    BY <1>2 DEF NextPacket, AdaptationRow, CCErrorRow, SkipPayload, ContinueLastPESPacket
  <2>2. Last(PESdata').PTS = ts.pts
    BY <1>2, <2>1, LastStarted DEF RowsInv
  <2>3. CurrentState' = WaitForPESData /\ row'.pts = ts.pts
    <3>1. row' = Row(n, ts.pts, "")  BY <2>1 DEF StartPES, RestartPES
    <3>2. CurrentState' = WaitForPESData
      BY <1>2, <2>1 DEF StartPES, RestartPES
    <3>3. QED  BY <3>1, <3>2 DEF Row
  <2>4. lastStart' = ts.pts
    BY <1>2 DEF TakesStart
  <2>5. QED  BY <2>2, <2>3, <2>4 DEF HandlerShows
<1>3. CASE ~CheckCCError(ts) /\ ts.pusi /\ ~HeaderFound(ts)
  <2>1. SkipPayload(ts, n) \/ RestartPES(ts, n)
    BY <1>3 DEF NextPacket, AdaptationRow, CCErrorRow, StartPES, ContinueLastPESPacket
  <2>2. ts.pts = NoPTS /\ lastStart' = NoPTS
    BY <1>3 DEF HeaderFound, TakesStart
  <2>3. CurrentState' = WaitForPesStart /\ row'.pts = NoPTS
    <3>1. row' = Row(n, NoPTS, "")
      BY <2>1, <2>2 DEF SkipPayload, RestartPES
    <3>2. CurrentState' = WaitForPesStart
      BY <1>3, <2>1 DEF SkipPayload, RestartPES
    <3>3. QED  BY <3>1, <3>2 DEF Row
  <2>4. QED  BY <2>2, <2>3 DEF HandlerShows
<1>4. CASE ~CheckCCError(ts) /\ ~ts.pusi
  <2>1. SkipPayload(ts, n) \/ ContinueLastPESPacket(ts, n)
    BY <1>4 DEF NextPacket, AdaptationRow, CCErrorRow, StartPES, RestartPES
  <2>2. lastStart' = lastStart /\ UNCHANGED <<CurrentState, PESdata>>
    BY <1>4, <2>1 DEF TakesStart, SkipPayload, ContinueLastPESPacket
  <2>3. HandlerShows'
    BY <2>2 DEF RowsInv, HandlerShows
  <2>4. CASE SkipPayload(ts, n)
    BY <2>2, <2>4 DEF SkipPayload, RowsInv, HandlerShows, Row
  <2>5. CASE ContinueLastPESPacket(ts, n)
    BY <2>2, <2>5 DEF ContinueLastPESPacket, RowsInv, HandlerShows, Row
  <2>6. QED  BY <2>1, <2>3, <2>4, <2>5
<1>5. QED  BY <1>1, <1>2, <1>3, <1>4

LEMMA HandlerFollowsStep ==
  ASSUME RowsInv, NEW ts, NEW n, NextPacket(ts, n), ts.payloadPresent,
         ts.cc = (sentCC + 1) % CCModulus, sentCC' = ts.cc,
         sending' = IF ts.pusi THEN ts.pts ELSE sending,
         lastStart' = IF TakesStart(ts) THEN ts.pts ELSE lastStart,
         inStep \/ TakesStart(ts)
  PROVE  HandlerFollows'
<1>1. ~CheckCCError(ts)
  BY DEF CheckCCError, CCMismatch, TakesStart, RowsInv, HandlerFollows
<1>2. ContinuityCount' = sentCC'
  BY DEF NextPacket, AdaptationRow
<1>3. lastStart' = sending'
  BY <1>1 DEF TakesStart, RowsInv, HandlerFollows
<1>4. QED  BY <1>2, <1>3 DEF HandlerFollows

LEMMA RowsStep ==
  ASSUME RowsInv, ReportNext
  PROVE  RowsInv'
<1> USE DEF WaitForPesStart, WaitForPESData
<1>1. ReportInv'  BY ReportStep DEF RowsInv
<1>2. CASE ClockPID \/ OtherPID
  <2>1. UNCHANGED <<handlerVars, sentCC, sending, inStep, lastStart>>  BY <1>2 DEF ClockPID, OtherPID
  <2>2. QED  BY <1>1, <2>1 DEF RowsInv, HandlerShows, HandlerFollows, RowsAreRight, handlerVars
<1>3. CASE HandlerPID
  <2>1. PICK pusi \in BOOLEAN, payload \in BOOLEAN, pts \in HeaderPTSs \cup {NoPTS} :
          LET ts == [payloadPresent |-> payload, pusi |-> pusi, pts |-> pts, cc |-> sentCC']
          IN  /\ pusi => payload
              /\ pts # NoPTS => pusi
              /\ sentCC' = IF payload THEN (sentCC + 1) % CCModulus ELSE sentCC
              /\ sending' = IF pusi THEN pts ELSE sending
              /\ \/ /\ Arrive /\ NextPacket(ts, packetNumber')
                    /\ inStep' = (inStep \/ TakesStart(ts))
                    /\ lastStart' = IF TakesStart(ts) THEN pts ELSE lastStart
                 \/ /\ Lose /\ UNCHANGED <<handlerVars, lastStart>>
                    /\ inStep' = (inStep /\ ~payload)
    BY <1>3, Zenon DEF HandlerPID
  <2> DEFINE ts == [payloadPresent |-> payload, pusi |-> pusi, pts |-> pts, cc |-> sentCC']
  <2>2. /\ ts.payloadPresent = payload /\ ts.pusi = pusi /\ ts.pts = pts /\ ts.cc = sentCC'
        /\ \/ /\ NextPacket(ts, packetNumber') /\ inStep' = (inStep \/ TakesStart(ts))
              /\ lastStart' = IF TakesStart(ts) THEN ts.pts ELSE lastStart
           \/ UNCHANGED <<handlerVars, lastStart>> /\ inStep' = (inStep /\ ~payload)
    BY <2>1
  <2> HIDE DEF ts
  <2>3. CASE UNCHANGED <<handlerVars, lastStart>> /\ inStep' = (inStep /\ ~payload)
    BY <1>1, <2>1, <2>3 DEF RowsInv, HandlerShows, HandlerFollows, RowsAreRight, handlerVars
  <2>4. CASE /\ NextPacket(ts, packetNumber') /\ inStep' = (inStep \/ TakesStart(ts))
             /\ lastStart' = IF TakesStart(ts) THEN ts.pts ELSE lastStart
    <3>1. CASE payload
      <4>1. HandlerShows' /\ (row'.comment = "" => row'.pts = lastStart')
        BY <2>1, <2>2, <2>4, <3>1, HandlerShowsStep
      <4>2. inStep' => HandlerFollows'
        BY <2>1, <2>2, <2>4, <3>1, HandlerFollowsStep
      <4>3. QED  BY <1>1, <4>1, <4>2 DEF RowsInv, RowsAreRight, HandlerFollows
    <3>2. CASE ~payload
      <4>1. AdaptationRow(ts, packetNumber')
        BY <2>2, <2>4, <3>2 DEF NextPacket
      <4>2. row'.comment # "" /\ UNCHANGED <<CurrentState, PESdata, ContinuityCount>>
        BY <4>1 DEF AdaptationRow, Row
      <4>3. ~TakesStart(ts)
        BY <2>1, <2>2, <3>2 DEF TakesStart
      <4>4. UNCHANGED <<sentCC, sending, lastStart>> /\ (inStep' => inStep)
        BY <2>1, <2>4, <3>2, <4>3
      <4>5. QED  BY <1>1, <4>2, <4>4 DEF RowsInv, HandlerShows, HandlerFollows, RowsAreRight
    <3>3. QED  BY <3>1, <3>2
  <2>5. QED  BY <2>2, <2>3, <2>4
<1>4. QED  BY <1>2, <1>3 DEF ReportNext

(* RowsAreRight: the rows show the time stamp of the start taken last,       *)
(* whatever the channel loses and however often the continuity counter       *)
(* wraps; and that of the packet being sent while nothing was lost since.    *)
THEOREM RowsAreRightHolds == Spec => []RowsAreRight
<1>1. Init => RowsInv
  <2>1. Init => row = NoRow /\ inStep = FALSE /\ lastStart = NoPTS /\ CurrentState = WaitForPesStart
    BY DEF Init, ReportRests, ReportInit, HandlerInit
  <2>2. ASSUME Init PROVE HandlerShows /\ RowsAreRight /\ ~inStep
    <3>1. row = NoRow /\ inStep = FALSE /\ lastStart = NoPTS /\ CurrentState = WaitForPesStart
      BY <2>1, <2>2, Zenon
    <3>2. row.pts = NoPTS
      BY <3>1 DEF NoRow
    <3>3. QED  BY <3>1, <3>2 DEF RowsAreRight, HandlerShows, WaitForPesStart, WaitForPESData
  <2>3. QED  BY <2>2, ReportInitial DEF RowsInv
<1>2. RowsInv /\ [Next]_libraryVars => RowsInv'
  <2> SUFFICES ASSUME RowsInv, [Next]_libraryVars PROVE RowsInv'  OBVIOUS
  <2>1. CASE ReportNext  BY <2>1, RowsStep
  <2>2. CASE UNCHANGED reportVars
    BY <2>2 DEF reportVars, channelVars, handlerVars, RowsInv, HandlerShows, HandlerFollows, RowsAreRight,
                ReportInv, HandlerTypeOK, OnlyLastIsStarted
  <2>3. QED  BY <2>1, <2>2 DEF Next, libraryVars
<1>3. RowsInv => RowsAreRight  BY DEF RowsInv
<1>4. QED  BY <1>1, <1>2, <1>3, PTL DEF Spec

-----------------------------------------------------------------------------
(* The clock.  Every reference is the sender's clock when it sent the packet *)
(* that carried it, its lowest bit set; and if nothing was lost since, that  *)
(* packet's number is behind the last one's by as many as were sent since.   *)
IsReference(i) ==
  (\A n \in lost : n < PCRPacketNumber[i]) =>
    /\ PCRPacketNumber[i] + (sent - packetNumber) \in Nat
    /\ PCRHistory[i] = Reference(TrueClock(PCRPacketNumber[i] + (sent - packetNumber)))

ClockTypeOK ==
  /\ PCRHistory \in Seq(Nat) /\ Len(PCRHistory) = 3
  /\ PCRPacketNumber \in Seq(Nat) /\ Len(PCRPacketNumber) = 3
  /\ PCRPerPacket \in Int
  /\ \A i \in 1 .. 3 : PCRHistory[i] <= ClockModulus
  /\ packetNumber \in Int /\ packetNumber >= -1
  /\ sent \in Nat /\ lost \subseteq Int
  /\ rate \in Nat /\ offset \in Nat

ReferencesInv ==
  /\ \A i \in 1 .. 3 : PCRPacketNumber[i] # 0 => PCRPacketNumber[i] <= packetNumber
  /\ \A i \in 1 .. 2 : PCRPacketNumber[i] # 0 => PCRPacketNumber[i] < PCRPacketNumber[i + 1]
  /\ \A i \in 1 .. 3 : PCRPacketNumber[i] # 0 => IsReference(i)
  /\ PCRPerPacket = IF PCRPacketNumber[1] # 0 THEN Average(PCRHistory, PCRPacketNumber) ELSE 0

ClockInv == ClockTypeOK /\ ReferencesInv

LEMMA TrueClockType ==
  ASSUME rate \in Nat, offset \in Nat, NEW k \in Nat
  PROVE  TrueClock(k) \in 0 .. ClockModulus - 1
<1> DEFINE x == offset + rate * k
<1>1. x \in Nat  OBVIOUS
<1> HIDE DEF x
<1>2. x % ClockModulus \in 0 .. ClockModulus - 1  BY <1>1, ClockAssumption
<1>3. QED  BY <1>2 DEF TrueClock, x

LEMMA ReferenceType ==
  ASSUME NEW base \in 0 .. ClockModulus - 1
  PROVE  /\ Reference(base) \in Nat /\ Reference(base) <= ClockModulus
         /\ Reference(base) = base \/ Reference(base) = base + 1
BY ClockAssumption DEF Reference

LEMMA AverageType ==
  ASSUME NEW values \in Seq(Nat), Len(values) = 3, NEW packets \in Seq(Nat), Len(packets) = 3,
         packets[1] < packets[3]
  PROVE  Average(values, packets) \in Nat
<1> DEFINE x == values[3] - values[1]
           d == packets[3] - packets[1]
<1>0. /\ values[1] \in Nat /\ values[3] \in Nat
      /\ packets[1] \in Nat /\ packets[3] \in Nat
  <2>1. /\ 1 \in 1 .. Len(values) /\ 3 \in 1 .. Len(values)
        /\ 1 \in 1 .. Len(packets) /\ 3 \in 1 .. Len(packets)  OBVIOUS
  <2>2. values \in [1 .. Len(values) -> Nat] /\ packets \in [1 .. Len(packets) -> Nat]
    BY LenProperties
  <2>3. QED  BY <2>1, <2>2, Zenon
<1>1. x \in Int /\ d \in Nat \ {0}  BY <1>0
<1> HIDE DEF x, d
<1>2. x % WordModulus \in Nat  BY <1>1, ClockAssumption
<1>3. (x % WordModulus) \div d \in Nat  BY <1>1, <1>2
<1>4. QED  BY <1>3 DEF Average, x, d

-----------------------------------------------------------------------------
(* Arithmetic of a clock that wraps.                                         *)
LEMMA MultipleVanishes ==
  ASSUME NEW M \in Nat, 1 < M, NEW p \in Int, NEW k \in Int
  PROVE  (M * p + k) % M = k % M
<1> DEFINE q == k \div M
           r == k % M
           n == M * p + k
<1>1. M \in Nat \ {0} /\ k = M * q + r /\ q \in Int /\ r \in 0 .. M - 1
  BY SMT
<1>2. M * (p + q) = M * p + M * q
  BY <1>1, SMT
<1>3. n = M * (p + q) + r /\ n \in Int
  <2> DEFINE a == M * p
             b == M * q
             c == M * (p + q)
  <2>1. a \in Int /\ b \in Int /\ c = a + b /\ r \in Int /\ k = b + r  BY <1>1, <1>2
  <2>2. n = a + k  OBVIOUS
  <2> HIDE DEF a, b, c, n, r
  <2>3. n = c + r  BY <2>1, <2>2
  <2>4. n \in Int  BY <2>1, <2>2
  <2>5. QED  BY <2>3, <2>4 DEF c
<1> HIDE DEF q, r, n
<1>4. n % M = r
  <2>1. p + q \in Int  BY <1>1
  <2>2. QED  BY <1>1, <1>3, <2>1, SMT
<1>5. QED  BY <1>4 DEF n, r

LEMMA Congruent ==
  ASSUME NEW M \in Nat, 1 < M, NEW x \in Int, NEW y \in Int
  PROVE  ((x % M) - (y % M)) % M = (x - y) % M
<1> DEFINE p == x \div M
           q == y \div M
           r == x % M
           s == y % M
<1>1. x = M * p + r /\ y = M * q + s /\ p \in Int /\ q \in Int /\ r \in 0 .. M - 1 /\ s \in 0 .. M - 1
  BY SMT
<1> HIDE DEF p, q, r, s
<1>2. (M * (p - q) + (r - s)) % M = (r - s) % M
  BY <1>1, SMT
<1>3. x - y = M * (p - q) + (r - s)
  <2>1. M * (p - q) = M * p - M * q  BY <1>1, SMT
  <2> DEFINE a == M * p
             b == M * q
             c == M * (p - q)
  <2>2. a \in Int /\ b \in Int  BY <1>1
  <2>3. x = a + r /\ y = b + s /\ c = a - b  BY <1>1, <2>1
  <2> HIDE DEF a, b, c
  <2>4. x - y = c + (r - s)
    <3>1. r \in Int /\ s \in Int  BY <1>1
    <3>2. QED  BY <3>1, <2>2, <2>3
  <2>5. QED  BY <2>4 DEF c
<1>4. (r - s) % M = (x - y) % M
  BY <1>2, <1>3
<1>5. QED  BY <1>4 DEF r, s

LEMMA AddedToRemainder ==
  ASSUME NEW M \in Nat, 1 < M, NEW x \in Int, NEW d \in Int
  PROVE  ((x % M) + d) % M = (x + d) % M
<1> DEFINE p == x \div M
           r == x % M
<1>1. x = M * p + r /\ p \in Int /\ r \in 0 .. M - 1
  BY SMT
<1> HIDE DEF p, r
<1>2. (M * p + (r + d)) % M = (r + d) % M
  <2> DEFINE k == r + d
  <2>1. k \in Int  BY <1>1
  <2> HIDE DEF k
  <2>2. (M * p + k) % M = k % M  BY <1>1, <2>1, MultipleVanishes
  <2>3. QED  BY <2>2 DEF k
<1>3. x + d = M * p + (r + d)
  BY <1>1, SMT
<1>4. QED  BY <1>2, <1>3 DEF r

LEMMA SmallRemainderOf ==
  ASSUME NEW M \in Nat, 1 < M, NEW m \in Nat
  PROVE  /\ m % M <= m
         /\ m < M => m % M = m
BY SMT

(* A clock that advances by less than a turn, and is not behind where it     *)
(* was, has not wrapped.                                                     *)
LEMMA NotWrapped ==
  ASSUME NEW M \in Nat, 1 < M, NEW x \in Nat, NEW d \in Nat, d < M, x % M <= (x + d) % M
  PROVE  (x + d) % M = (x % M) + d
<1> DEFINE r == x % M
<1>1. r \in 0 .. M - 1  OBVIOUS
<1>2. (r + d) % M = (x + d) % M
  <2>1. x \in Int /\ d \in Int  OBVIOUS
  <2>2. ((x % M) + d) % M = (x + d) % M  BY <2>1, AddedToRemainder, Zenon
  <2>3. QED  BY <2>2, Zenon DEF r
<1> HIDE DEF r
<1>3. (r + d) % M = IF r + d < M THEN r + d ELSE r + d - M
  BY <1>1, SMT
<1>4. r <= (x + d) % M  BY DEF r
<1>5. (x + d) % M = r + d  BY <1>1, <1>2, <1>3, <1>4
<1>6. QED  BY <1>5 DEF r

-----------------------------------------------------------------------------
(* Two references with no loss between them, of which the clock has not      *)
(* wrapped: the average over them is the rate, or one less when rounding     *)
(* only raised the older.                                                    *)
LEMMA SteadyAverage ==
  ASSUME NEW k \in Nat, NEW d \in Nat, 1 < d, rate \in Nat, offset \in Nat, rate * d < ClockModulus,
         NEW old, old = Reference(TrueClock(k)), NEW new, new = Reference(TrueClock(k + d)),
         old <= new, ((new - old) % WordModulus) \div d # 0
  PROVE  \/ /\ ((new - old) % WordModulus) \div d = rate
            /\ new = TrueClock(k + d) \/ new = TrueClock(k + d) + 1
         \/ ((new - old) % WordModulus) \div d = rate - 1 /\ new = TrueClock(k + d)
<1> DEFINE a == TrueClock(k)
           b == TrueClock(k + d)
           x == offset + rate * k
           step == rate * d
<1>1. a \in 0 .. ClockModulus - 1 /\ b \in 0 .. ClockModulus - 1
  BY TrueClockType
<1>2. x \in Nat /\ step \in Nat /\ step < ClockModulus /\ a = x % ClockModulus /\ b = (x + step) % ClockModulus
  <2>1. rate * (k + d) = rate * k + rate * d  BY SMT
  <2> DEFINE u == rate * k
             v == rate * (k + d)
  <2>2. u \in Nat /\ step \in Nat /\ v = u + step  BY <2>1
  <2>3. a = (offset + u) % ClockModulus /\ b = (offset + v) % ClockModulus  BY DEF TrueClock
  <2> HIDE DEF u, v, step, a, b
  <2>4. offset + v = (offset + u) + step  BY <2>2
  <2>5. step < ClockModulus  BY DEF step
  <2>6. QED  BY <2>2, <2>3, <2>4, <2>5 DEF x, u
<1>3. /\ old \in Nat /\ new \in Nat /\ new <= ClockModulus
      /\ old = a \/ old = a + 1
      /\ new = b \/ new = b + 1
  BY <1>1, ReferenceType
<1>4. b < a => new <= old
  <2>1. b < a => 2 * (b \div 2) + 1 <= 2 * (a \div 2) + 1
    <3> HIDE DEF a, b
    <3>1. QED  BY <1>1
  <2>2. QED  BY <2>1 DEF Reference
<1>5. ClockModulus \in Nat /\ WordModulus \in Nat /\ 1 < ClockModulus /\ ClockModulus < WordModulus
  BY ClockAssumption
<1> HIDE DEF a, b, x, step
<1>6. (new - old) % WordModulus = new - old
  <2>1. new - old \in Nat /\ new - old < WordModulus  BY <1>3, <1>5
  <2> DEFINE m == new - old
  <2> HIDE DEF m
  <2>2. m \in Nat /\ m < WordModulus  BY <2>1 DEF m
  <2>3. m % WordModulus = m  BY <1>5, <2>2, SmallRemainderOf
  <2>4. QED  BY <2>3 DEF m
<1>7. old # new
  BY <1>3, <1>6
<1>8. a <= b
  BY <1>1, <1>3, <1>4, <1>7
<1>9. b = a + step
  BY <1>2, <1>5, <1>8, NotWrapped
<1>10. PICK c \in {0, 1}, e \in {0, 1} : old = a + c /\ new = b + e
  BY <1>1, <1>3
<1>11. new - old = step + (e - c) /\ step + (e - c) >= 0
  BY <1>1, <1>2, <1>3, <1>9, <1>10
<1>12. (e < c => (new - old) \div d = rate - 1) /\ (e >= c => (new - old) \div d = rate)
  <2>2. CASE e = c
    <3>1. (rate * d) \div d = rate  BY SMT
    <3>2. new - old = step /\ step \in Nat  BY <1>2, <1>11, <2>2
    <3>3. QED  BY <2>2, <3>1, <3>2 DEF step
  <2>3. CASE e = 1 /\ c = 0
    <3>1. (rate * d + 1) \div d = rate  BY SMT
    <3>2. new - old = step + 1  BY <1>2, <1>11, <2>3
    <3>3. QED  BY <2>3, <3>1, <3>2 DEF step
  <2>4. CASE e = 0 /\ c = 1
    <3>1. (d * (rate - 1) + (d - 1)) \div d = rate - 1  BY SMT
    <3>2. d * (rate - 1) + (d - 1) = rate * d - 1  BY SMT
    <3>3. new - old = step - 1  BY <1>2, <1>11, <2>4
    <3>4. (new - old) \div d = rate - 1  BY <3>1, <3>2, <3>3 DEF step
    <3>5. QED  BY <2>4, <3>4
  <2>5. QED  BY <2>2, <2>3, <2>4
<1>13. QED
  BY <1>1, <1>6, <1>10, <1>12 DEF b

(* A clock that goes on from b, or one more, at the rate is at most one      *)
(* ahead; one that loses a tick a packet is behind by that.                  *)
LEMMA ExtrapolatedClock ==
  ASSUME NEW k \in Nat, NEW m \in Nat, rate \in Nat, offset \in Nat,
         NEW average \in Int, NEW new \in Int,
         \/ average = rate /\ (new = TrueClock(k) \/ new = TrueClock(k) + 1)
         \/ average = rate - 1 /\ new = TrueClock(k)
  PROVE  \/ (((new + average * m) % ClockModulus) - TrueClock(k + m)) % ClockModulus <= 1
         \/ (TrueClock(k + m) - ((new + average * m) % ClockModulus)) % ClockModulus <= m
<1> DEFINE x == offset + rate * k
           y == rate * m
           z == average * m
           q == x \div ClockModulus
           b == x % ClockModulus
<1>1. ClockModulus \in Nat /\ 1 < ClockModulus  BY ClockAssumption
<1>2. x \in Nat /\ y \in Nat /\ z \in Int /\ average \in Int
  OBVIOUS
<1>3. TrueClock(k) = b /\ TrueClock(k + m) = (x + y) % ClockModulus
  <2>1. rate * (k + m) = rate * k + rate * m  BY SMT
  <2> DEFINE u == rate * k
             v == rate * (k + m)
  <2>2. u \in Nat /\ v = u + y  BY <2>1
  <2>3. TrueClock(k) = (offset + u) % ClockModulus /\ TrueClock(k + m) = (offset + v) % ClockModulus
    BY DEF TrueClock
  <2>4. x = offset + u  OBVIOUS
  <2> HIDE DEF u, v, x, y
  <2>5. offset + v = x + y  BY <1>2, <2>2, <2>4
  <2>6. QED  BY <2>3, <2>4, <2>5
<1>4. z = IF average = rate THEN y ELSE y - m
  <2>1. (rate - 1) * m = rate * m - m  BY SMT
  <2>2. QED  BY <2>1
<1> HIDE DEF x, y, z
<1>5. x = ClockModulus * q + b /\ q \in Int /\ b \in Nat
  BY <1>1, <1>2, SMT
<1> HIDE DEF q, b
<1> DEFINE c == ClockModulus * q
           d == ClockModulus * (-q)
<1>6. c \in Int /\ d \in Int /\ d = -c /\ x = c + b
  <2>1. c \in Int /\ d \in Int  BY <1>1, <1>5
  <2>2. d = -c  BY <1>1, <1>5, SMT
  <2>3. QED  BY <1>5, <2>1, <2>2
<1>7. \A n \in Int : (c + n) % ClockModulus = n % ClockModulus /\ (d + n) % ClockModulus = n % ClockModulus
  <2>1. -q \in Int  BY <1>5
  <2>2. QED  BY <1>1, <1>5, <2>1, MultipleVanishes
<1> HIDE DEF c, d
<1>8. /\ (((new + z) % ClockModulus) - ((x + y) % ClockModulus)) % ClockModulus = ((new + z) - (x + y)) % ClockModulus
      /\ (((x + y) % ClockModulus) - ((new + z) % ClockModulus)) % ClockModulus = ((x + y) - (new + z)) % ClockModulus
  <2>1. new + z \in Int /\ x + y \in Int  BY <1>2
  <2>2. QED  BY <1>1, <2>1, Congruent
<1>9. CASE average = rate /\ (new = b \/ new = b + 1)
  <2> DEFINE e == new - b
  <2>1. e \in {0, 1} /\ (new + z) - (x + y) = d + e
    BY <1>2, <1>4, <1>5, <1>6, <1>9
  <2> HIDE DEF e
  <2>2. (d + e) % ClockModulus = e % ClockModulus  BY <1>7, <2>1
  <2>3. e % ClockModulus <= 1  BY <1>1, <2>1, SmallRemainderOf
  <2>4. (((new + z) % ClockModulus) - ((x + y) % ClockModulus)) % ClockModulus <= 1
    BY <1>8, <2>1, <2>2, <2>3
  <2>5. QED  BY <1>3, <2>4 DEF z
<1>10. CASE average = rate - 1 /\ new = b
  <2>1. (x + y) - (new + z) = c + m
    BY <1>2, <1>4, <1>5, <1>6, <1>10
  <2>2. (c + m) % ClockModulus = m % ClockModulus  BY <1>7
  <2>3. m % ClockModulus <= m  BY <1>1, SmallRemainderOf
  <2>4. (((x + y) % ClockModulus) - ((new + z) % ClockModulus)) % ClockModulus <= m
    BY <1>8, <2>1, <2>2, <2>3
  <2>5. QED  BY <1>3, <2>4 DEF z
<1>11. QED  BY <1>3, <1>9, <1>10

-----------------------------------------------------------------------------
LEMMA PushedReference ==
  ASSUME NEW s \in Seq(Nat), Len(s) = 3, NEW x \in Nat
  PROVE  /\ Append(Tail(s), x) \in Seq(Nat) /\ Len(Append(Tail(s), x)) = 3
         /\ Append(Tail(s), x)[1] = s[2] /\ Append(Tail(s), x)[2] = s[3] /\ Append(Tail(s), x)[3] = x
         /\ s[1] \in Nat /\ s[2] \in Nat /\ s[3] \in Nat
<1> DEFINE t == Tail(s)
<1>1. s # <<>>  BY EmptySeq
<1>2. t \in Seq(Nat) /\ Len(t) = 2 /\ t[1] = s[2] /\ t[2] = s[3]
  <2>1. /\ t \in Seq(Nat) /\ Len(t) = Len(s) - 1
        /\ \A i \in 1 .. Len(t) : t[i] = s[i + 1]
    BY <1>1, HeadTailProperties
  <2> HIDE DEF t
  <2>2. Len(t) = 2 /\ 1 \in 1 .. Len(t) /\ 2 \in 1 .. Len(t)  BY <2>1
  <2>3. QED  BY <2>1, <2>2
<1>3. s[1] \in Nat /\ s[2] \in Nat /\ s[3] \in Nat
  <2>1. 1 \in 1 .. Len(s) /\ 2 \in 1 .. Len(s) /\ 3 \in 1 .. Len(s)  OBVIOUS
  <2>2. s \in [1 .. Len(s) -> Nat]  BY LenProperties
  <2>3. QED  BY <2>1, <2>2, Zenon
<1> HIDE DEF t
<1>4. /\ Append(t, x) \in Seq(Nat) /\ Len(Append(t, x)) = 3
      /\ Append(t, x)[1] = t[1] /\ Append(t, x)[2] = t[2] /\ Append(t, x)[3] = x
  <2>1. /\ Append(t, x) \in Seq(Nat) /\ Len(Append(t, x)) = 3
        /\ \A i \in 1 .. 2 : Append(t, x)[i] = t[i]
        /\ Append(t, x)[3] = x
    <3> DEFINE a == Append(t, x)
    <3>1. /\ a \in Seq(Nat) /\ Len(a) = Len(t) + 1
          /\ \A i \in 1 .. Len(t) : a[i] = t[i]
          /\ a[Len(t) + 1] = x
      <4>0. t \in Seq(Nat) /\ x \in Nat  BY <1>2
      <4>1. a \in Seq(Nat) /\ Len(a) = Len(t) + 1  BY <4>0, AppendProperties
      <4>2. \A i \in 1 .. Len(t) : a[i] = t[i]  BY <4>0, AppendProperties
      <4>3. a[Len(t) + 1] = x  BY <4>0, AppendProperties
      <4>4. QED  BY <4>1, <4>2, <4>3
    <3> HIDE DEF a
    <3>2. Len(t) = 2 /\ Len(t) + 1 = 3  BY <1>2
    <3>3. QED  BY <3>1, <3>2 DEF a
  <2>2. 1 \in 1 .. 2 /\ 2 \in 1 .. 2  OBVIOUS
  <2>3. QED  BY <2>1, <2>2
<1>5. QED  BY <1>2, <1>3, <1>4 DEF t

LEMMA TripleInNat ==
  ASSUME NEW s \in Seq(Nat), Len(s) = 3
  PROVE  s[1] \in Nat /\ s[2] \in Nat /\ s[3] \in Nat
BY PushedReference

LEMMA NewReferenceStep ==
  ASSUME ClockInv, packetNumber' = packetNumber + 1, UNCHANGED <<lost, rate, offset>>, sent' = sent + 1,
         newValue(Reference(TrueClock(sent')), packetNumber')
  PROVE  ClockInv'
<1> DEFINE new == Reference(TrueClock(sent'))
           H == PCRHistory
           p == PCRPacketNumber
           H1 == Append(Tail(PCRHistory), new)
           p1 == Append(Tail(PCRPacketNumber), packetNumber')
<1>1. packetNumber' \in Nat /\ sent' \in Nat /\ packetNumber \in Int /\ sent \in Nat
      /\ packetNumber' = packetNumber + 1 /\ sent' = sent + 1
  BY DEF ClockInv, ClockTypeOK
<1>2. new \in Nat /\ new <= ClockModulus
  BY <1>1, TrueClockType, ReferenceType DEF ClockInv, ClockTypeOK
<1>3. /\ H1 \in Seq(Nat) /\ Len(H1) = 3 /\ H1[1] = H[2] /\ H1[2] = H[3] /\ H1[3] = new
      /\ H[1] \in Nat /\ H[2] \in Nat /\ H[3] \in Nat
  BY <1>2, PushedReference, SMTT(40) DEF ClockInv, ClockTypeOK
<1>4. /\ p1 \in Seq(Nat) /\ Len(p1) = 3 /\ p1[1] = p[2] /\ p1[2] = p[3] /\ p1[3] = packetNumber'
      /\ p[1] \in Nat /\ p[2] \in Nat /\ p[3] \in Nat
  BY <1>1, PushedReference DEF ClockInv, ClockTypeOK
<1>5. PCRHistory' = H1 /\ PCRPacketNumber' = p1
      /\ PCRPerPacket' = IF p1[1] # 0 THEN Average(H1, p1) ELSE PCRPerPacket
  BY DEF newValue
<1>6. /\ p[2] # 0 => p[2] < p[3] /\ p[2] <= packetNumber
      /\ p[1] # 0 => p[1] < p[2]
      /\ p[3] # 0 => p[3] <= packetNumber
  BY DEF ClockInv, ReferencesInv
<1>0. /\ \A i \in 1 .. 3 : i = 1 \/ i = 2 \/ i = 3
      /\ \A i \in 1 .. 2 : (i = 1 /\ i + 1 = 2) \/ (i = 2 /\ i + 1 = 3)
  OBVIOUS
<1> HIDE DEF H1, p1, new
<1>7. ReferencesInv'
  <2>1. \A i \in 1 .. 3 : PCRPacketNumber'[i] # 0 => PCRPacketNumber'[i] <= packetNumber'
    <3>1. /\ p[2] # 0 => p[2] <= packetNumber'
          /\ p[3] # 0 => p[3] <= packetNumber'
          /\ packetNumber' <= packetNumber'
      BY <1>1, <1>4, <1>6
    <3>2. QED  BY <1>0, <1>4, <1>5, <3>1
  <2>2. \A i \in 1 .. 2 : PCRPacketNumber'[i] # 0 => PCRPacketNumber'[i] < PCRPacketNumber'[i + 1]
    <3>1. /\ p[2] # 0 => p[2] < p[3]
          /\ p[3] # 0 => p[3] < packetNumber'
      BY <1>1, <1>4, <1>6
    <3>2. QED  BY <1>0, <1>4, <1>5, <3>1
  <2>3. p[2] # 0 => IsReference(1)'
    <3>1. p[2] # 0 => IsReference(2)  BY DEF ClockInv, ReferencesInv
    <3>2. sent' - packetNumber' = sent - packetNumber  BY <1>1
    <3>3. QED  BY <1>3, <1>4, <1>5, <3>1, <3>2 DEF IsReference, TrueClock
  <2>4. p[3] # 0 => IsReference(2)'
    <3>1. p[3] # 0 => IsReference(3)  BY DEF ClockInv, ReferencesInv
    <3>2. sent' - packetNumber' = sent - packetNumber  BY <1>1
    <3>3. QED  BY <1>3, <1>4, <1>5, <3>1, <3>2 DEF IsReference, TrueClock
  <2>5. IsReference(3)'
    <3>1. packetNumber' + (sent' - packetNumber') = sent'  BY <1>1
    <3>2. TrueClock(sent)' = TrueClock(sent')  BY DEF TrueClock
    <3>3. PCRPacketNumber'[3] = packetNumber' /\ PCRHistory'[3] = Reference(TrueClock(sent'))
      BY <1>3, <1>4, <1>5 DEF new
    <3>4. TrueClock(sent') = (offset' + rate' * sent') % ClockModulus  BY DEF TrueClock
    <3>5. QED  BY <1>1, <3>1, <3>3, <3>4 DEF IsReference, TrueClock
  <2>6. \A i \in 1 .. 3 : PCRPacketNumber'[i] # 0 => IsReference(i)'
    BY <1>0, <1>4, <1>5, <2>3, <2>4, <2>5
  <2>7. PCRPerPacket' = IF PCRPacketNumber'[1] # 0 THEN Average(PCRHistory', PCRPacketNumber') ELSE 0
    <3>1. p1[1] = 0 => p[1] = 0
      <4>1. p[1] \in Nat /\ p[2] \in Nat /\ p1[1] = p[2]  BY <1>4
      <4>2. p[1] # 0 => p[1] < p[2]  BY <1>6
      <4>3. QED  BY <4>1, <4>2
    <3>2. p[1] = 0 => PCRPerPacket = 0  BY DEF ClockInv, ReferencesInv
    <3>3. QED  BY <1>5, <3>1, <3>2
  <2>8. QED  BY <2>1, <2>2, <2>6, <2>7 DEF ReferencesInv, Average
<1>8. ClockTypeOK'
  <2>1. PCRPerPacket' \in Int
    <3>1. p1[1] # 0 => p1[1] < p1[3]
      <4>1. p[2] \in Nat /\ p1[1] = p[2] /\ p1[3] = packetNumber'  BY <1>4
      <4>2. p[2] # 0 => p[2] <= packetNumber  BY <1>6
      <4>3. QED  BY <1>1, <4>1, <4>2
    <3>2. p1[1] # 0 => Average(H1, p1) \in Nat
      BY <1>3, <1>4, <3>1, AverageType
    <3>3. PCRPerPacket \in Int  BY DEF ClockInv, ClockTypeOK
    <3>4. QED  BY <1>5, <3>2, <3>3
  <2>2. \A i \in 1 .. 3 : PCRHistory'[i] <= ClockModulus
    <3>1. PCRHistory[2] <= ClockModulus /\ PCRHistory[3] <= ClockModulus
      BY DEF ClockInv, ClockTypeOK
    <3>2. QED  BY <1>0, <1>2, <1>3, <1>5, <3>1
  <2>3. /\ packetNumber' \in Int /\ packetNumber' >= -1 /\ lost' \subseteq Int
        /\ rate' \in Nat /\ offset' \in Nat
    BY <1>1 DEF ClockInv, ClockTypeOK
  <2>4. QED  BY <1>1, <1>3, <1>4, <1>5, <2>1, <2>2, <2>3 DEF ClockTypeOK
<1>9. QED  BY <1>7, <1>8 DEF ClockInv

(* Without a new reference nothing changes but how much was sent and lost:   *)
(* and a packet that is lost now was sent after every reference.             *)
LEMMA NoReferenceStep ==
  ASSUME ClockInv, UNCHANGED <<clockVars, rate, offset>>, sent' = sent + 1, Arrive \/ Lose
  PROVE  ClockInv'
<1>1. UNCHANGED <<PCRHistory, PCRPacketNumber, PCRPerPacket>>  BY DEF clockVars
<1>2. sent' \in Nat /\ packetNumber' \in Int /\ packetNumber' >= -1 /\ packetNumber <= packetNumber'
      /\ packetNumber \in Int /\ lost' \subseteq Int
  <2>1. /\ sent \in Nat /\ packetNumber \in Int /\ packetNumber >= -1 /\ lost \subseteq Int
    BY DEF ClockInv, ClockTypeOK
  <2>2. CASE Arrive  BY <2>1, <2>2 DEF Arrive
  <2>3. CASE Lose  BY <2>1, <2>3 DEF Lose
  <2>4. QED  BY <2>2, <2>3
<1>3. ClockTypeOK'
  BY <1>1, <1>2 DEF ClockInv, ClockTypeOK
<1>4. \A i \in 1 .. 3 : PCRPacketNumber[i] \in Nat
  <2>1. PCRPacketNumber[1] \in Nat /\ PCRPacketNumber[2] \in Nat /\ PCRPacketNumber[3] \in Nat
    BY TripleInNat DEF ClockInv, ClockTypeOK
  <2>2. \A i \in 1 .. 3 : i = 1 \/ i = 2 \/ i = 3  OBVIOUS
  <2>3. QED  BY <2>1, <2>2
<1>5. ASSUME NEW i \in 1 .. 3, PCRPacketNumber[i] # 0
      PROVE  IsReference(i)'
  <2>1. IsReference(i) /\ PCRPacketNumber[i] <= packetNumber
    BY <1>5 DEF ClockInv, ReferencesInv
  <2>2. CASE Arrive
    <3>1. sent' - packetNumber' = sent - packetNumber
      BY <2>2 DEF Arrive, ClockInv, ClockTypeOK
    <3>2. QED  BY <1>1, <2>1, <2>2, <3>1 DEF IsReference, TrueClock, Arrive
  <2>3. CASE Lose
    <3>1. packetNumber \in lost' /\ ~(packetNumber < PCRPacketNumber'[i])
      <4>1. PCRPacketNumber[i] \in Nat  BY <1>4
      <4>2. QED  BY <1>1, <1>2, <2>1, <2>3, <4>1 DEF Lose
    <3>2. QED  BY <3>1 DEF IsReference
  <2>4. QED  BY <2>2, <2>3
<1>6. ReferencesInv'
  <2>1. \A i \in 1 .. 3 : PCRPacketNumber'[i] # 0 => PCRPacketNumber'[i] <= packetNumber'
    BY <1>1, <1>2, <1>4 DEF ClockInv, ReferencesInv
  <2>2. QED  BY <1>1, <1>5, <2>1 DEF ClockInv, ReferencesInv, Average
<1>7. QED  BY <1>3, <1>6 DEF ClockInv

LEMMA ClockStep ==
  ASSUME ClockInv, ReportNext
  PROVE  ClockInv'
<1>1. UNCHANGED <<rate, offset>> /\ sent' = sent + 1
  BY DEF ReportNext, ClockPID, HandlerPID, OtherPID
<1>2. CASE UNCHANGED clockVars /\ (Arrive \/ Lose)
  BY <1>1, <1>2, NoReferenceStep
<1>3. CASE Arrive /\ newValue(Reference(TrueClock(sent')), packetNumber')
  BY <1>1, <1>3, NewReferenceStep DEF Arrive
<1>4. CASE ClockPID
  <2>1. PICK length \in {0, 7}, flag \in BOOLEAN :
          LET ts == [adaptation_field_length |-> length, PCR_flag |-> flag, base |-> TrueClock(sent')]
          IN  \/ Arrive /\ ClockPacket(ts, packetNumber')
              \/ Lose /\ UNCHANGED clockVars
    BY <1>4 DEF ClockPID
  <2>2. QED  BY <1>2, <1>3, <2>1 DEF ClockPacket
<1>5. CASE HandlerPID
  <2>1. UNCHANGED clockVars /\ (Arrive \/ Lose)
    BY <1>5 DEF HandlerPID
  <2>2. QED  BY <1>2, <2>1
<1>6. CASE OtherPID
  BY <1>2, <1>6 DEF OtherPID
<1>7. QED  BY <1>4, <1>5, <1>6 DEF ReportNext

LEMMA ClockFollows ==
  ASSUME ClockInv
  PROVE  ClockFollowsSender
<1> SUFFICES ASSUME ready, SteadyReferences, NEW n \in PCRPacketNumber[3] .. packetNumber
             PROVE  LET true == TrueClock(n + sent - packetNumber)
                    IN  \/ (getPCR(n) - true) % ClockModulus <= 1
                        \/ (true - getPCR(n)) % ClockModulus <= n - PCRPacketNumber[3]
  BY DEF ClockFollowsSender
<1> DEFINE p1 == PCRPacketNumber[1]
           p3 == PCRPacketNumber[3]
           H1 == PCRHistory[1]
           H3 == PCRHistory[3]
           ahead == sent - packetNumber
           k == p1 + ahead
           d == p3 - p1
           m == n - p3
<1>1. /\ p1 \in Nat /\ p3 \in Nat /\ H1 \in Nat /\ H3 \in Nat /\ ahead \in Int
      /\ rate \in Nat /\ offset \in Nat /\ packetNumber \in Int /\ sent \in Nat
  BY TripleInNat DEF ClockInv, ClockTypeOK
<1>2. p1 # 0 /\ PCRPerPacket = ((H3 - H1) % WordModulus) \div d /\ PCRPerPacket # 0
  BY DEF ready, ClockInv, ReferencesInv, Average
<1>3. p1 < PCRPacketNumber[2] /\ PCRPacketNumber[2] < p3 /\ PCRPacketNumber[2] \in Nat
  <2>1. PCRPacketNumber[2] \in Nat  BY TripleInNat DEF ClockInv, ClockTypeOK
  <2>2. p1 < PCRPacketNumber[2]  BY <1>2 DEF ClockInv, ReferencesInv
  <2>3. PCRPacketNumber[2] # 0  BY <1>1, <2>1, <2>2
  <2>4. QED  BY <2>1, <2>2, <2>3 DEF ClockInv, ReferencesInv
<1>4. d \in Nat /\ 1 < d /\ m \in Nat /\ k + d = p3 + ahead /\ p3 # 0 /\ p1 < p3
  BY <1>1, <1>3
<1>5. k \in Nat /\ H1 = Reference(TrueClock(k))
  <2>1. \A l \in lost : l < p1  BY DEF SteadyReferences
  <2>2. IsReference(1)  BY <1>2 DEF ClockInv, ReferencesInv
  <2>3. QED  BY <2>1, <2>2 DEF IsReference
<1>6. H3 = Reference(TrueClock(k + d))
  <2>1. \A l \in lost : l < p3
    <3>1. \A l \in lost : l < p1 /\ l \in Int  BY DEF SteadyReferences, ClockInv, ClockTypeOK
    <3>2. QED  BY <1>1, <1>4, <3>1
  <2>2. IsReference(3)  BY <1>4 DEF ClockInv, ReferencesInv
  <2>3. H3 = Reference(TrueClock(p3 + ahead))  BY <2>1, <2>2 DEF IsReference
  <2>4. QED  BY <1>4, <2>3
<1>7. H1 <= H3 /\ rate * d < ClockModulus
  BY DEF SteadyReferences
<1>8. TrueClock(n + sent - packetNumber) = TrueClock((k + d) + m)
  <2>1. n + sent - packetNumber = (k + d) + m  BY <1>1, <1>4
  <2>2. QED  BY <2>1
<1>9. getPCR(n) = (H3 + PCRPerPacket * m) % ClockModulus
  BY DEF getPCR
<1> HIDE DEF p1, p3, H1, H3, ahead, k, d, m
<1>10. \/ /\ PCRPerPacket = rate
          /\ H3 = TrueClock(k + d) \/ H3 = TrueClock(k + d) + 1
       \/ PCRPerPacket = rate - 1 /\ H3 = TrueClock(k + d)
  BY <1>1, <1>2, <1>4, <1>5, <1>6, <1>7, SteadyAverage
<1>11. \/ (((H3 + PCRPerPacket * m) % ClockModulus) - TrueClock((k + d) + m)) % ClockModulus <= 1
       \/ (TrueClock((k + d) + m) - ((H3 + PCRPerPacket * m) % ClockModulus)) % ClockModulus <= m
  <2>1. k + d \in Nat /\ PCRPerPacket \in Int /\ H3 \in Int
    BY <1>1, <1>4, <1>5 DEF ClockInv, ClockTypeOK
  <2>2. QED  BY <1>1, <1>4, <1>10, <2>1, ExtrapolatedClock
<1>12. QED  BY <1>8, <1>9, <1>11 DEF m, p3

(* ClockFollowsSender: three references after a loss or a wrap the reported  *)
(* clock is the sender's again, but for a tick ahead or one per packet       *)
(* behind, at every rate and wherever the clock begins.                      *)
THEOREM ClockFollowsSenderHolds == Spec => []ClockFollowsSender
<1>1. Init => ClockInv
  <2>1. Init => ReportInit  BY DEF Init, ReportRests
  <2>2. ReportInit => ClockInv
    <3> SUFFICES ASSUME ReportInit PROVE ClockInv  OBVIOUS
    <3>1. PCRHistory = <<0, 0, 0>> /\ PCRPacketNumber = <<0, 0, 0>> /\ PCRPerPacket = 0
      BY DEF ReportInit, ClockInit
    <3>2. /\ \A i \in 1 .. 3 : PCRHistory[i] = 0 /\ PCRPacketNumber[i] = 0
          /\ PCRHistory \in Seq(Nat) /\ Len(PCRHistory) = 3
          /\ PCRPacketNumber \in Seq(Nat) /\ Len(PCRPacketNumber) = 3
      BY <3>1
    <3>3. /\ rate \in Nat /\ offset \in Nat /\ sent = 0 /\ lost = {}
          /\ packetNumber \in Int /\ packetNumber >= -1
      BY ReportAssumption DEF ReportInit
    <3>4. ClockTypeOK  BY <3>1, <3>2, <3>3, ClockAssumption DEF ClockTypeOK
    <3>5. ReferencesInv  BY <3>1, <3>2 DEF ReferencesInv
    <3>6. QED  BY <3>4, <3>5 DEF ClockInv
  <2>3. QED  BY <2>1, <2>2
<1>2. ClockInv /\ [Next]_libraryVars => ClockInv'
  <2> SUFFICES ASSUME ClockInv, [Next]_libraryVars PROVE ClockInv'  OBVIOUS
  <2>1. CASE ReportNext  BY <2>1, ClockStep
  <2>2. CASE UNCHANGED reportVars
    BY <2>2 DEF reportVars, channelVars, clockVars, ClockInv, ClockTypeOK, ReferencesInv, IsReference,
                TrueClock, Average
  <2>3. QED  BY <2>1, <2>2 DEF Next, libraryVars
<1>3. ClockInv => ClockFollowsSender  BY ClockFollows
<1>4. QED  BY <1>1, <1>2, <1>3, PTL DEF Spec

-----------------------------------------------------------------------------
(* Teletext.  A box is open behind column n when two START_BOX in a row have *)
(* come, and no END_BOX since.                                               *)
IsPair(text, n) == text[n] = START_BOX /\ text[n - 1] = START_BOX

InBox(text, n) ==
  \E m \in 2 .. n : IsPair(text, m) /\ \A e \in m .. n : text[e] # END_BOX

LEMMA BoxOpensBehind ==
  ASSUME NEW text, NEW n \in Nat
  PROVE  BoxOpens(text, n + 1) <=> n > 0 /\ IsPair(text, n + 1) /\ ~InBox(text, n)
<1>1. n + 1 - 1 = n /\ 2 .. n + 1 - 1 = 2 .. n /\ (n + 1 > 1 <=> n > 0)  OBVIOUS
<1>2. (\A m \in 2 .. n : IsPair(text, m) => \E e \in m .. n : text[e] = END_BOX) <=> ~InBox(text, n)
  BY DEF InBox
<1>3. BoxOpens(text, n + 1) <=>
        /\ n + 1 > 1 /\ IsPair(text, n + 1)
        /\ \A m \in 2 .. n : IsPair(text, m) => \E e \in m .. n : text[e] = END_BOX
  BY <1>1 DEF BoxOpens, IsPair
<1>4. QED  BY <1>1, <1>2, <1>3

LEMMA InBoxBehind ==
  ASSUME NEW text, NEW n \in Nat
  PROVE  InBox(text, n + 1) <=>
           text[n + 1] # END_BOX /\ (InBox(text, n) \/ (n > 0 /\ IsPair(text, n + 1)))
<1>1. ASSUME InBox(text, n + 1)
      PROVE  text[n + 1] # END_BOX /\ (InBox(text, n) \/ (n > 0 /\ IsPair(text, n + 1)))
  <2>1. PICK m \in 2 .. n + 1 : IsPair(text, m) /\ \A e \in m .. n + 1 : text[e] # END_BOX
    BY <1>1 DEF InBox
  <2>2. text[n + 1] # END_BOX  BY <2>1
  <2>3. CASE m = n + 1  BY <2>1, <2>2, <2>3
  <2>4. CASE m # n + 1
    <3>1. m \in 2 .. n /\ \A e \in m .. n : text[e] # END_BOX  BY <2>1, <2>4
    <3>2. QED  BY <2>1, <2>2, <3>1 DEF InBox
  <2>5. QED  BY <2>3, <2>4
<1>2. ASSUME text[n + 1] # END_BOX, InBox(text, n)
      PROVE  InBox(text, n + 1)
  <2>1. PICK m \in 2 .. n : IsPair(text, m) /\ \A e \in m .. n : text[e] # END_BOX
    BY <1>2 DEF InBox
  <2>2. m \in 2 .. n + 1 /\ \A e \in m .. n + 1 : e \in m .. n \/ e = n + 1  BY <2>1
  <2>3. QED  BY <1>2, <2>1, <2>2 DEF InBox
<1>3. ASSUME text[n + 1] # END_BOX, n > 0, IsPair(text, n + 1)
      PROVE  InBox(text, n + 1)
  <2>1. n + 1 \in 2 .. n + 1 /\ \A e \in n + 1 .. n + 1 : e = n + 1  BY <1>3
  <2>2. QED  BY <1>3, <2>1 DEF InBox
<1>4. QED  BY <1>1, <1>2, <1>3

LEMMA InBoxFrom ==
  ASSUME NEW text, NEW f \in Nat, BoxOpens(text, f), NEW n \in Nat, f <= n,
         \A e \in f .. n : text[e] # END_BOX
  PROVE  InBox(text, n)
BY DEF BoxOpens, InBox, IsPair

-----------------------------------------------------------------------------
(* What print_ttx keeps as it goes along a row: how many START_BOX in a row  *)
(* it has seen, and whether they have opened a box; where the first box      *)
(* opened; what it has written; and, while that box is the only one, where   *)
(* it ends.                                                                  *)
OpensUpTo(text, n) == {k \in 1 .. n : BoxOpens(text, k)}

CountsStarts(text, n, s) ==
  /\ s.n = n /\ s.got_block \in Nat
  /\ s.got_block > 1 <=> InBox(text, n)
  /\ s.got_block = 1 <=> n > 0 /\ text[n] = START_BOX /\ ~InBox(text, n)

KnowsFirst(text, n, s) ==
  /\ s.start_pos \in Nat
  /\ s.start_pos # 0 => s.start_pos + 1 \in OpensUpTo(text, n)
  /\ \A k \in OpensUpTo(text, n) : s.start_pos # 0 /\ s.start_pos + 1 <= k

HasWritten(text, n, s) ==
  /\ s.bff = [k \in 1 .. Columns |-> s.bff[k]]
  /\ \A k \in 1 .. n : InBox(text, k) \/ InBox(text, k - 1) => s.bff[k] = Shown(text[k])

KnowsEnd(text, n, s) ==
  /\ InBox(text, n) => s.terminator = Columns
  /\ s.start_pos # 0 /\ OpensUpTo(text, n) = {s.start_pos + 1} =>
       \/ InBox(text, n) /\ \A e \in s.start_pos + 1 .. n : text[e] # END_BOX
       \/ /\ ~InBox(text, n)
          /\ s.terminator \in s.start_pos + 1 .. n /\ text[s.terminator] = END_BOX
          /\ \A e \in s.start_pos + 1 .. s.terminator - 1 : text[e] # END_BOX

PrintInv(text, n, s) ==
  /\ CountsStarts(text, n, s) /\ KnowsFirst(text, n, s)
  /\ HasWritten(text, n, s) /\ KnowsEnd(text, n, s)

LEMMA PrintStarts ==
  ASSUME NEW text
  PROVE  PrintInv(text, 0, TextStart)
<1>1. ~InBox(text, 0)  BY DEF InBox
<1>2. OpensUpTo(text, 0) = {}  BY DEF OpensUpTo
<1>3. CountsStarts(text, 0, TextStart)  BY <1>1 DEF CountsStarts, TextStart
<1>4. KnowsFirst(text, 0, TextStart)  BY <1>2 DEF KnowsFirst, TextStart
<1>5. HasWritten(text, 0, TextStart)  BY DEF HasWritten, TextStart
<1>6. KnowsEnd(text, 0, TextStart)  BY <1>1 DEF KnowsEnd, TextStart
<1>7. QED  BY <1>3, <1>4, <1>5, <1>6 DEF PrintInv

LEMMA PrintStep ==
  ASSUME NEW text, NEW n \in Nat, n < Columns, NEW s, PrintInv(text, n, s)
  PROVE  PrintInv(text, n + 1, NextCharacter(s, text[n + 1]))
<1> DEFINE ch == text[n + 1]
           got == Opened(s, ch)
           r == NextCharacter(s, ch)
           opens == ch = START_BOX /\ got = 2
<1>1. /\ s.n = n /\ s.got_block \in Nat /\ s.start_pos \in Nat /\ Columns \in Nat
      /\ n + 1 \in 1 .. Columns /\ (n + 1) - 1 = n
  BY TeletextAssumption DEF PrintInv, CountsStarts, KnowsFirst
<1>2. /\ got \in Nat
      /\ r.n = n + 1
      /\ r.got_block = IF ch = END_BOX THEN 0 ELSE got
      /\ r.start_pos = IF opens /\ s.start_pos = 0 THEN n ELSE s.start_pos
      /\ opens => r.terminator = Columns
      /\ ~opens /\ ch = END_BOX /\ got > 1 => r.terminator = n + 1
      /\ ~opens /\ ~(ch = END_BOX /\ got > 1) => r.terminator = s.terminator
      /\ r.bff = IF got > 1 THEN [s.bff EXCEPT ![n + 1] = Shown(ch)] ELSE s.bff
  <2>1. got \in Nat  BY <1>1 DEF Opened
  <2> HIDE DEF got, ch
  <2>2. r = [n |-> n + 1,
             got_block |-> IF ch = END_BOX THEN 0 ELSE got,
             start_pos |-> IF opens /\ s.start_pos = 0 THEN n ELSE s.start_pos,
             terminator |-> CASE opens -> Columns [] ch = END_BOX /\ got > 1 -> n + 1
                              [] OTHER -> s.terminator,
             bff |-> IF got > 1 THEN [s.bff EXCEPT ![n + 1] = Shown(ch)] ELSE s.bff,
             double_height |-> s.double_height \/ ch = DOUBLE_HEIGHT]
    BY <1>1 DEF NextCharacter, got, ch
  <2>3. opens => ~(ch = END_BOX /\ got > 1)  BY DEF START_BOX, END_BOX
  <2> HIDE DEF opens, r
  <2>4. QED  BY <2>1, <2>2, <2>3
<1>3. START_BOX # END_BOX  BY DEF START_BOX, END_BOX
<1>4. InBox(text, n + 1) <=> ch # END_BOX /\ (InBox(text, n) \/ (n > 0 /\ IsPair(text, n + 1)))
  BY InBoxBehind
<1>5. BoxOpens(text, n + 1) <=> n > 0 /\ IsPair(text, n + 1) /\ ~InBox(text, n)
  BY BoxOpensBehind
<1>6. IsPair(text, n + 1) <=> ch = START_BOX /\ text[n] = START_BOX
  BY <1>1 DEF IsPair
<1>7. /\ ch = START_BOX => got = s.got_block + 1
      /\ ch # START_BOX => got = IF s.got_block = 1 THEN 0 ELSE s.got_block
  BY DEF Opened
<1>8. /\ s.got_block > 1 <=> InBox(text, n)
      /\ s.got_block = 1 <=> n > 0 /\ text[n] = START_BOX /\ ~InBox(text, n)
  BY DEF PrintInv, CountsStarts
<1>9. opens <=> BoxOpens(text, n + 1)
  BY <1>1, <1>5, <1>6, <1>7, <1>8
<1>10. got > 1 <=> InBox(text, n) \/ InBox(text, n + 1)
  BY <1>1, <1>3, <1>4, <1>5, <1>6, <1>7, <1>8
<1> HIDE DEF ch, got, r, opens
<1>11. CountsStarts(text, n + 1, r)
  <2>1. r.got_block > 1 <=> InBox(text, n + 1)
    BY <1>1, <1>2, <1>3, <1>4, <1>6, <1>7, <1>8
  <2>2. r.got_block = 1 <=> ch = START_BOX /\ ~InBox(text, n + 1)
    BY <1>1, <1>2, <1>3, <1>4, <1>6, <1>7, <1>8
  <2>3. QED  BY <1>1, <1>2, <2>1, <2>2 DEF CountsStarts, ch
<1>12. \A k : k \in OpensUpTo(text, n + 1) <=> k \in OpensUpTo(text, n) \/ (k = n + 1 /\ opens)
  <2>1. \A k : k \in 1 .. n + 1 <=> k \in 1 .. n \/ k = n + 1  OBVIOUS
  <2>2. QED  BY <1>9, <2>1 DEF OpensUpTo
<1>13. \A k \in OpensUpTo(text, n) : k \in 1 .. n  BY DEF OpensUpTo
<1>14. opens => n > 0  BY <1>5, <1>9
<1>15. KnowsFirst(text, n + 1, r)
  <2>1. /\ s.start_pos # 0 => s.start_pos + 1 \in OpensUpTo(text, n)
        /\ \A k \in OpensUpTo(text, n) : s.start_pos # 0 /\ s.start_pos + 1 <= k
    BY DEF PrintInv, KnowsFirst
  <2>2. CASE opens /\ s.start_pos = 0
    <3>1. r.start_pos = n /\ n > 0  BY <1>2, <1>14, <2>2
    <3>2. \A k \in OpensUpTo(text, n + 1) : k = n + 1  BY <1>12, <2>1, <2>2
    <3>3. n + 1 \in OpensUpTo(text, n + 1)  BY <1>12, <2>2
    <3>4. QED  BY <3>1, <3>2, <3>3 DEF KnowsFirst
  <2>3. CASE ~(opens /\ s.start_pos = 0)
    <3>1. r.start_pos = s.start_pos  BY <1>2, <2>3
    <3>2. \A k \in OpensUpTo(text, n + 1) : s.start_pos # 0 /\ s.start_pos + 1 <= k
      <4> TAKE k \in OpensUpTo(text, n + 1)
      <4>1. CASE k \in OpensUpTo(text, n)  BY <2>1, <4>1
      <4>2. CASE k = n + 1 /\ opens
        <5>1. s.start_pos # 0  BY <2>3, <4>2
        <5>2. s.start_pos + 1 \in 1 .. n  BY <1>13, <2>1, <5>1
        <5>3. QED  BY <1>1, <4>2, <5>1, <5>2
      <4>3. QED  BY <1>12, <4>1, <4>2
    <3>3. s.start_pos # 0 => s.start_pos + 1 \in OpensUpTo(text, n + 1)  BY <1>12, <2>1
    <3>4. QED  BY <1>1, <3>1, <3>2, <3>3 DEF KnowsFirst
  <2>4. QED  BY <2>2, <2>3
<1>16. HasWritten(text, n + 1, r)
  <2>1. s.bff = [k \in 1 .. Columns |-> s.bff[k]]
        /\ \A k \in 1 .. n : InBox(text, k) \/ InBox(text, k - 1) => s.bff[k] = Shown(text[k])
    BY DEF PrintInv, HasWritten
  <2>2. r.bff = [k \in 1 .. Columns |-> r.bff[k]] /\ \A k \in 1 .. n : r.bff[k] = s.bff[k]
    <3>1. CASE got > 1
      <4>1. r.bff = [s.bff EXCEPT ![n + 1] = Shown(ch)]  BY <1>2, <3>1
      <4>2. \A k \in 1 .. n : k \in 1 .. Columns /\ k # n + 1  BY <1>1
      <4>3. QED  BY <2>1, <4>1, <4>2
    <3>2. CASE ~(got > 1)  BY <1>2, <2>1, <3>2
    <3>3. QED  BY <3>1, <3>2
  <2>3. InBox(text, n + 1) \/ InBox(text, n) => r.bff[n + 1] = Shown(ch)
    BY <1>1, <1>2, <1>10, <2>1
  <2>4. \A k \in 1 .. n + 1 : k \in 1 .. n \/ k = n + 1  OBVIOUS
  <2>5. \A k \in 1 .. n + 1 : InBox(text, k) \/ InBox(text, k - 1) => r.bff[k] = Shown(text[k])
    BY <1>1, <2>1, <2>2, <2>3, <2>4 DEF ch
  <2>6. QED  BY <2>2, <2>5 DEF HasWritten
<1>17. KnowsEnd(text, n + 1, r)
  <2>1. InBox(text, n + 1) => r.terminator = Columns
    <3>1. CASE opens  BY <1>2, <3>1
    <3>2. CASE ~opens /\ InBox(text, n + 1)
      <4>1. InBox(text, n) /\ ch # END_BOX  BY <1>4, <1>5, <1>9, <3>2
      <4>2. QED  BY <1>2, <3>2, <4>1 DEF PrintInv, KnowsEnd
    <3>3. QED  BY <3>1, <3>2
  <2> SUFFICES ASSUME r.start_pos # 0, OpensUpTo(text, n + 1) = {r.start_pos + 1}
               PROVE  \/ InBox(text, n + 1) /\ \A e \in r.start_pos + 1 .. n + 1 : text[e] # END_BOX
                      \/ /\ ~InBox(text, n + 1)
                         /\ r.terminator \in r.start_pos + 1 .. n + 1 /\ text[r.terminator] = END_BOX
                         /\ \A e \in r.start_pos + 1 .. r.terminator - 1 : text[e] # END_BOX
    BY <2>1 DEF KnowsEnd
  <2>2. CASE opens
    <3>1. r.start_pos = n
      <4>1. n + 1 = r.start_pos + 1  BY <1>12, <2>2
      <4>2. r.start_pos \in Nat  BY <1>15 DEF KnowsFirst
      <4>3. QED  BY <4>1, <4>2
    <3>2. InBox(text, n + 1) /\ ch # END_BOX
      BY <1>3, <1>4, <1>5, <1>6, <1>9, <2>2
    <3>3. \A e \in n + 1 .. n + 1 : e = n + 1  OBVIOUS
    <3>4. QED  BY <3>1, <3>2, <3>3 DEF ch
  <2>3. CASE ~opens
    <3>1. r.start_pos = s.start_pos  BY <1>2, <2>3
    <3>2. OpensUpTo(text, n) = {s.start_pos + 1}  BY <1>12, <2>3, <3>1
    <3>3. s.start_pos + 1 \in 1 .. n  BY <1>13, <3>2
    <3>4. \/ InBox(text, n) /\ \A e \in s.start_pos + 1 .. n : text[e] # END_BOX
          \/ /\ ~InBox(text, n)
             /\ s.terminator \in s.start_pos + 1 .. n /\ text[s.terminator] = END_BOX
             /\ \A e \in s.start_pos + 1 .. s.terminator - 1 : text[e] # END_BOX
      BY <3>1, <3>2 DEF PrintInv, KnowsEnd
    <3>5. InBox(text, n + 1) <=> ch # END_BOX /\ InBox(text, n)  BY <1>4, <1>5, <1>9, <2>3
    <3>6. CASE InBox(text, n) /\ ch # END_BOX
      <4>1. \A e \in s.start_pos + 1 .. n + 1 : e \in s.start_pos + 1 .. n \/ e = n + 1  BY <1>1
      <4>2. QED  BY <3>1, <3>4, <3>5, <3>6, <4>1 DEF ch
    <3>7. CASE InBox(text, n) /\ ch = END_BOX
      <4>1. r.terminator = n + 1  BY <1>2, <1>10, <2>3, <3>7
      <4>2. n + 1 \in s.start_pos + 1 .. n + 1  BY <1>1, <3>3
      <4>3. QED  BY <1>1, <3>1, <3>4, <3>5, <3>7, <4>1, <4>2 DEF ch
    <3>8. CASE ~InBox(text, n)
      <4>1. r.terminator = s.terminator  BY <1>2, <1>10, <2>3, <3>5, <3>8
      <4>2. s.terminator \in s.start_pos + 1 .. n => s.terminator \in s.start_pos + 1 .. n + 1  BY <1>1
      <4>3. QED  BY <3>1, <3>4, <3>5, <3>8, <4>1, <4>2
    <3>9. QED  BY <3>6, <3>7, <3>8
  <2>4. QED  BY <2>2, <2>3
<1>18. QED  BY <1>11, <1>15, <1>16, <1>17 DEF PrintInv, r, ch

-----------------------------------------------------------------------------
(* print_ttx is its loop: what holds at the start and is kept by a character *)
(* holds at the end.  A least counterexample stands in for induction.        *)
Prints(text, k, s) ==
  /\ s = [n \in 0 .. k |-> s[n]]
  /\ s[0] = TextStart
  /\ \A n \in 1 .. k : s[n] = NextCharacter(s[n - 1], text[n])

LEMMA PrintsExist ==
  ASSUME NEW text
  PROVE  \E s : Prints(text, Columns, s)
<1> DEFINE Bad == {n \in 0 .. Columns : ~\E s : Prints(text, n, s)}
<1>1. Columns \in Nat  BY TeletextAssumption
<1>2. SUFFICES ASSUME Bad # {} PROVE FALSE
  <2>1. Columns \in 0 .. Columns  BY <1>1
  <2>2. QED  BY <2>1
<1>3. PICK n \in Bad : \A m \in Bad : n <= m
  <2>1. Bad \in SUBSET Nat  BY <1>1
  <2> HIDE DEF Bad
  <2>2. QED  BY <1>2, <2>1, LeastOf
<1>4. CASE n = 0
  <2>1. Prints(text, 0, [i \in 0 .. 0 |-> TextStart])
    BY DEF Prints
  <2>2. QED  BY <1>3, <1>4, <2>1
<1>5. CASE n # 0
  <2>1. n \in 1 .. Columns /\ n - 1 \in 0 .. Columns /\ n - 1 \notin Bad
    BY <1>1, <1>3, <1>5
  <2>2. PICK s : Prints(text, n - 1, s)
    BY <2>1
  <2> DEFINE t == [i \in 0 .. n |-> IF i = n THEN NextCharacter(s[n - 1], text[n]) ELSE s[i]]
  <2>3. Prints(text, n, t)
    <3>1. s[0] = TextStart /\ \A i \in 1 .. n - 1 : s[i] = NextCharacter(s[i - 1], text[i])
      BY <2>2 DEF Prints
    <3>2. \A i \in 0 .. n - 1 : i \in 0 .. n /\ i # n /\ t[i] = s[i]
      BY <2>1
    <3>3. t = [i \in 0 .. n |-> t[i]]  OBVIOUS
    <3>4. n \in 0 .. n /\ 0 \in 0 .. n - 1 /\ n - 1 \in 0 .. n - 1  BY <2>1
    <3>5. t[n] = NextCharacter(s[n - 1], text[n])  BY <3>4
    <3> HIDE DEF t
    <3>6. t[0] = TextStart /\ t[n] = NextCharacter(t[n - 1], text[n])
      BY <3>1, <3>2, <3>4, <3>5
    <3>7. ASSUME NEW i \in 1 .. n PROVE t[i] = NextCharacter(t[i - 1], text[i])
      <4>1. CASE i = n  BY <3>6, <4>1
      <4>2. CASE i # n
        <5>1. i \in 1 .. n - 1 /\ i \in 0 .. n - 1 /\ i - 1 \in 0 .. n - 1  BY <2>1, <4>2
        <5>2. QED  BY <3>1, <3>2, <5>1
      <4>3. QED  BY <4>1, <4>2
    <3>8. QED  BY <3>3, <3>6, <3>7 DEF Prints
  <2>4. QED  BY <1>3, <2>3
<1>6. QED  BY <1>4, <1>5

LEMMA PrintedPrints ==
  ASSUME NEW text
  PROVE  Prints(text, Columns, Printed(text))
<1> DEFINE Recurs(f) ==
      f = [n \in 0 .. Columns |-> IF n = 0 THEN TextStart ELSE NextCharacter(f[n - 1], text[n])]
<1>1. PICK s : Prints(text, Columns, s)  BY PrintsExist
<1>2. Recurs(s)
  <2>1. \A n \in 0 .. Columns : s[n] = IF n = 0 THEN TextStart ELSE NextCharacter(s[n - 1], text[n])
    <3>1. s[0] = TextStart /\ \A n \in 1 .. Columns : s[n] = NextCharacter(s[n - 1], text[n])
      BY <1>1 DEF Prints
    <3>2. \A n \in 0 .. Columns : n = 0 \/ (n # 0 /\ n \in 1 .. Columns)  BY TeletextAssumption
    <3>3. QED  BY <3>1, <3>2, Zenon
  <2>2. s = [n \in 0 .. Columns |-> s[n]]  BY <1>1 DEF Prints
  <2>3. QED  BY <2>1, <2>2, Zenon
<1>3. Recurs(Printed(text))
  <2>1. Printed(text) = CHOOSE f : Recurs(f)  BY DEF Printed
  <2>2. QED  BY <1>2, <2>1, Zenon
<1> DEFINE t == Printed(text)
<1>4. t = [n \in 0 .. Columns |-> IF n = 0 THEN TextStart ELSE NextCharacter(t[n - 1], text[n])]
  BY <1>3
<1> HIDE DEF t
<1>5. t = [n \in 0 .. Columns |-> t[n]]  BY <1>4
<1>6. 0 \in 0 .. Columns /\ \A n \in 1 .. Columns : n \in 0 .. Columns /\ n # 0
  BY TeletextAssumption
<1>7. t[0] = TextStart /\ \A n \in 1 .. Columns : t[n] = NextCharacter(t[n - 1], text[n])
  BY <1>4, <1>6
<1>8. QED  BY <1>5, <1>7 DEF Prints, t

LEMMA PrintedRow ==
  ASSUME NEW text
  PROVE  PrintInv(text, Columns, print_ttx(text))
<1> DEFINE s == Printed(text)
           Bad == {n \in 0 .. Columns : ~PrintInv(text, n, s[n])}
<1>1. Columns \in Nat  BY TeletextAssumption
<1>2. s[0] = TextStart /\ \A n \in 1 .. Columns : s[n] = NextCharacter(s[n - 1], text[n])
  BY PrintedPrints DEF Prints
<1> HIDE DEF s
<1>3. ASSUME Bad # {} PROVE FALSE
  <2>1. PICK n \in Bad : \A m \in Bad : n <= m
    <3>1. Bad \in SUBSET Nat  BY <1>1
    <3> HIDE DEF Bad
    <3>2. QED  BY <1>3, <3>1, LeastOf
  <2>2. n # 0  BY <1>2, <2>1, PrintStarts
  <2>3. n - 1 \in Nat /\ n - 1 < Columns /\ (n - 1) + 1 = n /\ n \in 1 .. Columns /\ PrintInv(text, n - 1, s[n - 1])
    BY <1>1, <2>1, <2>2
  <2>4. PrintInv(text, (n - 1) + 1, NextCharacter(s[n - 1], text[(n - 1) + 1]))
    BY <2>3, PrintStep
  <2>5. PrintInv(text, n, s[n])  BY <1>2, <2>3, <2>4
  <2>6. QED  BY <2>1, <2>5
<1>4. QED  BY <1>1, <1>3 DEF s, print_ttx

(* What a line made of a row shows. *)
LEMMA LineOfRow ==
  ASSUME NEW text, \A k \in 1 .. Columns : text[k] # Uninitialised,
         NEW s, s = print_ttx(text), HasText(s)
  PROVE  LET boxes == {n \in 1 .. Columns : BoxOpens(text, n)}
             first == CHOOSE n \in boxes : \A m \in boxes : n <= m
             ends  == {n \in first .. Columns : text[n] = END_BOX}
             last  == IF ends = {} THEN Columns ELSE CHOOSE n \in ends : \A m \in ends : n <= m
         IN  /\ boxes # {}
             /\ boxes = {first} =>
                  /\ ShownText(s) = [k \in 1 .. last - first + 1 |-> Shown(text[first + k - 1])]
                  /\ \A k \in 1 .. last - first + 1 : Shown(text[first + k - 1]) # Uninitialised
<1> DEFINE boxes == {n \in 1 .. Columns : BoxOpens(text, n)}
           first == CHOOSE n \in boxes : \A m \in boxes : n <= m
           ends  == {n \in first .. Columns : text[n] = END_BOX}
           last  == IF ends = {} THEN Columns ELSE CHOOSE n \in ends : \A m \in ends : n <= m
           f == s.start_pos + 1
<1>1. PrintInv(text, Columns, s) /\ Columns \in Nat  BY PrintedRow, TeletextAssumption
<1>2. boxes = OpensUpTo(text, Columns)  BY DEF OpensUpTo
<1>3. s.start_pos # 0 /\ f \in boxes /\ s.start_pos \in Nat
  BY <1>1, <1>2 DEF PrintInv, KnowsFirst, HasText
<1> SUFFICES ASSUME boxes = {first}
             PROVE  /\ ShownText(s) = [k \in 1 .. last - first + 1 |-> Shown(text[first + k - 1])]
                    /\ \A k \in 1 .. last - first + 1 : Shown(text[first + k - 1]) # Uninitialised
  BY <1>3, Zenon
<1>4. first = f /\ f \in Nat /\ f \in 1 .. Columns /\ BoxOpens(text, f)
  <2>1. first = f  BY <1>3
  <2>2. f \in 1 .. Columns /\ BoxOpens(text, f)  BY <1>3
  <2>3. QED  BY <2>1, <2>2
<1>5. \/ InBox(text, Columns) /\ \A e \in f .. Columns : text[e] # END_BOX
      \/ /\ s.terminator \in f .. Columns /\ text[s.terminator] = END_BOX
         /\ \A e \in f .. s.terminator - 1 : text[e] # END_BOX
  <2>1. OpensUpTo(text, Columns) = {s.start_pos + 1}  BY <1>2, <1>4
  <2>2. QED  BY <1>1, <1>3, <2>1 DEF PrintInv, KnowsEnd
<1>6. InBox(text, Columns) => s.terminator = Columns
  BY <1>1 DEF PrintInv, KnowsEnd
<1> HIDE DEF boxes, first, f
<1>7. last = s.terminator /\ s.terminator \in f .. Columns
      /\ \A e \in f .. s.terminator - 1 : text[e] # END_BOX
  <2>1. CASE InBox(text, Columns) /\ \A e \in f .. Columns : text[e] # END_BOX
    <3>1. ends = {}  BY <1>4, <2>1
    <3>2. \A e \in f .. Columns - 1 : e \in f .. Columns  BY <1>1, <1>4
    <3>3. s.terminator = Columns /\ Columns \in f .. Columns  BY <1>1, <1>4, <1>6, <2>1
    <3>4. QED  BY <2>1, <3>1, <3>2, <3>3
  <2>2. CASE /\ s.terminator \in f .. Columns /\ text[s.terminator] = END_BOX
             /\ \A e \in f .. s.terminator - 1 : text[e] # END_BOX
    <3>1. s.terminator \in ends  BY <1>4, <2>2
    <3>2. \A m \in ends : s.terminator <= m
      <4> TAKE m \in ends
      <4>1. m \in f .. Columns /\ text[m] = END_BOX  BY <1>4
      <4>2. QED  BY <1>1, <1>4, <2>2, <4>1
    <3>3. \A m \in ends : m \in Int  BY <1>1, <1>4
    <3>4. \A n \in ends : (\A m \in ends : n <= m) => n = s.terminator
      BY <3>1, <3>2, <3>3
    <3> HIDE DEF ends
    <3>5. QED  BY <2>2, <3>1, <3>2, <3>4
  <2>3. QED  BY <1>5, <2>1, <2>2
<1>8. ASSUME NEW k \in f .. s.terminator
      PROVE  k \in 1 .. Columns /\ s.bff[k] = Shown(text[k]) /\ Shown(text[k]) # Uninitialised
  <2>1. k \in 1 .. Columns /\ k \in Nat /\ f <= k  BY <1>1, <1>4, <1>7
  <2>2. InBox(text, k) \/ InBox(text, k - 1)
    <3>1. CASE k # s.terminator
      <4>1. \A e \in f .. k : text[e] # END_BOX  BY <1>1, <1>4, <1>7, <2>1, <3>1
      <4>2. QED  BY <1>4, <2>1, <4>1, InBoxFrom
    <3>2. CASE text[k] # END_BOX
      <4>1. \A e \in f .. k : e \in f .. s.terminator - 1 \/ e = k
        BY <1>1, <1>4, <1>7, <2>1
      <4>2. \A e \in f .. k : text[e] # END_BOX  BY <1>7, <3>2, <4>1
      <4>3. QED  BY <1>4, <2>1, <4>2, InBoxFrom
    <3>3. CASE k = s.terminator /\ text[k] = END_BOX
      <4>1. text[f] # END_BOX  BY <1>4 DEF BoxOpens, START_BOX, END_BOX
      <4>2. k - 1 \in Nat /\ f <= k - 1 /\ \A e \in f .. k - 1 : text[e] # END_BOX
        BY <1>4, <1>7, <2>1, <3>3, <4>1
      <4>3. QED  BY <1>4, <4>2, InBoxFrom
    <3>4. QED  BY <3>1, <3>2, <3>3
  <2>3. s.bff[k] = Shown(text[k])
    BY <1>1, <2>1, <2>2 DEF PrintInv, HasWritten
  <2>4. Shown(text[k]) # Uninitialised
    BY <2>1 DEF Shown, Uninitialised
  <2>5. QED  BY <2>1, <2>3, <2>4
<1>9. ShownText(s) = [k \in 1 .. s.terminator - f + 1 |-> Shown(text[f + k - 1])]
  <2> DEFINE n == s.terminator - f + 1
             w == [k \in 1 .. n |-> s.bff[f + k - 1]]
  <2>1. ShownText(s) = w
    <3>1. n \in Nat /\ s.terminator \in Int /\ f \in Int  BY <1>1, <1>4, <1>7
    <3>2. s.bff \in Seq({s.bff[k] : k \in 1 .. Columns})
      <4>1. s.bff = [k \in 1 .. Columns |-> s.bff[k]]  BY <1>1 DEF PrintInv, HasWritten
      <4>2. QED  BY <1>1, <4>1
    <3>3. Len(s.bff) = Columns
      BY <1>1 DEF PrintInv, HasWritten
    <3> DEFINE v == SubSeq(s.bff, f, s.terminator)
    <3>4. f .. s.terminator \subseteq 1 .. Len(s.bff)  BY <1>8, <3>3
    <3>5. v \in Seq({s.bff[k] : k \in 1 .. Columns}) /\ Len(v) = n /\ \A i \in 1 .. n : v[i] = s.bff[f + i - 1]
      <4>1. \A i \in f .. s.terminator : s.bff[i] \in {s.bff[k] : k \in 1 .. Columns}
        BY <3>3, <3>4
      <4>2. f <= s.terminator  BY <1>4, <1>7
      <4>3. /\ v \in Seq({s.bff[k] : k \in 1 .. Columns})
            /\ Len(v) = IF f <= s.terminator THEN s.terminator - f + 1 ELSE 0
            /\ \A i \in 1 .. s.terminator - f + 1 : v[i] = s.bff[f + i - 1]
        BY <3>1, <4>1, SubSeqProperties
      <4>4. QED  BY <4>2, <4>3
    <3>6. v = w
      <4> HIDE DEF v, n
      <4>1. v \in [1 .. n -> {s.bff[k] : k \in 1 .. Columns}]  BY <3>5, LenProperties
      <4>2. v = [k \in 1 .. n |-> v[k]]  BY <4>1
      <4>3. QED  BY <3>5, <4>2
    <3>7. QED  BY <3>6 DEF ShownText, f
  <2>2. \A k \in 1 .. n : f + k - 1 \in f .. s.terminator  BY <1>1, <1>4, <1>7
  <2>3. \A k \in 1 .. n : s.bff[f + k - 1] = Shown(text[f + k - 1])  BY <1>8, <2>2
  <2>4. QED  BY <2>1, <2>3
<1>10. \A k \in 1 .. s.terminator - f + 1 : Shown(text[f + k - 1]) # Uninitialised
  <2>1. \A k \in 1 .. s.terminator - f + 1 : f + k - 1 \in f .. s.terminator  BY <1>1, <1>4, <1>7
  <2>2. QED  BY <1>8, <2>1
<1> HIDE DEF last
<1>11. QED  BY <1>4, <1>7, <1>9, <1>10

-----------------------------------------------------------------------------
(* Every line was made by print_ttx of a row that came. *)
IsRow(text) == \A k \in 1 .. Columns : text[k] # Uninitialised

IsOfRow(line) ==
  /\ IsRow(line.of)
  /\ line.text = ShownText(print_ttx(line.of)) /\ HasText(print_ttx(line.of))

LinesInv ==
  /\ units \in Seq(DataUnits)
  /\ \E S : lines \in Seq(S)
  /\ \A i \in DOMAIN lines : IsOfRow(lines[i])

LEMMA LineStep ==
  ASSUME LinesInv, NEW u, IsRow(u.text), filter_text(u)
  PROVE  (\E S : lines' \in Seq(S)) /\ \A i \in DOMAIN lines' : IsOfRow(lines'[i])
<1> DEFINE s == print_ttx(u.text)
           line == SubtitleLine(RowToFilter(u), s, u.text)
<1>1. CASE lines' = lines  BY <1>1 DEF LinesInv
<1>2. CASE HasText(s) /\ lines' = Append(lines, line)
  <2>1. IsOfRow(line)
    <3>1. line.of = u.text /\ line.text = ShownText(s)  BY DEF SubtitleLine
    <3>2. QED  BY <1>2, <3>1 DEF IsOfRow
  <2> HIDE DEF line, s
  <2>2. PICK S : lines \in Seq(S)  BY DEF LinesInv
  <2>3. lines \in Seq(S \cup {line}) /\ line \in S \cup {line}
    BY <2>2
  <2>4. /\ lines' \in Seq(S \cup {line}) /\ Len(lines') = Len(lines) + 1
        /\ \A i \in 1 .. Len(lines) : lines'[i] = lines[i]
        /\ lines'[Len(lines) + 1] = line
    BY <1>2, <2>3, AppendProperties
  <2>5. Len(lines) \in Nat /\ DOMAIN lines = 1 .. Len(lines) /\ DOMAIN lines' = 1 .. Len(lines) + 1
    BY <2>2, <2>4
  <2>6. \A i \in DOMAIN lines' : IsOfRow(lines'[i])
    <3> TAKE i \in DOMAIN lines'
    <3>1. i \in DOMAIN lines \/ i = Len(lines) + 1  BY <2>5
    <3>2. QED  BY <2>1, <2>4, <2>5, <3>1 DEF LinesInv
  <2>7. QED  BY <2>4, <2>6
<1>3. QED  BY <1>1, <1>2 DEF filter_text

LEMMA TeletextStep ==
  ASSUME LinesInv, TeletextNext
  PROVE  LinesInv'
<1>1. CASE TeletextPESDecode
  <2>1. units' \in Packets /\ lines' = lines  BY <1>1 DEF TeletextPESDecode
  <2>2. QED  BY <2>1, TeletextAssumption DEF LinesInv
<1>2. CASE TeletextDecodeFrame
  <2>1. units # <<>>  BY <1>2 DEF TeletextDecodeFrame
  <2>2. Head(units) \in DataUnits /\ Tail(units) \in Seq(DataUnits)
    BY <2>1, HeadTailProperties DEF LinesInv
  <2>3. units' \in Seq(DataUnits)
    <3>1. units' = Tail(units) \/ units' = <<>>  BY <1>2, Zenon DEF TeletextDecodeFrame
    <3>2. <<>> \in Seq(DataUnits)  OBVIOUS
    <3>3. QED  BY <2>2, <3>1, <3>2, Zenon
  <2>4. IsRow(Head(units).inner.text)
    BY <2>2, TeletextAssumption DEF IsRow
  <2>5. lines' = lines \/ filter_text(Head(units).inner)
    BY <1>2 DEF TeletextDecodeFrame, Decode_data_block, ParseTtxData
  <2>6. (\E S : lines' \in Seq(S)) /\ \A i \in DOMAIN lines' : IsOfRow(lines'[i])
    <3>1. CASE lines' = lines  BY <3>1 DEF LinesInv
    <3>2. CASE filter_text(Head(units).inner)  BY <2>4, <3>2, LineStep
    <3>3. QED  BY <2>5, <3>1, <3>2
  <2>7. QED  BY <2>3, <2>6 DEF LinesInv
<1>3. CASE SetPage  BY <1>3 DEF SetPage, LinesInv
<1>4. QED  BY <1>1, <1>2, <1>3 DEF TeletextNext

(* LinesShowTheirBox: a line that is made of a row shows the box of the row, *)
(* character for character up to its END_BOX, in rows of any length and of   *)
(* any characters; nothing of the buffer of print_ttx shows but between two  *)
(* boxes.                                                                    *)
THEOREM LinesShowTheirBoxHolds == Spec => []LinesShowTheirBox
<1>1. Init => LinesInv
  <2>1. Init => TeletextInit  BY DEF Init, TeletextRests
  <2>2. TeletextInit => LinesInv
    <3>1. TeletextInit => units = <<>> /\ lines = <<>>  BY DEF TeletextInit
    <3>2. <<>> \in Seq({}) /\ <<>> \in Seq(DataUnits) /\ DOMAIN <<>> = {}  OBVIOUS
    <3>3. QED  BY <3>1, <3>2 DEF LinesInv
  <2>3. QED  BY <2>1, <2>2
<1>2. LinesInv /\ [Next]_libraryVars => LinesInv'
  <2> SUFFICES ASSUME LinesInv, [Next]_libraryVars PROVE LinesInv'  OBVIOUS
  <2>1. CASE TeletextNext  BY <2>1, TeletextStep
  <2>2. CASE UNCHANGED teletextVars  BY <2>2 DEF teletextVars, LinesInv
  <2>3. QED  BY <2>1, <2>2 DEF Next, libraryVars
<1>3. LinesInv => LinesShowTheirBox
  <2> SUFFICES ASSUME LinesInv, NEW i \in DOMAIN lines
               PROVE LET text  == lines[i].of
                         boxes == {n \in 1 .. Columns : BoxOpens(text, n)}
                         first == CHOOSE n \in boxes : \A m \in boxes : n <= m
                         ends  == {n \in first .. Columns : text[n] = END_BOX}
                         last  == IF ends = {} THEN Columns ELSE CHOOSE n \in ends : \A m \in ends : n <= m
                     IN  /\ boxes # {}
                         /\ Uninitialised \in {lines[i].text[k] : k \in DOMAIN lines[i].text} => boxes # {first}
                         /\ boxes = {first} =>
                              lines[i].text = [k \in 1 .. last - first + 1 |-> Shown(text[first + k - 1])]
    BY DEF LinesShowTheirBox
  <2> DEFINE text  == lines[i].of
             boxes == {n \in 1 .. Columns : BoxOpens(text, n)}
             first == CHOOSE n \in boxes : \A m \in boxes : n <= m
             ends  == {n \in first .. Columns : text[n] = END_BOX}
             last  == IF ends = {} THEN Columns ELSE CHOOSE n \in ends : \A m \in ends : n <= m
  <2>1. IsOfRow(lines[i])  BY DEF LinesInv
  <2>2. /\ boxes # {}
        /\ boxes = {first} =>
             /\ lines[i].text = [k \in 1 .. last - first + 1 |-> Shown(text[first + k - 1])]
             /\ \A k \in 1 .. last - first + 1 : Shown(text[first + k - 1]) # Uninitialised
    <3> HIDE DEF text
    <3>1. (\A k \in 1 .. Columns : text[k] # Uninitialised) /\ HasText(print_ttx(text))
          /\ lines[i].text = ShownText(print_ttx(text))
      BY <2>1 DEF IsOfRow, IsRow, text
    <3>2. /\ boxes # {}
          /\ boxes = {first} =>
               /\ ShownText(print_ttx(text)) = [k \in 1 .. last - first + 1 |-> Shown(text[first + k - 1])]
               /\ \A k \in 1 .. last - first + 1 : Shown(text[first + k - 1]) # Uninitialised
      BY <3>1, LineOfRow
    <3> HIDE DEF boxes, first, last
    <3>3. QED  BY <3>1, <3>2, Zenon
  <2> HIDE DEF text, boxes, first, last
  <2>3. boxes = {first} => Uninitialised \notin {lines[i].text[k] : k \in DOMAIN lines[i].text}
    BY <2>2
  <2>4. /\ boxes # {}
        /\ Uninitialised \in {lines[i].text[k] : k \in DOMAIN lines[i].text} => boxes # {first}
        /\ boxes = {first} => lines[i].text = [k \in 1 .. last - first + 1 |-> Shown(text[first + k - 1])]
    BY <2>2, <2>3
  <2>5. QED  BY <2>4 DEF text, boxes, first, last
<1>4. QED  BY <1>1, <1>2, <1>3, PTL DEF Spec

-----------------------------------------------------------------------------
(* The packet a handler works through.  The frames of DTS at the pointer are *)
(* the last of the packet's; while they are all plain, the count agrees with *)
(* the bytes that there are, those of the frames at the pointer and what is  *)
(* behind them.                                                              *)
DTSFrame_t == [pairs : Nat, size : Nat \ {0}, present : Nat, beyond : Nat]

IsRest(at, of) ==
  /\ Len(at) <= Len(of)
  /\ \A i \in 1 .. Len(at) : at[i] = of[Len(of) - Len(at) + i]

AllPlain(frames) == \A i \in DOMAIN frames : IsPlain(frames[i])

(* The bytes of the first n frames. *)
BytesOf(frames, n) == PartialSums(BytesPresent(frames))[n]

IsPES(packet) ==
  packet = [of |-> packet.of, at |-> packet.at, left |-> packet.left, rest |-> packet.rest,
            size |-> packet.size, taken |-> packet.taken]

Agrees(packet) ==
  \/ packet.left = 0 /\ packet.at = <<>>
  \/ /\ packet.left = packet.size - BytesOf(packet.of, Len(packet.of) - Len(packet.at))
     /\ packet.rest = packet.left

IsDTSPacket(packet) ==
  /\ packet.left \in Int /\ packet.rest \in Int /\ packet.size \in Int
  /\ packet.at \in Seq(DTSFrame_t) /\ IsRest(packet.at, packet.of)
  /\ packet.of # <<>> => packet.size >= BytesOf(packet.of, Len(packet.of))
  /\ AllPlain(packet.of) => Agrees(packet)

PESInv ==
  /\ IsPES(PES)
  /\ PES.of \in Seq(DTSFrame_t)
  /\ PES.of # <<>> => kind \in {"dts", "gone"}
  /\ kind = "dts" => IsDTSPacket(PES)

FaultInv ==
  /\ DebugOn => LogFile = live \/ kind = "gone"
  /\ FaultsHaveCauses

LEMMA BytesPresentType ==
  ASSUME NEW frames \in Seq(DTSFrame_t)
  PROVE  /\ BytesPresent(frames) \in Seq(Nat) /\ Len(BytesPresent(frames)) = Len(frames)
         /\ \A i \in 1 .. Len(frames) : BytesPresent(frames)[i] = frames[i].present
<1>1. Len(frames) \in Nat /\ DOMAIN frames = 1 .. Len(frames)  BY LenProperties
<1>2. \A i \in 1 .. Len(frames) : frames[i].present \in Nat
  <2>1. \A i \in 1 .. Len(frames) : frames[i] \in DTSFrame_t  BY ElementOfSeq
  <2>2. QED  BY <2>1 DEF DTSFrame_t
<1>3. BytesPresent(frames) = [i \in 1 .. Len(frames) |-> frames[i].present]  BY <1>1 DEF BytesPresent
<1>4. QED  BY <1>1, <1>2, <1>3

LEMMA BytesOfType ==
  ASSUME NEW frames \in Seq(DTSFrame_t)
  PROVE  /\ Len(frames) \in Nat /\ DOMAIN frames = 1 .. Len(frames)
         /\ \A n \in 0 .. Len(frames) : BytesOf(frames, n) \in Nat
         /\ BytesOf(frames, 0) = 0
         /\ \A n \in 1 .. Len(frames) : BytesOf(frames, n) = BytesOf(frames, n - 1) + frames[n].present
         /\ Sum(BytesPresent(frames)) = BytesOf(frames, Len(frames))
<1> DEFINE q == BytesPresent(frames)
           P == PartialSums(q)
           l == Len(frames)
<1>1. q \in Seq(Nat) /\ Len(q) = l /\ \A i \in 1 .. l : q[i] = frames[i].present  BY BytesPresentType
<1>2. l \in Nat /\ DOMAIN frames = 1 .. l  BY LenProperties
<1>3. Sum(q) = P[l]  BY <1>1, Zenon DEF Sum
<1> HIDE DEF q, l
<1>4. SumsOf(q, l, P)  BY <1>1, PartialSumsAre
<1> HIDE DEF P
<1>5. P[0] = 0 /\ P \in [0 .. l -> Nat] /\ \A n \in 1 .. l : P[n] = P[n - 1] + q[n]  BY <1>4 DEF SumsOf
<1>6. \A n : BytesOf(frames, n) = P[n]  BY DEF BytesOf, P, q
<1>7. QED  BY <1>1, <1>2, <1>3, <1>5, <1>6 DEF q, l

LEMMA BytesOfRise ==
  ASSUME NEW frames \in Seq(DTSFrame_t), AllPlain(frames),
         NEW k \in 0 .. Len(frames), NEW n \in 0 .. Len(frames), k < n
  PROVE  BytesOf(frames, k) < BytesOf(frames, n)
<1> DEFINE q == BytesPresent(frames)
           l == Len(frames)
<1>1. q \in Seq(Nat) /\ Len(q) = l /\ \A i \in 1 .. l : q[i] = frames[i].present  BY BytesPresentType
<1>2. DOMAIN frames = 1 .. l  BY LenProperties
<1>3. \A i \in 1 .. l : q[i] > 0
  <2>1. \A i \in 1 .. l : IsPlain(frames[i]) /\ frames[i] \in DTSFrame_t
    BY <1>2, ElementOfSeq DEF AllPlain
  <2>2. \A i \in 1 .. l : frames[i].present = frames[i].size /\ frames[i].size \in Nat \ {0}
    BY <2>1 DEF IsPlain, DTSFrame_t
  <2>3. QED  BY <1>1, <2>2
<1> HIDE DEF q
<1>4. k \in 0 .. Len(q) /\ n \in 0 .. Len(q) /\ \A i \in 1 .. Len(q) : q[i] > 0  BY <1>1, <1>3
<1>5. PartialSums(q)[k] < PartialSums(q)[n]  BY <1>1, <1>4, RisingSums
<1>6. QED  BY <1>5 DEF q, BytesOf

(* What DTSDecode makes of the packet. *)
LEMMA DTSDecodeTakes ==
  ASSUME DTSDecode
  PROVE  \E frames \in Seq(DTSFrame_t), size \in Int :
           /\ PES' = [of |-> frames, at |-> frames, left |-> size, rest |-> size, size |-> size,
                      taken |-> PES.taken + 1]
           /\ frames # <<>> => size >= BytesOf(frames, Len(frames))
<1>1. PICK packet \in DTSPackets :
        LET size == Sum(BytesPresent(packet.frames)) + packet.extra
        IN  PES' = [of |-> packet.frames, at |-> packet.frames, left |-> size, rest |-> size, size |-> size,
                    taken |-> PES.taken + 1]
  BY DEF DTSDecode
<1> DEFINE frames == packet.frames
           extra  == packet.extra
           sum    == Sum(BytesPresent(frames))
           size   == sum + extra
<1>2. frames \in Seq(DTSFrame_t) /\ extra \in Int /\ (extra < 0 => frames = <<>>)
  BY OutputAssumption DEF DTSFrame_t
<1>3. PES' = [of |-> frames, at |-> frames, left |-> size, rest |-> size, size |-> size, taken |-> PES.taken + 1]
  BY <1>1
<1> HIDE DEF frames, extra
<1>4. sum = BytesOf(frames, Len(frames)) /\ sum \in Nat
  <2>1. Len(frames) \in 0 .. Len(frames)  BY <1>2, BytesOfType
  <2>2. QED  BY <1>2, <2>1, BytesOfType
<1> HIDE DEF sum
<1>5. size \in Int /\ (frames # <<>> => size >= sum)  BY <1>2, <1>4
<1> HIDE DEF size
<1>6. QED  BY <1>2, <1>3, <1>4, <1>5

LEMMA DTSDecodeKeeps ==
  ASSUME PESInv, DTSDecode
  PROVE  PESInv'
<1>1. PICK frames \in Seq(DTSFrame_t), size \in Int :
        /\ PES' = [of |-> frames, at |-> frames, left |-> size, rest |-> size, size |-> size,
                   taken |-> PES.taken + 1]
        /\ frames # <<>> => size >= BytesOf(frames, Len(frames))
  BY DTSDecodeTakes
<1>2. kind = "dts" /\ kind' = "dts"  BY DEF DTSDecode
<1>3. /\ PES'.of = frames /\ PES'.at = frames /\ PES'.left = size /\ PES'.rest = size /\ PES'.size = size
      /\ IsPES(PES')
  BY <1>1 DEF IsPES
<1>4. Len(frames) - Len(frames) = 0 /\ BytesOf(frames, 0) = 0 /\ size - 0 = size
  BY BytesOfType
<1>5. IsRest(frames, frames)
  <2>1. Len(frames) \in Nat  BY BytesOfType
  <2>2. QED  BY <2>1 DEF IsRest
<1>6. Agrees(PES')  BY <1>3, <1>4 DEF Agrees
<1>7. IsDTSPacket(PES')  BY <1>1, <1>3, <1>5, <1>6 DEF IsDTSPacket
<1>8. QED  BY <1>2, <1>3, <1>7 DEF PESInv

LEMMA FirstOfRest ==
  ASSUME NEW of \in Seq(DTSFrame_t), NEW at \in Seq(DTSFrame_t), at # <<>>, IsRest(at, of)
  PROVE  Len(of) - Len(at) + 1 \in 1 .. Len(of) /\ at[1] = of[Len(of) - Len(at) + 1]
<1>1. Len(at) \in Nat /\ Len(of) \in Nat /\ Len(at) # 0 /\ Len(at) <= Len(of)
  BY LenProperties, EmptySeq DEF IsRest
<1>2. 1 \in 1 .. Len(at)  BY <1>1
<1>3. QED  BY <1>1, <1>2 DEF IsRest

(* Of a packet of plain frames there is enough left for the next. *)
LEMMA PlainIsLeft ==
  ASSUME NEW packet, packet.of \in Seq(DTSFrame_t), IsDTSPacket(packet), packet.at # <<>>, AllPlain(packet.of)
  PROVE  LET d == Len(packet.of) - Len(packet.at)
             f == Head(packet.at)
         IN  /\ d \in Nat /\ d + 1 \in 1 .. Len(packet.of) /\ f = packet.of[d + 1]
             /\ f \in DTSFrame_t /\ IsPlain(f)
             /\ packet.left = packet.size - BytesOf(packet.of, d) /\ packet.rest = packet.left
             /\ packet.size - BytesOf(packet.of, d + 1) = packet.left - f.size
             /\ f.size <= packet.left
<1> DEFINE of   == packet.of
           at   == packet.at
           l    == Len(of)
           d    == l - Len(at)
           f    == Head(at)
           size == packet.size
<1>1. /\ of \in Seq(DTSFrame_t) /\ at \in Seq(DTSFrame_t) /\ at # <<>> /\ IsRest(at, of) /\ size \in Int
      /\ packet.left = size - BytesOf(of, d) /\ packet.rest = packet.left
      /\ of # <<>> => size >= BytesOf(of, l)
  BY DEF IsDTSPacket, Agrees
<1> HIDE DEF of, at, size
<1>2. d + 1 \in 1 .. l /\ at[1] = of[d + 1] /\ l \in Nat /\ Len(at) \in Nat /\ DOMAIN of = 1 .. l
  BY <1>1, FirstOfRest, BytesOfType
<1>3. d \in Nat /\ f = at[1] /\ of # <<>>
  <2>1. f = at[1]  BY <1>1, HeadTailProperties
  <2>2. Len(at) <= l  BY <1>1 DEF IsRest
  <2>3. l # 0  BY <1>2
  <2>4. of # <<>>  BY <1>1, <2>3, EmptySeq
  <2>5. QED  BY <1>2, <2>1, <2>2, <2>4
<1> HIDE DEF f, d, l
<1>4. f \in DTSFrame_t /\ IsPlain(f) /\ f = of[d + 1]
  BY <1>1, <1>2, <1>3, ElementOfSeq DEF AllPlain, of
<1>5. f.size \in Nat /\ f.present = f.size  BY <1>4 DEF DTSFrame_t, IsPlain
<1>6. BytesOf(of, d) \in Nat /\ BytesOf(of, d + 1) = BytesOf(of, d) + f.size /\ BytesOf(of, l) \in Nat
  <2>1. d \in 0 .. l /\ l \in 0 .. l /\ (d + 1) - 1 = d  BY <1>2, <1>3
  <2>2. BytesOf(of, d) \in Nat /\ BytesOf(of, l) \in Nat
        /\ BytesOf(of, d + 1) = BytesOf(of, (d + 1) - 1) + of[d + 1].present
    BY <1>1, <1>2, <2>1, BytesOfType DEF l
  <2>3. QED  BY <1>4, <1>5, <2>1, <2>2
<1>7. BytesOf(of, d + 1) <= BytesOf(of, l)
  <2>1. CASE d + 1 = l  BY <1>6, <2>1
  <2>2. CASE d + 1 # l
    <3>1. d + 1 \in 0 .. l /\ l \in 0 .. l /\ d + 1 < l  BY <1>2, <2>2
    <3>2. AllPlain(of)  BY DEF of
    <3>3. BytesOf(of, d + 1) < BytesOf(of, l)  BY <1>1, <3>1, <3>2, BytesOfRise DEF l
    <3>4. QED  BY <1>5, <1>6, <3>3
  <2>3. QED  BY <2>1, <2>2
<1>8. size >= BytesOf(of, l)  BY <1>1, <1>3 DEF l
<1> DEFINE b == BytesOf(of, d)
           c == BytesOf(of, d + 1)
           e == BytesOf(of, l)
           left == packet.left
           n == f.size
<1>9. b \in Nat /\ c = b + n /\ e \in Nat /\ c <= e /\ size >= e /\ left = size - b /\ n \in Nat
  BY <1>1, <1>5, <1>6, <1>7, <1>8 DEF d
<1> HIDE DEF b, c, e, left, n
<1>10. size - c = left - n /\ n <= left  BY <1>1, <1>9
<1>11. QED  BY <1>1, <1>2, <1>3, <1>4, <1>10 DEF b, c, e, left, n, of, at, l, d, f, size

(* What a DTS frame does to the packet. *)
LEMMA DTSFrameEffect ==
  ASSUME PESInv, DecodeDTSFrame
  PROVE  LET f     == Head(PES.at)
             words == Copied(f, PES.left)
             odd   == IF HasOddWord(f, PES.left) THEN 1 ELSE 0
         IN  /\ kind = "dts" /\ kind' = kind /\ PES.at # <<>> /\ PES.left # 0
             /\ f \in DTSFrame_t /\ words \in Int /\ odd \in {0, 1}
             /\ PES'.of = PES.of /\ PES'.size = PES.size
             /\ PES'.at = (IF 2 * words + odd = f.present THEN Tail(PES.at) ELSE <<>>)
             /\ PES'.left = PES.left - 2 * (words + odd)
             /\ PES'.rest = PES.rest - (2 * words + odd)
             /\ IsPES(PES')
<1> DEFINE f     == Head(PES.at)
           words == Copied(f, PES.left)
           odd   == IF HasOddWord(f, PES.left) THEN 1 ELSE 0
           whole == 2 * words + odd = f.present
<1>1. kind = "dts" /\ kind' = kind /\ PES.at # <<>> /\ PES.left # 0
  BY DEF DecodeDTSFrame, Idle
<1>2. PES.left \in Int /\ PES.at \in Seq(DTSFrame_t)  BY <1>1 DEF PESInv, IsDTSPacket
<1>3. f \in DTSFrame_t  BY <1>1, <1>2, HeadTailProperties
<1>4. f.size \in Nat /\ f.present \in Nat /\ f.pairs \in Nat  BY <1>3 DEF DTSFrame_t
<1>5. PES' = [PES EXCEPT !.at = IF whole THEN Tail(@) ELSE <<>>,
                         !.left = @ - 2 * (words + odd), !.rest = @ - (2 * words + odd)]
  BY DEF DecodeDTSFrame
<1> HIDE DEF f
<1>6. words \in Int /\ odd \in {0, 1}
  BY <1>2, <1>4 DEF Copied, Least
<1> HIDE DEF words, odd, whole
<1>7. /\ PES'.of = PES.of /\ PES'.size = PES.size
      /\ PES'.at = (IF whole THEN Tail(PES.at) ELSE <<>>)
      /\ PES'.left = PES.left - 2 * (words + odd)
      /\ PES'.rest = PES.rest - (2 * words + odd)
      /\ IsPES(PES')
  <2>1. IsPES(PES)  BY DEF PESInv
  <2>2. QED  BY <1>5, <2>1 DEF IsPES
<1>8. QED  BY <1>1, <1>3, <1>6, <1>7 DEF f, words, odd, whole

(* A plain frame is written whole. *)
LEMMA PlainFrameEffect ==
  ASSUME PESInv, DecodeDTSFrame, AllPlain(PES.of)
  PROVE  LET d == Len(PES.of) - Len(PES.at)
             f == Head(PES.at)
         IN  /\ Copied(f, PES.left) = f.size \div 2 /\ ~HasOddWord(f, PES.left) /\ 2 * (f.size \div 2) = f.size
             /\ d \in Nat /\ d + 1 \in 1 .. Len(PES.of) /\ f = PES.of[d + 1]
             /\ PES'.at = Tail(PES.at) /\ Len(PES'.of) - Len(PES'.at) = d + 1
             /\ PES'.left = PES'.size - BytesOf(PES'.of, d + 1) /\ PES'.rest = PES'.left
<1> DEFINE d     == Len(PES.of) - Len(PES.at)
           f     == Head(PES.at)
           words == Copied(f, PES.left)
           odd   == IF HasOddWord(f, PES.left) THEN 1 ELSE 0
           size  == f.size
           room  == 2 * f.pairs - 4
           half  == size \div 2
<1>1. /\ kind = "dts" /\ PES.at # <<>> /\ PES'.of = PES.of /\ PES'.size = PES.size
      /\ PES'.at = (IF 2 * words + odd = f.present THEN Tail(PES.at) ELSE <<>>)
      /\ PES'.left = PES.left - 2 * (words + odd)
      /\ PES'.rest = PES.rest - (2 * words + odd)
  BY DTSFrameEffect
<1>2. PES.of \in Seq(DTSFrame_t) /\ IsDTSPacket(PES) /\ PES.left \in Int /\ PES.at \in Seq(DTSFrame_t)
  BY <1>1 DEF PESInv, IsDTSPacket
<1>3. /\ d \in Nat /\ d + 1 \in 1 .. Len(PES.of) /\ f = PES.of[d + 1] /\ f \in DTSFrame_t /\ IsPlain(f)
      /\ PES.left = PES.size - BytesOf(PES.of, d) /\ PES.rest = PES.left
      /\ PES.size - BytesOf(PES.of, d + 1) = PES.left - f.size
      /\ f.size <= PES.left
  BY <1>1, <1>2, PlainIsLeft
<1> HIDE DEF f
<1>4. size \in Nat /\ f.present = size /\ size % 2 = 0 /\ half <= room /\ room \in Int
  <2>1. f.size \in Nat /\ f.pairs \in Nat  BY <1>3 DEF DTSFrame_t
  <2>2. f.present = f.size /\ f.size % 2 # 1 /\ f.size \div 2 <= 2 * f.pairs - 4  BY <1>3 DEF IsPlain, Odd
  <2>3. f.size % 2 = 0 /\ 2 * f.pairs - 4 \in Int  BY <2>1, <2>2
  <2>4. QED  BY <2>1, <2>2, <2>3
<1>5. ~HasOddWord(f, PES.left) /\ odd = 0  BY <1>3 DEF HasOddWord, IsPlain
<1>6. words = half /\ half \in Nat /\ 2 * half = size
  <2>1. words = Least(half, room)
    <3>1. ~(PES.left >= 0 /\ f.size > PES.left)
      <4>1. f.size \in Nat /\ PES.left \in Int /\ f.size <= PES.left  BY <1>2, <1>3, <1>4
      <4>2. QED  BY <4>1
    <3>2. QED  BY <3>1 DEF Copied
  <2>2. half \in Nat /\ 2 * half = size
    <3> HIDE DEF size
    <3>1. QED  BY <1>4
  <2> HIDE DEF words, half, room
  <2>3. QED  BY <1>4, <2>1, <2>2 DEF Least
<1>7. 2 * words + odd = f.present /\ 2 * (words + odd) = size /\ 2 * words + odd = size
  <2> HIDE DEF words, odd, half, size
  <2>1. words + odd = half /\ 2 * words + odd = 2 * half  BY <1>5, <1>6
  <2>2. QED  BY <1>4, <1>6, <2>1
<1> HIDE DEF words, odd, half, room
<1>8. PES'.at = Tail(PES.at) /\ PES'.left = PES.left - size /\ PES'.rest = PES.rest - size
  BY <1>1, <1>7
<1>9. Len(PES'.of) - Len(PES'.at) = d + 1
  <2>1. Len(Tail(PES.at)) = Len(PES.at) - 1  BY <1>1, <1>2, HeadTailProperties
  <2>2. Len(PES.at) \in Nat /\ Len(PES.of) \in Nat  BY <1>2, LenProperties
  <2>3. Len(PES'.of) = Len(PES.of) /\ Len(PES'.at) = Len(PES.at) - 1  BY <1>1, <1>8, <2>1
  <2> HIDE <1>1, <1>3, <1>8
  <2>4. QED  BY <2>2, <2>3
<1>10. PES'.left = PES'.size - BytesOf(PES'.of, d + 1) /\ PES'.rest = PES'.left
  BY <1>1, <1>3, <1>8 DEF d
<1>11. QED  BY <1>3, <1>5, <1>6, <1>8, <1>9, <1>10 DEF words, half, size, f, d

LEMMA RestOfRest ==
  ASSUME NEW of \in Seq(DTSFrame_t), NEW at \in Seq(DTSFrame_t), at # <<>>, IsRest(at, of)
  PROVE  /\ Tail(at) \in Seq(DTSFrame_t) /\ IsRest(Tail(at), of)
         /\ <<>> \in Seq(DTSFrame_t) /\ IsRest(<<>>, of)
<1>1. /\ Tail(at) \in Seq(DTSFrame_t) /\ Len(Tail(at)) = Len(at) - 1
      /\ \A i \in 1 .. Len(Tail(at)) : Tail(at)[i] = at[i + 1]
  BY HeadTailProperties
<1>2. Len(at) \in Nat /\ Len(of) \in Nat /\ Len(at) # 0  BY LenProperties, EmptySeq
<1>3. IsRest(<<>>, of)  BY <1>2 DEF IsRest
<1>4. IsRest(Tail(at), of)
  <2>1. Len(Tail(at)) <= Len(of)  BY <1>1, <1>2 DEF IsRest
  <2>2. ASSUME NEW i \in 1 .. Len(Tail(at))
        PROVE  Tail(at)[i] = of[Len(of) - Len(Tail(at)) + i]
    <3>1. i + 1 \in 1 .. Len(at) /\ Len(of) - Len(Tail(at)) + i = Len(of) - Len(at) + (i + 1)
      BY <1>1, <1>2
    <3>2. QED  BY <1>1, <3>1 DEF IsRest
  <2>3. QED  BY <2>1, <2>2 DEF IsRest
<1>5. QED  BY <1>1, <1>3, <1>4

LEMMA DTSFrameKeeps ==
  ASSUME PESInv, DecodeDTSFrame
  PROVE  PESInv'
<1> DEFINE f     == Head(PES.at)
           words == Copied(f, PES.left)
           odd   == IF HasOddWord(f, PES.left) THEN 1 ELSE 0
<1>1. /\ kind = "dts" /\ kind' = kind /\ PES.at # <<>> /\ words \in Int /\ odd \in {0, 1}
      /\ PES'.of = PES.of /\ PES'.size = PES.size
      /\ PES'.at \in {Tail(PES.at), <<>>}
      /\ PES'.left = PES.left - 2 * (words + odd)
      /\ PES'.rest = PES.rest - (2 * words + odd)
      /\ IsPES(PES')
  BY DTSFrameEffect
<1> HIDE DEF words, odd
<1>2. /\ PES.of \in Seq(DTSFrame_t) /\ PES.at \in Seq(DTSFrame_t) /\ IsRest(PES.at, PES.of)
      /\ PES.left \in Int /\ PES.rest \in Int /\ PES.size \in Int
      /\ PES.of # <<>> => PES.size >= BytesOf(PES.of, Len(PES.of))
  BY <1>1 DEF PESInv, IsDTSPacket
<1>3. PES'.at \in Seq(DTSFrame_t) /\ IsRest(PES'.at, PES'.of)
  BY <1>1, <1>2, RestOfRest
<1>4. PES'.left \in Int /\ PES'.rest \in Int /\ PES'.size \in Int  BY <1>1, <1>2
<1>5. AllPlain(PES'.of) => Agrees(PES')
  BY <1>1, PlainFrameEffect DEF Agrees
<1>6. IsDTSPacket(PES')  BY <1>1, <1>2, <1>3, <1>4, <1>5 DEF IsDTSPacket
<1>7. QED  BY <1>1, <1>2, <1>6 DEF PESInv

LEMMA PESStep ==
  ASSUME PESInv, OutputNext
  PROVE  PESInv'
<1>0. IsPES(PES)  BY DEF PESInv
<1>1. CASE DTSDecode  BY <1>1, DTSDecodeKeeps
<1>2. CASE DecodeDTSFrame  BY <1>2, DTSFrameKeeps
<1>3. CASE NoDTSSync
  <2>1. PES' = [PES EXCEPT !.left = 0] /\ kind' = kind /\ kind = "dts" /\ PES.at = <<>>  BY <1>3 DEF NoDTSSync
  <2>2. /\ PES'.of = PES.of /\ PES'.at = PES.at /\ PES'.left = 0 /\ PES'.rest = PES.rest /\ PES'.size = PES.size
        /\ IsPES(PES')
    BY <1>0, <2>1 DEF IsPES
  <2>3. IsDTSPacket(PES)  BY <2>1 DEF PESInv
  <2>4. IsDTSPacket(PES')
    <3>1. Agrees(PES')  BY <2>1, <2>2 DEF Agrees
    <3>2. QED  BY <2>2, <2>3, <3>1 DEF IsDTSPacket
  <2>5. QED  BY <2>1, <2>2, <2>4 DEF PESInv
<1>4. CASE UNCHANGED PES /\ kind' \in {kind, "gone"}
  BY <1>4 DEF PESInv
<1>5. ASSUME kind' = kind, kind # "dts", NEW at, NEW left, NEW size, NEW count,
             PES' = [PES EXCEPT !.at = at, !.left = left, !.size = size, !.taken = count]
      PROVE  PESInv'
  <2>1. PES'.of = PES.of /\ IsPES(PES')
    BY <1>0, <1>5 DEF IsPES
  <2>2. QED  BY <1>5, <2>1 DEF PESInv
<1>6. CASE LPCMDecode
  <2>1. PICK size : \E left : PES' = [PES EXCEPT !.size = size, !.left = left, !.taken = @ + 1]
    BY <1>6 DEF LPCMDecode
  <2>2. PICK left : PES' = [PES EXCEPT !.size = size, !.left = left, !.taken = @ + 1]
    BY <2>1
  <2>3. PES' = [PES EXCEPT !.at = PES.at, !.left = left, !.size = size, !.taken = PES.taken + 1]
    BY <1>0, <2>2 DEF IsPES
  <2>4. QED  BY <1>5, <1>6, <2>3 DEF LPCMDecode
<1>7. CASE DecodeLPCMFrame
  <2>1. PICK left : PES' = [PES EXCEPT !.left = left]
    BY <1>7 DEF DecodeLPCMFrame
  <2>2. PES' = [PES EXCEPT !.at = PES.at, !.left = left, !.size = PES.size, !.taken = PES.taken]
    BY <1>0, <2>1 DEF IsPES
  <2>3. QED  BY <1>5, <1>7, <2>2 DEF DecodeLPCMFrame
<1>8. CASE AC3PESDecode
  <2>1. PICK frames : PES' = [PES EXCEPT !.at = frames, !.left = Len(frames), !.taken = @ + 1]
    BY <1>8 DEF AC3PESDecode
  <2>2. PES' = [PES EXCEPT !.at = frames, !.left = Len(frames), !.size = PES.size, !.taken = PES.taken + 1]
    BY <1>0, <2>1 DEF IsPES
  <2>3. QED  BY <1>5, <1>8, <2>2 DEF AC3PESDecode
<1>9. CASE WriteAC3Frame
  <2>1. PES' = [PES EXCEPT !.at = Tail(@), !.left = @ - 1] /\ kind' = kind /\ kind # "dts"
    BY <1>9 DEF WriteAC3Frame
  <2>2. PES'.of = PES.of /\ IsPES(PES')  BY <1>0, <2>1 DEF IsPES
  <2>3. QED  BY <2>1, <2>2 DEF PESInv
<1>10. CASE EAC3PESDecode \/ WriteOwnSample
  <2>1. PES' = [PES EXCEPT !.at = PES.at, !.left = PES.left, !.size = PES.size, !.taken = PES.taken + 1]
    BY <1>0, <1>10 DEF EAC3PESDecode, WriteOwnSample, IsPES
  <2>2. kind' = kind /\ kind # "dts"
    BY <1>10 DEF EAC3PESDecode, WriteOwnSample
  <2>3. QED  BY <1>5, <2>1, <2>2
<1>11. CASE DumpPESDecode \/ NoAC3Range
  <2>1. PICK size : PES' = [PES EXCEPT !.size = size, !.taken = @ + 1]
    BY <1>11 DEF DumpPESDecode, NoAC3Range
  <2>2. PES' = [PES EXCEPT !.at = PES.at, !.left = PES.left, !.size = size, !.taken = PES.taken + 1]
    BY <1>0, <2>1 DEF IsPES
  <2>3. kind' = kind /\ kind # "dts"
    BY <1>11 DEF DumpPESDecode, NoAC3Range
  <2>4. QED  BY <1>5, <2>2, <2>3
<1>12. CASE SwitchDebug \/ DestroyDump \/ DestroyWriter \/ OpenReader \/ ReadOwnSample \/ DTSMetadataOverrun
  BY <1>4, <1>12 DEF SwitchDebug, DestroyDump, DestroyWriter, OpenReader, ReadOwnSample, DTSMetadataOverrun
<1>13. QED
  BY <1>1, <1>2, <1>3, <1>6, <1>7, <1>8, <1>9, <1>10, <1>11, <1>12 DEF OutputNext

-----------------------------------------------------------------------------
(* Faults.  A regular packet of DTS is not read past.                        *)
LEMMA RegularIsRead ==
  ASSUME PESInv, DTSMetadataOverrun
  PROVE  ~RegularDTS
<1> SUFFICES ASSUME RegularDTS PROVE FALSE  OBVIOUS
<1>1. kind = "dts" /\ PES.left # 0 /\ (PES.at # <<>> => ReadsPast(Head(PES.at)))
  BY DEF DTSMetadataOverrun, Idle
<1>2. PES.of \in Seq(DTSFrame_t) /\ IsDTSPacket(PES) /\ PES.rest \in Int /\ PES.left \in Int
  BY <1>1 DEF PESInv, IsDTSPacket
<1>3. AllPlain(PES.of) /\ PES.size = BytesOf(PES.of, Len(PES.of))
  BY <1>2, BytesOfType DEF RegularDTS, AllPlain, IsRegular
<1>4. PES.left = PES.size - BytesOf(PES.of, Len(PES.of) - Len(PES.at)) /\ PES.rest = PES.left
  BY <1>1, <1>2, <1>3 DEF IsDTSPacket, Agrees
<1>5. CASE PES.at = <<>>
  <2>1. Len(PES.of) \in Nat /\ Len(PES.at) = 0  BY <1>2, <1>5, LenProperties
  <2>2. Len(PES.of) - Len(PES.at) = Len(PES.of) /\ Len(PES.of) \in 0 .. Len(PES.of)  BY <2>1
  <2>3. PES.left = PES.size - PES.size /\ PES.size \in Nat
    BY <1>2, <1>3, <1>4, <2>2, BytesOfType
  <2>4. QED  BY <1>1, <2>3
<1>6. CASE PES.at # <<>>
  <2> DEFINE d == Len(PES.of) - Len(PES.at)
             f == Head(PES.at)
  <2>1. d + 1 \in 1 .. Len(PES.of) /\ f = PES.of[d + 1] /\ f \in DTSFrame_t /\ f.size <= PES.left
    BY <1>2, <1>3, <1>6, PlainIsLeft
  <2>2. DOMAIN PES.of = 1 .. Len(PES.of)  BY <1>2, BytesOfType
  <2>3. f.size >= DTSHeaderBytes /\ f.beyond = 0
    BY <2>1, <2>2 DEF RegularDTS, IsRegular
  <2>4. ReadsPast(f)  BY <1>1, <1>6
  <2> HIDE DEF f, d
  <2>5. f.size \in Nat /\ DTSHeaderBytes \in Nat  BY <2>1, OutputAssumption DEF DTSFrame_t
  <2>6. f.size <= PES.rest  BY <1>4, <2>1
  <2>7. QED  BY <1>2, <2>3, <2>4, <2>5, <2>6 DEF ReadsPast
<1>7. QED  BY <1>5, <1>6

(* While a handler lives, a log that is switched on is there.                *)
LEMMA FaultStep ==
  ASSUME PESInv, FaultInv, OutputNext
  PROVE  FaultInv'
<1> USE DEF FaultInv, FaultsHaveCauses, NULL, live, deleted
<1>1. CASE UNCHANGED <<DebugOn, LogFile, fault>> /\ kind' \in {kind, "gone"} /\ (fault = "none" \/ UNCHANGED <<kind, PES>>)
  BY <1>1 DEF RawLogKinds, RegularDTS
<1>2. ASSUME UNCHANGED <<DebugOn, LogFile, kind>>, Sound, fault' = MessageFault, kind \in {"lpcm", "es", "esfiles", "pes", "pesfiles"}
      PROVE  FaultInv'
  BY <1>2 DEF MessageFault, Sound
<1>3. CASE LPCMDecode
  <2>1. kind = "lpcm" /\ Sound /\ UNCHANGED <<DebugOn, LogFile, kind>>
    BY <1>3 DEF LPCMDecode, CanTake
  <2>2. PICK size \in PESSizes :
          /\ fault' = IF MessageFault = "none" /\ size < 0 THEN "overrun" ELSE MessageFault
          /\ PES' = [PES EXCEPT !.size = size, !.left = IF MessageFault = "none" THEN size ELSE 0, !.taken = @ + 1]
    BY <1>3 DEF LPCMDecode
  <2>3. PES'.size = size  BY <2>2 DEF PESInv, IsPES
  <2>4. CASE fault' = MessageFault  BY <1>2, <2>1, <2>4
  <2>5. CASE fault' = "overrun" /\ size < 0  BY <2>1, <2>3, <2>5
  <2>6. QED  BY <2>2, <2>4, <2>5
<1>4. CASE DecodeLPCMFrame
  <2>1. kind = "lpcm" /\ Sound /\ UNCHANGED <<DebugOn, LogFile, kind>>
    BY <1>4 DEF DecodeLPCMFrame
  <2>2. PICK header \in LPCMHeaders :
          /\ PES' = [PES EXCEPT !.left = IF LPCMBytes(header) > @ THEN @ ELSE @ - LPCMBytes(header)]
          /\ \/ fault' = "overrun" /\ LPCMBytes(header) > PES.left
             \/ fault' = MessageFault
             \/ fault' = fault
    BY <1>4 DEF DecodeLPCMFrame
  <2>3. CASE fault' = "overrun" /\ LPCMBytes(header) > PES.left
    <3>1. PES'.left = PES.left  BY <2>2, <2>3 DEF PESInv, IsPES
    <3>2. LPCMBytes(header) > PES'.left  BY <2>3, <3>1
    <3>3. QED  BY <2>1, <2>3, <3>2
  <2>4. CASE fault' = MessageFault  BY <1>2, <2>1, <2>4
  <2>5. CASE fault' = fault  BY <2>1, <2>5 DEF Sound
  <2>6. QED  BY <2>2, <2>3, <2>4, <2>5
<1>5. CASE DTSDecode  BY <1>1, <1>5 DEF DTSDecode, CanTake, Sound, logVars
<1>6. CASE DecodeDTSFrame  BY <1>1, <1>6 DEF DecodeDTSFrame, Sound, logVars
<1>7. CASE DTSMetadataOverrun
  <2>1. kind = "dts" /\ UNCHANGED <<DebugOn, LogFile, kind, PES>> /\ Sound /\ fault' = "overrun"
    BY <1>7 DEF DTSMetadataOverrun
  <2>2. ~RegularDTS  BY <1>7, RegularIsRead
  <2>3. ~RegularDTS'  BY <2>1, <2>2 DEF RegularDTS
  <2>4. QED  BY <2>1, <2>3
<1>8. CASE NoDTSSync  BY <1>1, <1>8 DEF NoDTSSync, Sound, logVars
<1>9. CASE AC3PESDecode  BY <1>1, <1>9 DEF AC3PESDecode, CanTake, Sound, logVars
<1>10. CASE WriteAC3Frame  BY <1>1, <1>10 DEF WriteAC3Frame, Sound, logVars
<1>11. CASE EAC3PESDecode
  BY <1>11 DEF EAC3PESDecode, CanTake, Sound
<1>12. CASE NoAC3Range
  <2>1. PICK size \in PESSizes : size < 0 /\ PES' = [PES EXCEPT !.size = size, !.taken = @ + 1]
    BY <1>12 DEF NoAC3Range
  <2>2. PES'.size < 0  BY <2>1 DEF PESInv, IsPES
  <2>3. kind \in {"ac3", "eac3"} /\ Sound /\ fault' = "bad range" /\ UNCHANGED <<DebugOn, LogFile, kind>>
    BY <1>12 DEF NoAC3Range, CanTake
  <2>4. QED  BY <2>2, <2>3
<1>13. CASE DumpPESDecode
  <2>1. PICK size \in PESSizes :
          fault' = DumpFault(size) /\ PES' = [PES EXCEPT !.size = size, !.taken = @ + 1]
    BY <1>13 DEF DumpPESDecode
  <2>2. kind \in {"es", "esfiles", "pes", "pesfiles"} /\ Sound /\ UNCHANGED <<DebugOn, LogFile, kind>>
    BY <1>13 DEF DumpPESDecode, CanTake
  <2>3. PES'.size = size  BY <2>1 DEF PESInv, IsPES
  <2>4. CASE fault' = MessageFault  BY <1>2, <2>2, <2>4
  <2>5. CASE fault' = "null file" /\ kind = "esfiles"  BY <2>2, <2>5
  <2>6. CASE fault' = "overrun" /\ size < 0  BY <2>2, <2>3, <2>6
  <2>7. CASE fault' = "none"  BY <2>2, <2>7 DEF Sound
  <2>8. \/ fault' = MessageFault
        \/ fault' = "null file" /\ kind = "esfiles"
        \/ fault' = "overrun" /\ size < 0
        \/ fault' = "none"
    <3> HIDE DEF FaultInv, FaultsHaveCauses
    <3>1. fault' = DumpFault(size)  BY <2>1
    <3>2. QED  BY <3>1 DEF DumpFault
  <2>9. QED  BY <2>4, <2>5, <2>6, <2>7, <2>8
<1>14. CASE SwitchDebug
  <2>1. Sound /\ UNCHANGED <<kind, PES>>  BY <1>14 DEF SwitchDebug
  <2>2. PICK On \in BOOLEAN : \/ kind \in RawLogKinds /\ SetDebugOutput(On)
                              \/ kind = "ac3" /\ SetDebugOutputShared(On)
    BY <1>14 DEF SwitchDebug
  <2>3. CASE kind \in RawLogKinds /\ SetDebugOutput(On)
    BY <2>1, <2>3 DEF SetDebugOutput, DeleteFault, Sound, RawLogKinds
  <2>4. CASE kind = "ac3" /\ SetDebugOutputShared(On)
    BY <2>1, <2>4 DEF SetDebugOutputShared, Sound
  <2>5. QED  BY <2>2, <2>3, <2>4
<1>15. CASE DestroyDump
  <2>1. Sound /\ kind' = "gone" /\ fault' \in {"none", "double delete", "uninitialised"} /\ UNCHANGED DebugOn
    BY <1>15 DEF DestroyDump, DeleteFault, Sound
  <2>2. QED  BY <2>1
<1>16. CASE DestroyWriter  BY <1>1, <1>16 DEF DestroyWriter, Sound, logVars
<1>17. CASE WriteOwnSample
  <2>1. UNCHANGED <<DebugOn, LogFile, fault, kind>> /\ kind = "samples"
    BY <1>17 DEF WriteOwnSample, logVars
  <2>2. fault \in {"none", "no way to read", "bad range"} /\ (fault = "bad range" => kind \in {"ac3", "eac3"})
    BY <2>1
  <2>3. QED  BY <2>1, <2>2
<1>18. CASE OpenReader  BY <1>1, <1>18 DEF OpenReader, logVars
<1>19. CASE ReadOwnSample
  <2>1. Sound /\ fault' \in {fault, "no way to read"} /\ UNCHANGED <<DebugOn, LogFile, kind, PES>>
    BY <1>19 DEF ReadOwnSample
  <2>2. QED  BY <2>1 DEF Sound
<1>20. QED
  BY <1>3, <1>4, <1>5, <1>6, <1>7, <1>8, <1>9, <1>10, <1>11, <1>12, <1>13, <1>14, <1>15, <1>16, <1>17,
     <1>18, <1>19
  DEF OutputNext

LEMMA PESStart ==
  ASSUME Init
  PROVE  PESInv /\ FaultInv
<1>1. OutputInit  BY DEF Init, OutputRests
<1>2. PES = [of |-> <<>>, at |-> <<>>, left |-> 0, rest |-> 0, size |-> 0, taken |-> 0]
  BY <1>1 DEF OutputInit, NoPES
<1>3. \E On \in BOOLEAN : ConstructLog(On /\ kind # "samples")  BY <1>1 DEF OutputInit
<1>4. FaultInv
  BY <1>3 DEF ConstructLog, FaultInv, FaultsHaveCauses, live, NULL
<1>5. PESInv
  <2>1. <<>> \in Seq(DTSFrame_t) /\ Len(<<>>) = 0 /\ DOMAIN <<>> = {}  OBVIOUS
  <2>2. IsRest(<<>>, <<>>) BY <2>1 DEF IsRest
  <2>3. IsPES(PES) /\ PES.of = <<>> /\ PES.at = <<>> /\ PES.left = 0 /\ PES.rest = 0 /\ PES.size = 0
    BY <1>2 DEF IsPES
  <2>4. IsDTSPacket(PES)  BY <2>1, <2>2, <2>3 DEF IsDTSPacket, Agrees
  <2>5. QED  BY <2>1, <2>3, <2>4 DEF PESInv
<1>6. QED  BY <1>4, <1>5

(* FaultsHaveCauses: a handler reads behind the end of a packet only when    *)
(* the packet's length is negative, a header of LPCM asks for more than is   *)
(* left, or a packet of DTS is not regular; a log is missing only when it is *)
(* switched off; in packets of any frames.                                   *)
THEOREM FaultsHaveCausesHolds == Spec => []FaultsHaveCauses
<1>1. (PESInv /\ FaultInv) /\ [Next]_libraryVars => (PESInv /\ FaultInv)'
  <2> SUFFICES ASSUME PESInv, FaultInv, [Next]_libraryVars PROVE PESInv' /\ FaultInv'  OBVIOUS
  <2>1. CASE OutputNext  BY <2>1, PESStep, FaultStep
  <2>2. CASE UNCHANGED outputVars
    BY <2>2 DEF outputVars, logVars, PESInv, FaultInv, FaultsHaveCauses, RegularDTS
  <2>3. QED  BY <2>1, <2>2 DEF Next, libraryVars
<1>2. FaultInv => FaultsHaveCauses  BY DEF FaultInv
<1>3. QED  BY PESStart, <1>1, <1>2, PTL DEF Spec

-----------------------------------------------------------------------------
(* WAV files: what writing adds to one.                                      *)
File_t == [open : BOOLEAN, fileSize : Nat, dataSize : Nat, data : Seq(Nat)]

Format_t ==
  [chunk : Nat, channels : Nat, rate : Nat, bytesPerSec : Nat, blockAlign : Nat, bits : {16, 24}]

WAV_t == [file : File_t, format : Format_t, ByteShift : {2, 3}, writtenCount : Nat]

LEMMA BytesOfWord ==
  ASSUME NEW word \in Int, NEW n \in {2, 3}
  PROVE  /\ LittleEndian(word, n) \in Seq(Nat) /\ Len(LittleEndian(word, n)) = n
         /\ LittleEndian(word, n)[1] = word % 256 /\ LittleEndian(word, n)[2] = (word \div 256) % 256
<1> DEFINE bytes == LittleEndian(word, n)
<1>1. bytes = [i \in 1 .. n |-> (word \div <<1, 256, 65536>>[i]) % 256]
  BY DEF LittleEndian
<1>2. \A i \in 1 .. n : i = 1 \/ i = 2 \/ i = 3  OBVIOUS
<1>3. <<1, 256, 65536>>[1] = 1 /\ <<1, 256, 65536>>[2] = 256 /\ <<1, 256, 65536>>[3] = 65536
  OBVIOUS
<1>4. \A i \in 1 .. n : (word \div <<1, 256, 65536>>[i]) % 256 \in Nat
  BY <1>2, <1>3
<1>5. 1 \in 1 .. n /\ 2 \in 1 .. n /\ n \in Nat  OBVIOUS
<1>6. bytes[1] = (word \div 1) % 256 /\ bytes[2] = (word \div 256) % 256
  BY <1>1, <1>3, <1>5
<1> HIDE DEF bytes
<1>7. bytes \in Seq(Nat) /\ Len(bytes) = n
  BY <1>1, <1>4, <1>5
<1>8. word \div 1 = word  OBVIOUS
<1>9. QED  BY <1>6, <1>7, <1>8 DEF bytes

LEMMA WordOfBytes ==
  ASSUME NEW word \in Int
  PROVE  Word(LittleEndian(word, 2)) = word % 65536
<1> DEFINE bytes == LittleEndian(word, 2)
<1>1. Len(bytes) = 2 /\ bytes[1] = word % 256 /\ bytes[2] = (word \div 256) % 256
  BY BytesOfWord, ZenonT(40)
<1> HIDE DEF bytes
<1>2. Word(bytes) = bytes[1] + 256 * bytes[2] + 0
  BY <1>1 DEF Word
<1>3. (word % 256) + 256 * ((word \div 256) % 256) + 0 = word % 65536
  OBVIOUS
<1>4. QED  BY <1>1, <1>2, <1>3 DEF bytes

(* g is f with i words added, in n bytes each. *)
Added(f, g, words, n, i) ==
  /\ g \in WAV_t /\ g.file.open
  /\ g.file.dataSize = f.file.dataSize /\ g.format = f.format /\ g.ByteShift = f.ByteShift
  /\ g.writtenCount = f.writtenCount + n * i
  /\ Len(g.file.data) = Len(f.file.data) + n * i
  /\ \A k \in 1 .. Len(f.file.data) : g.file.data[k] = f.file.data[k]
  /\ \A k \in 1 .. i, j \in 1 .. n :
       g.file.data[Len(f.file.data) + n * (k - 1) + j] = LittleEndian(words[k], n)[j]

OneAdded(f, g, word, n) ==
  /\ g \in WAV_t /\ g.file.open
  /\ g.file.dataSize = f.file.dataSize /\ g.format = f.format /\ g.ByteShift = f.ByteShift
  /\ g.writtenCount = f.writtenCount + n
  /\ Len(g.file.data) = Len(f.file.data) + n
  /\ \A k \in 1 .. Len(f.file.data) : g.file.data[k] = f.file.data[k]
  /\ \A j \in 1 .. n : g.file.data[Len(f.file.data) + j] = LittleEndian(word, n)[j]

LEMMA WriteBytesAdds ==
  ASSUME NEW f \in WAV_t, f.file.open, NEW word \in Int, NEW n \in {2, 3}
  PROVE  OneAdded(f, WriteBytes(f, word, n), word, n)
<1> DEFINE bytes == LittleEndian(word, n)
           data == f.file.data
           all == data \o bytes
           g == WriteBytes(f, word, n)
<1>1. bytes \in Seq(Nat) /\ Len(bytes) = n  BY BytesOfWord, ZenonT(40)
<1>2. data \in Seq(Nat) /\ Len(data) \in Nat  BY LenProperties DEF WAV_t, File_t
<1>3. g = [f EXCEPT !.file.data = all, !.writtenCount = f.writtenCount + n]
  BY DEF WriteBytes, WAV_t, File_t
<1> HIDE DEF bytes, data
<1>4. /\ all \in Seq(Nat) /\ Len(all) = Len(data) + n
      /\ \A k \in 1 .. Len(data) : all[k] = data[k]
      /\ \A j \in 1 .. n : all[Len(data) + j] = bytes[j]
  <2>1. /\ all \in Seq(Nat) /\ Len(all) = Len(data) + Len(bytes)
        /\ \A k \in 1 .. Len(data) + Len(bytes) :
             all[k] = IF k <= Len(data) THEN data[k] ELSE bytes[k - Len(data)]
    BY <1>1, <1>2, ConcatProperties
  <2> HIDE DEF all
  <2>2. \A k \in 1 .. Len(data) : k \in 1 .. Len(data) + Len(bytes) /\ k <= Len(data)
    BY <1>1, <1>2
  <2>3. \A j \in 1 .. n : /\ Len(data) + j \in 1 .. Len(data) + Len(bytes) /\ ~(Len(data) + j <= Len(data))
                          /\ (Len(data) + j) - Len(data) = j
    BY <1>1, <1>2
  <2>4. QED  BY <1>1, <2>1, <2>2, <2>3
<1> HIDE DEF all, g
<1>5. /\ g.file.data = all /\ g.file.open /\ g.file.dataSize = f.file.dataSize
      /\ g.format = f.format /\ g.ByteShift = f.ByteShift /\ g.writtenCount = f.writtenCount + n
      /\ g \in WAV_t
  <2>1. f.file.data \in Seq(Nat) /\ all \in Seq(Nat) /\ f.writtenCount + n \in Nat
    BY <1>4 DEF WAV_t, File_t
  <2> DEFINE file == [f.file EXCEPT !.data = all]
  <2>2. file \in File_t /\ file.data = all /\ file.open = f.file.open /\ file.dataSize = f.file.dataSize
    BY <2>1 DEF WAV_t, File_t
  <2>3. g = [f EXCEPT !.file = file, !.writtenCount = f.writtenCount + n]
    BY <1>3 DEF WAV_t, File_t
  <2> HIDE DEF file
  <2>4. QED  BY <2>1, <2>2, <2>3 DEF WAV_t
<1>6. QED  BY <1>4, <1>5 DEF g, data, bytes, OneAdded

LEMMA AddedOne ==
  ASSUME NEW f \in WAV_t, NEW g, NEW words, NEW n \in {2, 3}, NEW i \in Nat, words[i + 1] \in Int,
         Added(f, g, words, n, i)
  PROVE  Added(f, WriteBytes(g, words[i + 1], n), words, n, i + 1)
<1> DEFINE h == WriteBytes(g, words[i + 1], n)
           a == Len(f.file.data)
           m == n * i
<1>1. g \in WAV_t /\ g.file.open  BY DEF Added
<1>2. a \in Nat /\ Len(g.file.data) \in Nat /\ f.writtenCount \in Nat /\ m \in Nat
  <2>1. f.file.data \in Seq(Nat) /\ g.file.data \in Seq(Nat) /\ f.writtenCount \in Nat
    BY <1>1 DEF WAV_t, File_t
  <2>2. m \in Nat  OBVIOUS
  <2>3. QED  BY <2>1, <2>2, LenProperties
<1>3. /\ h \in WAV_t /\ h.file.open
      /\ h.file.dataSize = g.file.dataSize /\ h.format = g.format /\ h.ByteShift = g.ByteShift
      /\ h.writtenCount = g.writtenCount + n
      /\ Len(h.file.data) = Len(g.file.data) + n
      /\ \A k \in 1 .. Len(g.file.data) : h.file.data[k] = g.file.data[k]
      /\ \A j \in 1 .. n : h.file.data[Len(g.file.data) + j] = LittleEndian(words[i + 1], n)[j]
  <2> DEFINE w == words[i + 1]
  <2>1. w \in Int  OBVIOUS
  <2>2. h = WriteBytes(g, w, n)  OBVIOUS
  <2> HIDE DEF w, h
  <2>3. OneAdded(g, WriteBytes(g, w, n), w, n)  BY <1>1, <2>1, WriteBytesAdds, Zenon
  <2>4. QED  BY <2>2, <2>3, Zenon DEF OneAdded, w
<1>4. /\ g.file.dataSize = f.file.dataSize /\ g.format = f.format /\ g.ByteShift = f.ByteShift
      /\ g.writtenCount = f.writtenCount + m
      /\ Len(g.file.data) = a + m
      /\ \A k \in 1 .. a : g.file.data[k] = f.file.data[k]
      /\ \A k \in 1 .. i, j \in 1 .. n : g.file.data[a + n * (k - 1) + j] = LittleEndian(words[k], n)[j]
  BY DEF Added
<1>5. n * (i + 1) = m + n  BY Z3
<1> HIDE DEF h
<1>6. \A k \in 1 .. a : h.file.data[k] = f.file.data[k]
  <2>1. \A k \in 1 .. a : k \in 1 .. Len(g.file.data)
    <3> HIDE DEF a, m
    <3>1. QED  BY <1>2, <1>4
  <2>2. QED  BY <1>3, <1>4, <2>1
<1>7. ASSUME NEW k \in 1 .. i + 1, NEW j \in 1 .. n
      PROVE  h.file.data[a + n * (k - 1) + j] = LittleEndian(words[k], n)[j]
  <2>1. CASE k = i + 1
    <3>1. k - 1 = i  BY <2>1
    <3>2. n * (k - 1) = m  BY <3>1
    <3>3. a + n * (k - 1) + j = Len(g.file.data) + j  BY <1>4, <3>2
    <3>4. QED  BY <1>3, <2>1, <3>3
  <2>2. CASE k # i + 1
    <3>1. k \in 1 .. i  BY <2>2
    <3>2. a + n * (k - 1) + j \in 1 .. Len(g.file.data)
      <4> DEFINE p == n * (k - 1)
      <4>1. p \in Nat /\ p + n <= m
        <5>1. CASE n = 2  BY <3>1, <5>1
        <5>2. CASE n = 3  BY <3>1, <5>2
        <5>3. QED  BY <5>1, <5>2
      <4> HIDE DEF p, m, a
      <4>2. a + p + j \in 1 .. Len(g.file.data)  BY <1>2, <1>4, <4>1
      <4>3. QED  BY <4>2 DEF p
    <3>3. QED  BY <1>3, <1>4, <3>1, <3>2
  <2>3. QED  BY <2>1, <2>2
<1>8. Len(h.file.data) = a + n * (i + 1) /\ h.writtenCount = f.writtenCount + n * (i + 1)
  <2> HIDE DEF a, m
  <2>1. QED  BY <1>2, <1>3, <1>4, <1>5, SMTT(40)
<1>9. QED  BY <1>3, <1>4, <1>6, <1>7, <1>8 DEF Added, h

Writes(f, words, n, k, s) ==
  /\ s = [i \in 0 .. k |-> s[i]]
  /\ s[0] = f
  /\ \A i \in 1 .. k : s[i] = WriteBytes(s[i - 1], words[i], n)

LEMMA WritesExist ==
  ASSUME NEW f, NEW words, NEW n, NEW len \in Nat
  PROVE  \E s : Writes(f, words, n, len, s)
<1> DEFINE Bad == {k \in 0 .. len : ~\E s : Writes(f, words, n, k, s)}
<1>1. SUFFICES ASSUME Bad # {} PROVE FALSE
  <2>1. len \in 0 .. len  OBVIOUS
  <2>2. QED  BY <2>1
<1>2. PICK k \in Bad : \A m \in Bad : k <= m
  <2>1. Bad \in SUBSET Nat  OBVIOUS
  <2> HIDE DEF Bad
  <2>2. QED  BY <1>1, <2>1, LeastOf
<1>3. CASE k = 0
  <2>1. Writes(f, words, n, 0, [i \in 0 .. 0 |-> f])
    BY DEF Writes
  <2>2. QED  BY <1>2, <1>3, <2>1
<1>4. CASE k # 0
  <2>1. k \in 1 .. len /\ k - 1 \in 0 .. len /\ k - 1 \notin Bad
    BY <1>2, <1>4
  <2>2. PICK s : Writes(f, words, n, k - 1, s)
    BY <2>1
  <2> DEFINE t == [i \in 0 .. k |-> IF i = k THEN WriteBytes(s[k - 1], words[k], n) ELSE s[i]]
  <2>3. Writes(f, words, n, k, t)
    <3>1. s[0] = f /\ \A i \in 1 .. k - 1 : s[i] = WriteBytes(s[i - 1], words[i], n)
      BY <2>2 DEF Writes
    <3>2. \A i \in 0 .. k - 1 : i \in 0 .. k /\ i # k /\ t[i] = s[i]
      BY <2>1
    <3>3. t = [i \in 0 .. k |-> t[i]]  OBVIOUS
    <3>4. k \in 0 .. k /\ 0 \in 0 .. k - 1 /\ k - 1 \in 0 .. k - 1  BY <2>1
    <3>5. t[k] = WriteBytes(s[k - 1], words[k], n)  BY <3>4
    <3> HIDE DEF t
    <3>6. t[0] = f /\ t[k] = WriteBytes(t[k - 1], words[k], n)
      BY <3>1, <3>2, <3>4, <3>5
    <3>7. ASSUME NEW i \in 1 .. k PROVE t[i] = WriteBytes(t[i - 1], words[i], n)
      <4>1. CASE i = k  BY <3>6, <4>1
      <4>2. CASE i # k
        <5>1. i \in 1 .. k - 1 /\ i \in 0 .. k - 1 /\ i - 1 \in 0 .. k - 1  BY <2>1, <4>2
        <5>2. QED  BY <3>1, <3>2, <5>1
      <4>3. QED  BY <4>1, <4>2
    <3>8. QED  BY <3>3, <3>6, <3>7 DEF Writes
  <2>4. QED  BY <1>2, <2>3
<1>5. QED  BY <1>3, <1>4

LEMMA WriteWordsAdds ==
  ASSUME NEW f \in WAV_t, f.file.open, NEW words \in Seq(Int), NEW n \in {2, 3}
  PROVE  Added(f, WriteWords(f, words, n), words, n, Len(words))
<1> DEFINE len == Len(words)
           Recurs(g) == g = [i \in 0 .. len |-> IF i = 0 THEN f ELSE WriteBytes(g[i - 1], words[i], n)]
<1>1. len \in Nat /\ \A i \in 1 .. len : words[i] \in Int  BY LenProperties, ElementOfSeq
<1>2. PICK s : Writes(f, words, n, len, s)  BY <1>1, WritesExist
<1>3. Recurs(s)
  <2>1. \A i \in 0 .. len : i = 0 \/ (i # 0 /\ i \in 1 .. len)  BY <1>1
  <2>2. s[0] = f /\ \A i \in 1 .. len : s[i] = WriteBytes(s[i - 1], words[i], n)
    BY <1>2 DEF Writes
  <2>3. \A i \in 0 .. len : s[i] = IF i = 0 THEN f ELSE WriteBytes(s[i - 1], words[i], n)
    BY <2>1, <2>2, Zenon
  <2>4. s = [i \in 0 .. len |-> s[i]]  BY <1>2 DEF Writes
  <2>5. QED  BY <2>3, <2>4, Zenon
<1> DEFINE g == CHOOSE g : Recurs(g)
           Bad == {i \in 0 .. len : ~Added(f, g[i], words, n, i)}
<1>4. WriteWords(f, words, n) = g[len]
  BY DEF WriteWords
<1>5. Recurs(g)  BY <1>3, Zenon
<1>6. g[0] = f /\ \A i \in 1 .. len : g[i] = WriteBytes(g[i - 1], words[i], n)
  <2>1. g = [i \in 0 .. len |-> IF i = 0 THEN f ELSE WriteBytes(g[i - 1], words[i], n)]  BY <1>5
  <2> HIDE DEF g, len
  <2>2. 0 \in 0 .. len /\ \A i \in 1 .. len : i \in 0 .. len /\ i # 0  BY <1>1
  <2>3. QED  BY <2>1, <2>2
<1> HIDE DEF g
<1>7. Added(f, f, words, n, 0)
  <2>1. f.file.data \in Seq(Nat) /\ f.writtenCount \in Nat  BY DEF WAV_t, File_t
  <2>2. n * 0 = 0 /\ Len(f.file.data) \in Nat  BY <2>1, LenProperties
  <2>3. \A k \in 1 .. 0, j \in 1 .. n : FALSE  OBVIOUS
  <2>4. f.writtenCount + n * 0 = f.writtenCount /\ Len(f.file.data) + n * 0 = Len(f.file.data)
    <3>1. CASE n = 2  BY <2>1, <2>2, <3>1
    <3>2. CASE n = 3  BY <2>1, <2>2, <3>2
    <3>3. QED  BY <3>1, <3>2
  <2>5. /\ f \in WAV_t /\ f.file.open
        /\ f.file.dataSize = f.file.dataSize /\ f.format = f.format /\ f.ByteShift = f.ByteShift
        /\ \A k \in 1 .. Len(f.file.data) : f.file.data[k] = f.file.data[k]
        /\ \A k \in 1 .. 0, j \in 1 .. n :
             f.file.data[Len(f.file.data) + n * (k - 1) + j] = LittleEndian(words[k], n)[j]
    BY <2>3
  <2>6. QED  BY <2>4, <2>5 DEF Added
<1>8. ASSUME Bad # {} PROVE FALSE
  <2>1. PICK i \in Bad : \A m \in Bad : i <= m
    <3>1. Bad \in SUBSET Nat  BY <1>1
    <3> HIDE DEF Bad
    <3>2. QED  BY <1>8, <3>1, LeastOf
  <2>2. i # 0  BY <1>6, <1>7, <2>1
  <2>3. i \in 1 .. len /\ i - 1 \in 0 .. len /\ i - 1 \in Nat /\ (i - 1) + 1 = i /\ i - 1 \notin Bad
    BY <1>1, <2>1, <2>2
  <2>4. Added(f, g[i - 1], words, n, i - 1)  BY <2>3
  <2>5. Added(f, WriteBytes(g[i - 1], words[(i - 1) + 1], n), words, n, (i - 1) + 1)
    BY <1>1, <2>3, <2>4, AddedOne
  <2>6. Added(f, g[i], words, n, i)  BY <1>6, <2>3, <2>5
  <2>7. QED  BY <2>1, <2>6
<1>9. QED  BY <1>1, <1>4, <1>8

-----------------------------------------------------------------------------
(* The WAV file of a handler: it is open while the handler lives, and counts *)
(* what is written; closed, its header has the count.                        *)
IsOpen(f) ==
  f \in WAV_t /\ f.file.open /\ f.file.dataSize = 0 /\ f.writtenCount = Len(f.file.data)

IsClosed(f) ==
  /\ f \in WAV_t /\ ~f.file.open
  /\ f.file.dataSize = Len(f.file.data) /\ f.file.fileSize = Len(f.file.data) + 36

OpenKinds == {"lpcm", "dts", "ac3", "samples"}

WavInv ==
  /\ wav \in WAV_t /\ wav.format.bits = 8 * wav.ByteShift
  /\ IsOpen(wav) \/ IsClosed(wav) \/ wav = NoWAV
  /\ kind \in OpenKinds => IsOpen(wav)
  /\ kind \in OpenKinds \ {"samples"} => wav.ByteShift = 2
  /\ kind = "gone" => ~wav.file.open
  /\ kind \notin OpenKinds \cup {"gone"} => wav = NoWAV

Own_t == [sample : Nat]

Burst_t == [words : Nat, length : Nat, dataType : 0 .. 14, payload : Int, exact : BOOLEAN]

MeantInv ==
  /\ meant \in Seq(Own_t) \cup Seq(Burst_t)
  /\ kind = "samples" => meant \in Seq(Own_t)
  /\ kind \notin {"samples", "gone"} => meant \in Seq(Burst_t)
  /\ kind = "ac3" => PES.at \in Seq(Nat) /\ PES.left = Len(PES.at)

(* The data of a program's file are its samples, in ByteShift bytes each. *)
OwnInv ==
  kind = "samples" \/ IsOwn =>
    /\ Len(wav.file.data) = wav.ByteShift * Len(meant)
    /\ \A k \in 1 .. Len(meant), j \in 1 .. wav.ByteShift :
         wav.file.data[wav.ByteShift * (k - 1) + j] = LittleEndian(meant[k].sample, wav.ByteShift)[j]

Reader_t ==
  [file : File_t, InputReady : BOOLEAN, bit_depth : {0, 16, 24}, num_samples : Nat,
   ReadCount : Nat, at : Nat, thrown : BOOLEAN]

ReadAs(depth, sample) ==
  IF depth = 16 THEN 65536 * Signed16(sample % 65536) ELSE Word(Reverse(LittleEndian(sample, 3)))

(* A reader reads a file that does not change any more, or nothing. *)
ReaderInv ==
  /\ reader \in Reader_t /\ returned \in Seq(Int)
  /\ reader = NoReader => returned = <<>>
  /\ reader # NoReader =>
       /\ kind \in {"samples", "gone"} /\ reader.ReadCount = reader.at
       /\ reader.file.open => reader.num_samples = 0
       /\ ~reader.file.open => kind = "gone" /\ reader.file = wav.file
       /\ reader.num_samples = 0 => returned = <<>>
       /\ reader.bit_depth = 0 => returned = <<>> /\ ~reader.thrown
       /\ reader.bit_depth # 0 =>
            reader.bit_depth = 8 * wav.ByteShift /\ reader.num_samples = reader.file.dataSize
       /\ ~reader.file.open /\ reader.bit_depth # 0 /\ IsOwn =>
            /\ reader.at = wav.ByteShift * Len(returned)
            /\ Len(returned) <= Len(meant)
            /\ \A i \in 1 .. Len(returned) : returned[i] = ReadAs(reader.bit_depth, meant[i].sample)
            /\ reader.thrown => Len(returned) = Len(meant)

-----------------------------------------------------------------------------
LEMMA WordsKeepOpen ==
  ASSUME NEW f, IsOpen(f), NEW words \in Seq(Int), NEW n \in {2, 3}
  PROVE  /\ IsOpen(WriteWords(f, words, n))
         /\ WriteWords(f, words, n).format = f.format /\ WriteWords(f, words, n).ByteShift = f.ByteShift
<1>1. Added(f, WriteWords(f, words, n), words, n, Len(words))
  BY WriteWordsAdds DEF IsOpen
<1>2. QED  BY <1>1 DEF Added, IsOpen

LEMMA CloseCloses ==
  ASSUME NEW f, IsOpen(f)
  PROVE  /\ IsClosed(Close(f)) /\ Close(Close(f)) = Close(f)
         /\ Close(f).format = f.format /\ Close(f).ByteShift = f.ByteShift
         /\ Close(f).file.data = f.file.data
<1>1. f \in WAV_t /\ f.file \in File_t /\ f.file.open /\ f.writtenCount = Len(f.file.data)
  BY DEF IsOpen, WAV_t
<1> DEFINE file == [f.file EXCEPT !.open = FALSE, !.dataSize = f.writtenCount,
                                  !.fileSize = f.writtenCount + 8 + 4 + 24]
           g == Close(f)
<1>2. g = [f EXCEPT !.file = file]
  BY <1>1 DEF Close
<1>3. /\ file \in File_t /\ ~file.open /\ file.data = f.file.data
      /\ file.dataSize = f.writtenCount /\ file.fileSize = f.writtenCount + 36
  <2> DEFINE n == f.writtenCount
             old == f.file
  <2>1. n \in Nat  BY <1>1 DEF WAV_t
  <2>2. n + 8 + 4 + 24 = n + 36 /\ n + 36 \in Nat  BY <2>1
  <2>3. old \in File_t  BY <1>1
  <2>4. file = [old EXCEPT !.open = FALSE, !.dataSize = n, !.fileSize = n + 36]  BY <2>2
  <2> HIDE DEF n, file, old
  <2>5. file \in File_t /\ ~file.open /\ file.data = old.data /\ file.dataSize = n /\ file.fileSize = n + 36
    BY <2>1, <2>2, <2>3, <2>4 DEF File_t
  <2>6. QED  BY <2>5 DEF n, old
<1> HIDE DEF file
<1>4. g \in WAV_t /\ g.file = file /\ g.format = f.format /\ g.ByteShift = f.ByteShift
  BY <1>1, <1>2, <1>3 DEF WAV_t
<1>5. g = [g EXCEPT !.file = g.file]
  <2> HIDE DEF g
  <2>1. QED  BY <1>4 DEF WAV_t
<1>6. Close(g) = g
  <2> HIDE DEF g
  <2>1. QED  BY <1>3, <1>4, <1>5 DEF Close
<1>7. QED  BY <1>1, <1>3, <1>4, <1>6 DEF IsClosed

LEMMA NewIsOpen ==
  ASSUME NEW depth \in {16, 20, 24}
  PROVE  LET f == NewWAVFile(wav_params(depth, 2, 48000))
         IN  /\ IsOpen(f) /\ f.format.bits = 8 * f.ByteShift /\ f.file.data = <<>>
             /\ f.ByteShift = IF depth = 16 THEN 2 ELSE 3
<1> DEFINE params == wav_params(depth, 2, 48000)
           shift  == ByteShift(params)
           format == WriteSimpleWAVChunk(params)
           f      == NewWAVFile(params)
<1>1. shift = (IF depth = 16 THEN 2 ELSE 3) /\ params.num_channels = 2 /\ params.SamplesPerSec = 48000
  BY DEF wav_params, ByteShift
<1>2. format \in Format_t /\ format.bits = 8 * shift
  <2>1. format = [chunk |-> 16, channels |-> params.num_channels, rate |-> params.SamplesPerSec,
                  bytesPerSec |-> params.SamplesPerSec * shift * params.num_channels,
                  blockAlign |-> shift * params.num_channels,
                  bits |-> 8 * shift]
    BY DEF WriteSimpleWAVChunk
  <2> HIDE DEF format, shift, params
  <2>2. shift \in {2, 3} /\ params.SamplesPerSec * shift * params.num_channels \in Nat
        /\ shift * params.num_channels \in Nat /\ 8 * shift \in {16, 24}
    BY <1>1
  <2>3. QED  BY <1>1, <2>1, <2>2 DEF Format_t
<1>3. f = [file |-> WriteRIFFChunk, format |-> format, ByteShift |-> shift, writtenCount |-> 0]
  BY DEF NewWAVFile
<1>4. WriteRIFFChunk \in File_t /\ WriteRIFFChunk.open /\ WriteRIFFChunk.dataSize = 0
      /\ WriteRIFFChunk.data = <<>>
  BY DEF WriteRIFFChunk, File_t
<1> HIDE DEF format, shift
<1>5. shift \in {2, 3} BY <1>1
<1>6. f \in WAV_t /\ f.file = WriteRIFFChunk /\ f.format = format /\ f.ByteShift = shift /\ f.writtenCount = 0
  BY <1>2, <1>3, <1>4, <1>5 DEF WAV_t
<1> HIDE DEF f, params
<1>7. IsOpen(f) BY <1>4, <1>6 DEF IsOpen
<1>8. QED  BY <1>1, <1>2, <1>4, <1>6, <1>7 DEF f, params

LEMMA NoWAVIs ==
  NoWAV \in WAV_t /\ ~NoWAV.file.open /\ NoWAV.format.bits = 8 * NoWAV.ByteShift /\ NoWAV.file.data = <<>>
<1> DEFINE f == NewWAVFile(wav_params(16, 2, 48000))
<1>1. IsOpen(f) /\ f.format.bits = 8 * f.ByteShift /\ f.file.data = <<>>  BY NewIsOpen
<1>2. NoWAV = [f EXCEPT !.file = [f.file EXCEPT !.open = FALSE]]
  BY DEF NoWAV, NewWAVFile
<1> HIDE DEF f
<1>3. f \in WAV_t  BY <1>1 DEF IsOpen
<1>4. [f.file EXCEPT !.open = FALSE] \in File_t /\ ~[f.file EXCEPT !.open = FALSE].open
      /\ [f.file EXCEPT !.open = FALSE].data = <<>>
  BY <1>1, <1>3 DEF File_t, WAV_t
<1>5. QED  BY <1>1, <1>2, <1>3, <1>4 DEF WAV_t

(* m words c; none if m is negative. *)
AreAll(words, m, c) ==
  /\ words \in Seq(Int) /\ Len(words) = IF m > 0 THEN m ELSE 0
  /\ \A i \in 1 .. m : words[i] = c

LEMMA SameWords ==
  ASSUME NEW m \in Int, NEW c \in Int
  PROVE  AreAll([i \in 1 .. m |-> c], m, c)
<1> DEFINE words == [i \in 1 .. m |-> c]
<1>1. CASE m \in Nat
  <2>1. words \in Seq(Int) /\ Len(words) = m /\ \A i \in 1 .. m : words[i] = c  BY <1>1
  <2> HIDE DEF words
  <2>2. AreAll(words, m, c)  BY <1>1, <2>1 DEF AreAll
  <2>3. QED  BY <2>2 DEF words
<1>2. CASE m \notin Nat
  <2>1. 1 .. m = 1 .. 0  BY <1>2
  <2>2. words = [i \in 1 .. 0 |-> c]  BY <2>1
  <2>3. [i \in 1 .. 0 |-> c] \in Seq(Int) /\ Len([i \in 1 .. 0 |-> c]) = 0  OBVIOUS
  <2>4. words \in Seq(Int) /\ Len(words) = 0  BY <2>2, <2>3
  <2> HIDE DEF words
  <2>5. ~(m > 0) /\ \A i \in 1 .. m : FALSE  BY <1>2
  <2>6. AreAll(words, m, c)  BY <2>4, <2>5 DEF AreAll
  <2>7. QED  BY <2>6 DEF words
<1>3. QED  BY <1>1, <1>2

(* A burst has its header, payload and padding. *)
IsBurst(burst, header, m, words) ==
  /\ burst \in Seq(Int)
  /\ m \in Nat /\ 4 + m <= words =>
       /\ Len(burst) = words
       /\ \A i \in 1 .. 4 : burst[i] = header[i]
       /\ \A i \in 5 .. words : burst[i] = IF i <= 4 + m THEN 1 ELSE 0

LEMMA BurstIs ==
  ASSUME NEW header \in Seq(Int), Len(header) = 4, NEW m \in Int, NEW words \in Int
  PROVE  IsBurst(Burst(header, Payload(m), words), header, m, words)
<1> DEFINE load == Payload(m)
           rest == words - Len(header) - Len(load)
           pad  == [i \in 1 .. rest |-> 0]
           first == header \o load
           all == first \o pad
<1>1. load \in Seq(Int) /\ Len(load) = (IF m > 0 THEN m ELSE 0) /\ \A i \in 1 .. m : load[i] = 1
  <2>0. 1 \in Int  OBVIOUS
  <2>1. AreAll(load, m, 1)  BY <2>0, SameWords, Zenon DEF Payload
  <2> HIDE DEF load
  <2>2. QED  BY <2>1 DEF AreAll
<1>2. Burst(header, load, words) = all  BY DEF Burst
<1> HIDE DEF load
<1>3. rest \in Int /\ Len(load) \in Nat  BY <1>1
<1>4. pad \in Seq(Int) /\ Len(pad) = (IF rest > 0 THEN rest ELSE 0) /\ \A i \in 1 .. rest : pad[i] = 0
  <2> HIDE DEF rest
  <2>0. 0 \in Int  OBVIOUS
  <2>1. AreAll(pad, rest, 0)  BY <1>3, <2>0, SameWords, Zenon
  <2> HIDE DEF pad
  <2>2. QED  BY <2>1 DEF AreAll
<1> HIDE DEF pad
<1>5. /\ first \in Seq(Int) /\ Len(first) = 4 + Len(load)
      /\ \A i \in 1 .. 4 + Len(load) : first[i] = IF i <= 4 THEN header[i] ELSE load[i - 4]
  <2>1. /\ first \in Seq(Int) /\ Len(first) = Len(header) + Len(load)
        /\ \A i \in 1 .. Len(header) + Len(load) :
             first[i] = IF i <= Len(header) THEN header[i] ELSE load[i - Len(header)]
    BY <1>1, ConcatProperties, Zenon
  <2> HIDE DEF first
  <2>2. QED  BY <2>1
<1> HIDE DEF first
<1>6. /\ all \in Seq(Int) /\ Len(all) = Len(first) + Len(pad)
      /\ \A i \in 1 .. Len(first) + Len(pad) :
           all[i] = IF i <= Len(first) THEN first[i] ELSE pad[i - Len(first)]
  BY <1>4, <1>5, ConcatProperties
<1> HIDE DEF all
<1>7. ASSUME m \in Nat, 4 + m <= words
      PROVE  /\ Len(all) = words
             /\ \A i \in 1 .. 4 : all[i] = header[i]
             /\ \A i \in 5 .. words : all[i] = IF i <= 4 + m THEN 1 ELSE 0
  <2>1. Len(load) = m /\ Len(first) = 4 + m /\ rest = words - 4 - m /\ rest \in Nat
        /\ Len(pad) = rest /\ Len(first) + Len(pad) = words /\ Len(all) = words
    <3>1. Len(load) = m /\ Len(first) = 4 + m
      BY <1>1, <1>5, <1>7
    <3>2. rest = words - 4 - m /\ rest \in Nat  BY <1>7, <3>1
    <3> HIDE DEF rest
    <3>3. Len(pad) = rest  BY <1>4, <3>2
    <3>4. QED  BY <1>6, <1>7, <3>1, <3>2, <3>3
  <2> HIDE DEF rest
  <2>2. ASSUME NEW i \in 1 .. 4 PROVE all[i] = header[i]
    <3>1. i \in 1 .. words /\ i <= 4 + m /\ i \in 1 .. 4 + m /\ i <= 4  BY <1>7
    <3>2. QED  BY <1>5, <1>6, <2>1, <3>1
  <2>3. ASSUME NEW i \in 5 .. words PROVE all[i] = IF i <= 4 + m THEN 1 ELSE 0
    <3>1. i \in 1 .. words /\ ~(i <= 4)  BY <1>7
    <3>2. CASE i <= 4 + m
      <4>1. i \in 1 .. 4 + m /\ i - 4 \in 1 .. m  BY <1>7, <3>2
      <4>2. QED  BY <1>1, <1>5, <1>6, <2>1, <3>1, <3>2, <4>1
    <3>3. CASE ~(i <= 4 + m)
      <4>1. i - (4 + m) \in 1 .. rest  BY <1>7, <2>1, <3>3
      <4>2. QED  BY <1>4, <1>6, <2>1, <3>1, <3>3, <4>1
    <3>4. QED  BY <3>2, <3>3
  <2>4. QED  BY <2>1, <2>2, <2>3
<1>8. QED  BY <1>2, <1>6, <1>7 DEF load, IsBurst

LEMMA HeaderIs ==
  ASSUME NEW dataType \in 0 .. 14, NEW length \in Nat
  PROVE  /\ AES_Header(16, dataType, length) \in Seq(Int) /\ Len(AES_Header(16, dataType, length)) = 4
         /\ \A i \in 1 .. 4 : AES_Header(16, dataType, length)[i] \in Int
<1> DEFINE a == \hF872
           b == \h4E1F
           c == 16 * length
           h == AES_Header(16, dataType, length)
<1>1. h = <<a, b, dataType, c>>  BY DEF AES_Header
<1>2. a \in Int /\ b \in Int /\ dataType \in Int /\ c \in Int  OBVIOUS
<1> HIDE DEF a, b, c, h
<1>3. h \in Seq(Int) /\ Len(h) = 4  BY <1>1, <1>2
<1>4. \A i \in 1 .. 4 : h[i] \in Int  BY <1>3, ElementOfSeq
<1>5. QED  BY <1>3, <1>4 DEF h

(* What the handlers write are words. *)
LEMMA FrameWords ==
  ASSUME PESInv, DecodeDTSFrame, kind = "dts"
  PROVE  LET f     == Head(PES.at)
             words == Copied(f, PES.left)
             odd   == IF HasOddWord(f, PES.left) THEN 1 ELSE 0
             long  == IF IsLong(f, PES.left) THEN 1 ELSE 0
         IN  /\ f \in DTSFrame_t /\ words + odd \in Int /\ 2 * f.pairs \in Nat /\ 2 * f.pairs + long \in Int
             /\ DataType(f.pairs) \in 0 .. 14
<1> DEFINE f     == Head(PES.at)
           words == Copied(f, PES.left)
           odd   == IF HasOddWord(f, PES.left) THEN 1 ELSE 0
           long  == IF IsLong(f, PES.left) THEN 1 ELSE 0
<1>1. f \in DTSFrame_t /\ words \in Int /\ odd \in {0, 1}  BY DTSFrameEffect
<1>2. long \in {0, 1}  OBVIOUS
<1>3. f.pairs \in Nat  BY <1>1 DEF DTSFrame_t
<1> HIDE DEF f, words, odd, long
<1>4. DataType(f.pairs) \in 0 .. 14
  <2>1. DOMAIN DTSTypes = 1 .. 3  BY OutputAssumption, LenProperties
  <2>2. CASE \E i \in DOMAIN DTSTypes : DTSTypes[i] = f.pairs
    <3> DEFINE i == CHOOSE i \in DOMAIN DTSTypes : DTSTypes[i] = f.pairs
    <3>1. i \in DOMAIN DTSTypes  BY <2>2, Zenon
    <3>2. DataType(f.pairs) = 10 + i  BY <2>2 DEF DataType
    <3> HIDE DEF i
    <3>3. QED  BY <2>1, <3>1, <3>2
  <2>3. CASE ~\E i \in DOMAIN DTSTypes : DTSTypes[i] = f.pairs
    BY <2>3 DEF DataType
  <2>4. QED  BY <2>2, <2>3
<1>5. words + odd \in Int /\ 2 * f.pairs \in Nat /\ 2 * f.pairs + long \in Int
  BY <1>1, <1>2, <1>3
<1>6. QED  BY <1>1, <1>4, <1>5 DEF f, words, odd, long

(* The words that a step writes, in the bytes of a sample of 16 bits. *)
Wrote(words) ==
  words \in Seq(Int) /\ kind \in OpenKinds /\ wav' = WriteWords(wav, words, 2)

LEMMA LPCMWrites ==
  ASSUME WavInv, DecodeLPCMFrame
  PROVE  wav' = wav \/ \E words : Wrote(words)
<1>1. PICK header \in LPCMHeaders :
        wav' = wav \/ wav' = WriteSamples(wav, [i \in 1 .. LPCMSamples(header) |-> 0])
  BY DEF DecodeLPCMFrame
<1> DEFINE samples == LPCMSamples(header)
           words == [i \in 1 .. samples |-> 0]
<1>2. samples \in Int
  <2>1. header.audioPacketSize \in Nat /\ header.numChannels \in Nat \ {0} /\ header.bitDepth \in {16, 20, 24}
    BY OutputAssumption
  <2> DEFINE a == header.audioPacketSize
             b == header.numChannels
             c == header.bitDepth + 4 + 7 \div 8
             d == b * c
  <2>2. 7 \div 8 = 0  OBVIOUS
  <2>3. c \in Nat /\ c > 0  BY <2>1, <2>2
  <2>4. samples = 2 * (a \div d)  BY DEF LPCMSamples, NumStereoPairsStuffed
  <2> HIDE DEF a, c, samples
  <2>5. b \in Nat /\ b > 0  BY <2>1
  <2> HIDE DEF b
  <2>6. d \in Nat /\ d > 0  BY <2>3, <2>5, Z3
  <2>7. a \in Nat BY <2>1 DEF a
  <2> HIDE DEF d
  <2>8. a \div d \in Int  BY <2>6, <2>7
  <2>9. QED  BY <2>4, <2>8
<1> HIDE DEF samples
<1>3. words \in Seq(Int)
  <2>1. 0 \in Int  OBVIOUS
  <2>2. AreAll(words, samples, 0)  BY <1>2, <2>1, SameWords, Zenon
  <2>3. QED  BY <2>2 DEF AreAll
<1>4. kind = "lpcm" /\ wav.ByteShift = 2  BY DEF DecodeLPCMFrame, WavInv, OpenKinds
<1>5. WriteSamples(wav, words) = WriteWords(wav, words, 2)  BY <1>4 DEF WriteSamples
<1>6. wav' = wav \/ wav' = WriteWords(wav, words, 2)  BY <1>1, <1>5 DEF samples
<1> HIDE DEF words
<1>7. QED  BY <1>3, <1>4, <1>6 DEF Wrote, OpenKinds

(* The burst that a step writes, of type, payload m and the words given: n   *)
(* are its spacing, and length is what it announces.                         *)
BurstWrote(type, m, n, length, words, exact) ==
  /\ type \in 0 .. 14 /\ m \in Int /\ n \in Nat /\ length \in Nat
  /\ Wrote(Burst(AES_Header(16, type, length), Payload(m), words))
  /\ exact \in BOOLEAN /\ (exact => words = n /\ m \in Nat /\ 4 + m <= words)
  /\ meant' = Append(meant, [words |-> n, length |-> length, dataType |-> type, payload |-> m, exact |-> exact])

LEMMA DTSWrites ==
  ASSUME PESInv, WavInv, DecodeDTSFrame
  PROVE  LET f     == Head(PES.at)
             odd   == IF HasOddWord(f, PES.left) THEN 1 ELSE 0
         IN  \E words \in Int :
               BurstWrote(DataType(f.pairs), Copied(f, PES.left) + odd, 2 * f.pairs, 2 * f.pairs, words, IsClean(f))
<1> DEFINE f     == Head(PES.at)
           words == Copied(f, PES.left)
           odd   == IF HasOddWord(f, PES.left) THEN 1 ELSE 0
           long  == IF IsLong(f, PES.left) THEN 1 ELSE 0
           type  == DataType(f.pairs)
           m     == words + odd
           n     == 2 * f.pairs
           header == AES_Header(16, type, n)
<1>0. kind = "dts" /\ ~Idle /\ kind \in OpenKinds /\ wav.ByteShift = 2  BY DEF DecodeDTSFrame, WavInv, OpenKinds
<1>1. f \in DTSFrame_t /\ m \in Int /\ n \in Nat /\ n + long \in Int /\ type \in 0 .. 14
  BY <1>0, FrameWords
<1>2. /\ wav' = WriteSamples(wav, Burst(header, Payload(m), n + long))
      /\ meant' = Append(meant, [words |-> n, length |-> n, dataType |-> type, payload |-> m, exact |-> IsClean(f)])
  BY DEF DecodeDTSFrame
<1>3. header \in Seq(Int) /\ Len(header) = 4
  <2> HIDE DEF type, n
  <2>1. type \in 0 .. 14 /\ n \in Nat  BY <1>1
  <2>2. QED  BY <2>1, HeaderIs, ZenonT(40)
<1>4. ASSUME IsClean(f)
      PROVE  n + long = n /\ m \in Nat /\ 4 + m <= n
  <2>1. PES.left \in Int  BY <1>0 DEF PESInv, IsDTSPacket
  <2>2. f.pairs \in Nat /\ f.size \in Nat  BY <1>1 DEF DTSFrame_t
  <2> DEFINE left == PES.left
             size == f.size
             room == 2 * f.pairs - 4
             copied == IF left >= 0 /\ size > left THEN (left + 1) \div 2 ELSE size \div 2
  <2>3. words = (IF copied < room THEN copied ELSE room)  BY DEF Copied, Least
  <2>4. ~Odd(size) /\ size \div 2 < room  BY <1>4 DEF IsClean, IsPlain
  <2>5. odd = 0  BY <2>4 DEF HasOddWord
  <2>6. n = room + 4  BY <2>2
  <2>7. IsLong(f, left) = (HasOddWord(f, left) \/ 4 + words = n)  BY DEF IsLong
  <2>8. ~HasOddWord(f, left)  BY <2>4 DEF HasOddWord
  <2>9. room \in Int  BY <2>2
  <2> HIDE DEF size, room, words, left
  <2>10. size \in Nat /\ left \in Int  BY <2>1, <2>2 DEF size, left
  <2>11. copied \in Nat /\ copied <= size \div 2
    <3>1. \A a, b \in Nat : a <= b => a \div 2 \in Nat /\ a \div 2 <= b \div 2  OBVIOUS
    <3>2. CASE left >= 0 /\ size > left
      <4>1. copied = (left + 1) \div 2 /\ left + 1 <= size /\ left + 1 \in Nat  BY <2>10, <3>2
      <4>2. QED  BY <2>10, <3>1, <4>1
    <3>3. CASE ~(left >= 0 /\ size > left)  BY <2>10, <3>1, <3>3
    <3>4. QED  BY <3>2, <3>3
  <2>12. size \div 2 \in Nat  BY <2>10
  <2> HIDE DEF copied, n, odd
  <2>13. words = copied /\ words < room /\ words \in Nat  BY <2>3, <2>4, <2>9, <2>11, <2>12
  <2>14. 4 + words # n /\ n \in Int /\ 4 + words <= n  BY <2>6, <2>9, <2>13
  <2>15. long = 0  BY <2>7, <2>8, <2>14 DEF left
  <2> HIDE DEF long
  <2>16. QED  BY <2>5, <2>13, <2>14, <2>15
<1>11. IsClean(f) \in BOOLEAN  BY DEF IsClean, IsPlain
<1>5. WriteSamples(wav, Burst(header, Payload(m), n + long)) = WriteWords(wav, Burst(header, Payload(m), n + long), 2)
  BY <1>0 DEF WriteSamples
<1> HIDE DEF f, m, n, long, type, header
<1>6. Burst(header, Payload(m), n + long) \in Seq(Int)  BY <1>1, <1>3, BurstIs, Zenon DEF IsBurst
<1>7. Wrote(Burst(header, Payload(m), n + long))  BY <1>0, <1>2, <1>5, <1>6 DEF Wrote
<1>8. BurstWrote(type, m, n, n, n + long, IsClean(f))
  BY <1>1, <1>2, <1>3, <1>4, <1>7, <1>11 DEF BurstWrote, header
<1>9. QED  BY <1>1, <1>8 DEF f, m, n, type

LEMMA AC3Writes ==
  ASSUME WavInv, MeantInv, WriteAC3Frame
  PROVE  \E m \in Int, length \in Nat : BurstWrote(1, m, NumSubFrames, length, NumSubFrames, TRUE)
<1> DEFINE words  == Head(PES.at)
           copied == Least(words, NumSubFrames - 4)
           header == AES_Header(16, 1, words)
           n      == NumSubFrames
<1>1. kind = "ac3" /\ kind \in OpenKinds /\ wav.ByteShift = 2 /\ ~Idle
  BY DEF WriteAC3Frame, WavInv, OpenKinds
<1>2. words \in Nat
  <2>1. PES.at \in Seq(Nat) /\ PES.at # <<>>
    BY <1>1 DEF MeantInv, Idle
  <2>2. QED  BY <2>1, HeadTailProperties
<1>3. n \in Nat /\ n >= 4  BY OutputAssumption DEF NumSubFrames
<1> HIDE DEF words, n
<1>4. /\ wav' = WriteSamples16(wav, Burst(header, Payload(copied), n))
      /\ meant' = Append(meant, [words |-> n, length |-> words, dataType |-> 1, payload |-> copied, exact |-> TRUE])
  BY DEF WriteAC3Frame, words, n
<1>5. copied \in Nat /\ 4 + copied <= n  BY <1>2, <1>3 DEF Least, n
<1>6. 1 \in 0 .. 14  OBVIOUS
<1>7. header \in Seq(Int) /\ Len(header) = 4
  BY <1>2, <1>6, HeaderIs
<1> HIDE DEF copied, header
<1>8. copied \in Int /\ n \in Int  BY <1>3, <1>5
<1>9. Burst(header, Payload(copied), n) \in Seq(Int)  BY <1>7, <1>8, BurstIs, Zenon DEF IsBurst
<1>10. Wrote(Burst(header, Payload(copied), n))  BY <1>1, <1>4, <1>9 DEF Wrote, WriteSamples16
<1>11. BurstWrote(1, copied, n, words, n, TRUE)
  BY <1>2, <1>3, <1>4, <1>5, <1>6, <1>8, <1>10 DEF BurstWrote, header
<1>12. QED  BY <1>2, <1>8, <1>11 DEF n

LEMMA WroteKeeps ==
  ASSUME WavInv, NEW words, Wrote(words), kind' = kind
  PROVE  WavInv'
<1>1. IsOpen(wav) /\ words \in Seq(Int) /\ wav' = WriteWords(wav, words, 2) /\ kind \in OpenKinds
  BY DEF Wrote, WavInv
<1>2. IsOpen(wav') /\ wav'.format = wav.format /\ wav'.ByteShift = wav.ByteShift
  BY <1>1, WordsKeepOpen
<1>3. kind # "gone" BY <1>1 DEF OpenKinds
<1>4. wav' \in WAV_t  BY <1>2 DEF IsOpen
<1>5. IsOpen(wav)' BY <1>2 DEF IsOpen
<1>6. QED  BY <1>1, <1>2, <1>3, <1>4, <1>5 DEF WavInv

LEMMA WavStep ==
  ASSUME PESInv, WavInv, MeantInv, OutputNext
  PROVE  WavInv'
<1>1. CASE UNCHANGED <<kind, wav>>
  BY <1>1 DEF WavInv, IsOpen, IsClosed
<1>2. CASE DecodeLPCMFrame
  <2>1. kind' = kind  BY <1>2 DEF DecodeLPCMFrame
  <2>2. QED  BY <1>1, <1>2, <2>1, LPCMWrites, WroteKeeps
<1>3. CASE DecodeDTSFrame
  <2>1. kind' = kind  BY <1>3 DEF DecodeDTSFrame
  <2>2. \E words : Wrote(words)  BY <1>3, DTSWrites DEF BurstWrote
  <2>3. QED  BY <2>1, <2>2, WroteKeeps
<1>4. CASE WriteAC3Frame
  <2>1. kind' = kind  BY <1>4 DEF WriteAC3Frame
  <2>2. \E words : Wrote(words)  BY <1>4, AC3Writes DEF BurstWrote
  <2>3. QED  BY <2>1, <2>2, WroteKeeps
<1>5. CASE WriteOwnSample
  <2>1. PICK sample \in Samples : wav' = WriteSample(wav, sample)
    BY <1>5 DEF WriteOwnSample
  <2>2. kind = "samples" /\ kind' = kind  BY <1>5 DEF WriteOwnSample
  <2>3. IsOpen(wav) /\ wav.ByteShift \in {2, 3} /\ sample \in Int
    BY <2>2, OutputAssumption DEF WavInv, OpenKinds, IsOpen, WAV_t
  <2>4. OneAdded(wav, wav', sample, wav.ByteShift)
    BY <2>1, <2>3, WriteBytesAdds DEF WriteSample, IsOpen
  <2>5. IsOpen(wav') /\ wav'.format = wav.format /\ wav'.ByteShift = wav.ByteShift
    BY <2>3, <2>4 DEF OneAdded, IsOpen
  <2>6. IsOpen(wav)' /\ wav' \in WAV_t  BY <2>5 DEF IsOpen
  <2>7. QED  BY <2>2, <2>5, <2>6 DEF WavInv, OpenKinds
<1>6. CASE DestroyDump
  <2>1. wav' = wav /\ kind' = "gone" /\ wav = NoWAV
    BY <1>6 DEF DestroyDump, WavInv, OpenKinds
  <2>2. QED  BY <2>1, NoWAVIs DEF WavInv, OpenKinds, IsOpen, IsClosed
<1>7. CASE DestroyWriter
  <2>1. kind \in WAVKinds /\ kind' = "gone"
        /\ wav' = IF kind = "ac3" THEN Close(Close(wav)) ELSE Close(wav)
    BY <1>7 DEF DestroyWriter
  <2>2. CASE kind = "eac3"
    <3>1. wav = NoWAV /\ wav' = Close(wav)  BY <2>1, <2>2 DEF WavInv, OpenKinds
    <3>2. wav' = wav
      <4>1. wav \in WAV_t /\ ~wav.file.open  BY <3>1, NoWAVIs
      <4>2. wav' = [wav EXCEPT !.file = wav.file]  BY <3>1, <4>1 DEF Close
      <4>3. QED  BY <4>1, <4>2 DEF WAV_t
    <3>3. QED  BY <2>1, <3>1, <3>2, NoWAVIs DEF WavInv, OpenKinds, IsOpen, IsClosed
  <2>3. CASE kind # "eac3"
    <3>1. IsOpen(wav) BY <2>1, <2>3 DEF WAVKinds, OpenKinds, WavInv
    <3>2. IsClosed(wav') /\ wav'.format = wav.format /\ wav'.ByteShift = wav.ByteShift
      BY <2>1, <3>1, CloseCloses
    <3>3. IsClosed(wav)' /\ wav' \in WAV_t /\ ~wav'.file.open  BY <3>2 DEF IsClosed
    <3>4. QED  BY <2>1, <3>2, <3>3 DEF WavInv, OpenKinds
  <2>4. QED  BY <2>2, <2>3
<1>8. CASE LPCMDecode \/ DTSDecode \/ DTSMetadataOverrun \/ NoDTSSync \/ AC3PESDecode \/ EAC3PESDecode
           \/ NoAC3Range \/ DumpPESDecode \/ SwitchDebug \/ OpenReader \/ ReadOwnSample
  BY <1>1, <1>8
  DEF LPCMDecode, DTSDecode, DTSMetadataOverrun, NoDTSSync, AC3PESDecode, EAC3PESDecode, NoAC3Range,
      DumpPESDecode, SwitchDebug, OpenReader, ReadOwnSample
<1>9. QED
  BY <1>2, <1>3, <1>4, <1>5, <1>6, <1>7, <1>8 DEF OutputNext

LEMMA BurstIsMeant ==
  ASSUME MeantInv, kind # "samples", kind # "gone", kind' = kind,
         NEW type, NEW m, NEW n, NEW length, NEW words, NEW exact, BurstWrote(type, m, n, length, words, exact),
         kind = "ac3" => PES'.at \in Seq(Nat) /\ PES'.left = Len(PES'.at)
  PROVE  MeantInv'
<1> DEFINE burst == [words |-> n, length |-> length, dataType |-> type, payload |-> m, exact |-> exact]
<1>1. burst \in Burst_t /\ meant' = Append(meant, burst)
  BY DEF BurstWrote, Burst_t
<1>2. meant \in Seq(Burst_t)  BY DEF MeantInv
<1> HIDE DEF burst
<1>3. meant' \in Seq(Burst_t)  BY <1>1, <1>2, AppendProperties
<1>4. QED  BY <1>3 DEF MeantInv

LEMMA MeantStep ==
  ASSUME PESInv, WavInv, MeantInv, OutputNext
  PROVE  MeantInv'
<1>1. CASE UNCHANGED meant /\ kind' \in {kind, "gone"} /\ (kind' = "ac3" => UNCHANGED PES)
  BY <1>1 DEF MeantInv
<1>2. CASE DecodeDTSFrame
  <2>1. kind' = kind /\ kind = "dts"  BY <1>2 DEF DecodeDTSFrame
  <2>2. \E type, m, n, length, words, exact : BurstWrote(type, m, n, length, words, exact)  BY <1>2, DTSWrites
  <2>3. QED  BY <2>1, <2>2, BurstIsMeant
<1>3. CASE WriteAC3Frame
  <2>1. kind' = kind /\ kind = "ac3" /\ ~Idle
    BY <1>3 DEF WriteAC3Frame
  <2>2. \E type, m, n, length, words, exact : BurstWrote(type, m, n, length, words, exact)  BY <1>3, AC3Writes
  <2>3. PES'.at \in Seq(Nat) /\ PES'.left = Len(PES'.at)
    <3>1. PES.at \in Seq(Nat) /\ PES.left = Len(PES.at) /\ PES.at # <<>>  BY <2>1 DEF MeantInv, Idle
    <3>2. Tail(PES.at) \in Seq(Nat) /\ Len(Tail(PES.at)) = Len(PES.at) - 1  BY <3>1, HeadTailProperties
    <3>3. PES'.at = Tail(PES.at) /\ PES'.left = PES.left - 1
      BY <1>3 DEF WriteAC3Frame, PESInv, IsPES
    <3>4. QED  BY <3>1, <3>2, <3>3
  <2>4. QED  BY <2>1, <2>2, <2>3, BurstIsMeant
<1>4. CASE AC3PESDecode
  <2>1. PICK n \in 0 .. 2 : \E frames \in [1 .. n -> AC3Frames] :
          PES' = [PES EXCEPT !.at = frames, !.left = Len(frames), !.taken = @ + 1]
    BY <1>4, ZenonT(40) DEF AC3PESDecode
  <2>2. PICK frames \in [1 .. n -> AC3Frames] :
          PES' = [PES EXCEPT !.at = frames, !.left = Len(frames), !.taken = @ + 1]
    BY <2>1
  <2>3. frames \in Seq(Nat)
    <3>1. frames \in [1 .. n -> Nat] /\ n \in Nat  BY <2>1, <2>2, OutputAssumption
    <3>2. QED  BY <3>1
  <2>4. PES'.at = frames /\ PES'.left = Len(frames)
    <3> DEFINE count == Len(frames)
    <3>1. PES' = [PES EXCEPT !.at = frames, !.left = count, !.taken = PES.taken + 1]  BY <2>2
    <3>2. IsPES(PES)  BY DEF PESInv
    <3> HIDE DEF count
    <3>3. PES'.at = frames /\ PES'.left = count  BY <3>1, <3>2 DEF IsPES
    <3>4. QED  BY <3>3 DEF count
  <2>5. UNCHANGED <<kind, meant>>  BY <1>4 DEF AC3PESDecode
  <2>6. QED  BY <2>3, <2>4, <2>5 DEF MeantInv
<1>5. CASE WriteOwnSample
  <2>1. PICK sample \in Samples : meant' = Append(meant, [sample |-> sample])
    BY <1>5 DEF WriteOwnSample
  <2>2. kind = "samples" /\ kind' = kind /\ meant \in Seq(Own_t)  BY <1>5 DEF WriteOwnSample, MeantInv
  <2>3. [sample |-> sample] \in Own_t  BY OutputAssumption DEF Own_t
  <2>4. meant' \in Seq(Own_t)  BY <2>1, <2>2, <2>3, AppendProperties
  <2>5. QED  BY <2>2, <2>4 DEF MeantInv
<1>6. CASE LPCMDecode \/ DecodeLPCMFrame \/ DTSDecode \/ DTSMetadataOverrun \/ NoDTSSync \/ EAC3PESDecode
           \/ DumpPESDecode
  BY <1>1, <1>6
  DEF LPCMDecode, DecodeLPCMFrame, DTSDecode, DTSMetadataOverrun, NoDTSSync, EAC3PESDecode, DumpPESDecode
<1>9. CASE NoAC3Range
  <2>1. PICK size : PES' = [PES EXCEPT !.size = size, !.taken = @ + 1]  BY <1>9 DEF NoAC3Range
  <2>2. IsPES(PES)  BY DEF PESInv
  <2>3. PES'.at = PES.at /\ PES'.left = PES.left  BY <2>1, <2>2 DEF IsPES
  <2>4. UNCHANGED <<kind, meant>>  BY <1>9 DEF NoAC3Range
  <2>5. QED  BY <2>3, <2>4 DEF MeantInv
<1>7. CASE SwitchDebug \/ DestroyDump \/ DestroyWriter \/ OpenReader \/ ReadOwnSample
  BY <1>1, <1>7 DEF SwitchDebug, DestroyDump, DestroyWriter, OpenReader, ReadOwnSample
<1>8. QED
  BY <1>2, <1>3, <1>4, <1>5, <1>6, <1>7, <1>9 DEF OutputNext

(* What opening a reader of a file sets. *)
LEMMA SimpleReader ==
  ASSUME NEW f \in WAV_t
  PROVE  LET r == ReadSimpleChunk(f)
         IN  /\ r \in Reader_t /\ r.file = f.file /\ r.InputReady /\ r.bit_depth = f.format.bits
             /\ r.num_samples = f.file.dataSize /\ r.ReadCount = 0 /\ r.at = 0 /\ ~r.thrown
<1>1. f.file \in File_t /\ f.format.bits \in {16, 24}  BY DEF WAV_t, Format_t
<1>2. f.file.dataSize \in Nat  BY <1>1 DEF File_t
<1>3. QED  BY <1>1, <1>2 DEF ReadSimpleChunk, Reader_t

LEMMA NoReaderIs ==
  NoReader \in Reader_t /\ ~NoReader.InputReady /\ ~NoReader.thrown /\ NoReader.bit_depth # 0
<1> DEFINE r == ReadSimpleChunk(NoWAV)
<1>1. r \in Reader_t /\ ~r.thrown /\ r.bit_depth \in {16, 24}
  BY SimpleReader, NoWAVIs DEF WAV_t, Format_t
<1>2. NoReader = [r EXCEPT !.InputReady = FALSE]  BY DEF NoReader
<1> HIDE DEF r
<1>3. NoReader \in Reader_t /\ ~NoReader.InputReady /\ NoReader.thrown = r.thrown /\ NoReader.bit_depth = r.bit_depth
  BY <1>1, <1>2 DEF Reader_t
<1>4. QED  BY <1>1, <1>3

LEMMA WavStart ==
  ASSUME OutputInit
  PROVE  WavInv /\ MeantInv /\ OwnInv /\ ReaderInv
<1>1. PICK depth \in IF kind = "samples" THEN {16, 20, 24} ELSE {16} :
        wav = IF kind \in WAVKinds \ {"eac3"} THEN NewWAVFile(wav_params(depth, 2, 48000)) ELSE NoWAV
  BY DEF OutputInit
<1>2. meant = <<>> /\ returned = <<>> /\ reader = NoReader /\ PES.at = <<>> /\ PES.left = 0 /\ kind \in Kinds
  BY DEF OutputInit, NoPES
<1>3. WavInv /\ wav.file.data = <<>> /\ wav.ByteShift \in {2, 3} /\ wav.file \in File_t
  <2>1. CASE kind \in WAVKinds \ {"eac3"}
    <3>1. depth \in {16, 20, 24} /\ (kind # "samples" => depth = 16)
          /\ wav = NewWAVFile(wav_params(depth, 2, 48000))
      BY <1>1, <2>1
    <3>2. /\ IsOpen(wav) /\ wav.format.bits = 8 * wav.ByteShift /\ wav.file.data = <<>>
          /\ wav.ByteShift = IF depth = 16 THEN 2 ELSE 3
      BY <3>1, NewIsOpen
    <3>3. kind \in OpenKinds /\ kind # "gone"  BY <2>1 DEF WAVKinds, OpenKinds
    <3>4. wav \in WAV_t  BY <3>2 DEF IsOpen
    <3>5. wav.file \in File_t /\ wav.ByteShift \in {2, 3}  BY <3>4 DEF WAV_t
    <3>6. QED  BY <3>1, <3>2, <3>3, <3>4, <3>5 DEF WavInv
  <2>2. CASE kind \notin WAVKinds \ {"eac3"}
    <3>1. wav = NoWAV  BY <1>1, <2>2
    <3>2. kind \notin OpenKinds  BY <2>2 DEF WAVKinds, OpenKinds
    <3>3. wav.file \in File_t /\ wav.ByteShift \in {2, 3}  BY <3>1, NoWAVIs DEF WAV_t
    <3>4. QED  BY <3>1, <3>2, <3>3, NoWAVIs DEF WavInv, OpenKinds
  <2>3. QED  BY <2>1, <2>2
<1>4. MeantInv
  <2>1. <<>> \in Seq(Own_t) /\ <<>> \in Seq(Burst_t) /\ <<>> \in Seq(Nat) /\ Len(<<>>) = 0
    OBVIOUS
  <2>2. QED  BY <1>2, <2>1 DEF MeantInv
<1>5. OwnInv
  <2>1. Len(wav.file.data) = 0 /\ Len(meant) = 0 /\ wav.ByteShift * 0 = 0  BY <1>2, <1>3
  <2>2. QED  BY <2>1 DEF OwnInv
<1>6. ReaderInv
  <2>1. NoReader \in Reader_t  BY NoReaderIs
  <2>2. <<>> \in Seq(Int)  OBVIOUS
  <2>3. QED  BY <1>2, <2>1, <2>2 DEF ReaderInv
<1>7. QED  BY <1>3, <1>4, <1>5, <1>6

-----------------------------------------------------------------------------
(* The program's own samples.                                                *)
LEMMA BurstsAreNotOwn ==
  ASSUME NEW bursts \in Seq(Burst_t)
  PROVE  ~(bursts # <<>> /\ "sample" \in DOMAIN bursts[1])
<1>1. SUFFICES ASSUME bursts # <<>>, "sample" \in DOMAIN bursts[1] PROVE FALSE
  OBVIOUS
<1>2. 1 \in 1 .. Len(bursts)  BY <1>1, EmptySeq
<1>3. bursts[1] \in Burst_t  BY <1>2, ElementOfSeq
<1>4. DOMAIN bursts[1] = {"words", "length", "dataType", "payload", "exact"}  BY <1>3 DEF Burst_t
<1>5. QED  BY <1>1, <1>4

LEMMA WhoseIsMeant ==
  ASSUME MeantInv
  PROVE  /\ IsOwn => meant \in Seq(Own_t) /\ kind \in {"samples", "gone"}
         /\ meant \in Seq(Burst_t) => ~IsOwn
BY BurstsAreNotOwn DEF MeantInv, IsOwn

LEMMA OwnActions ==
  ASSUME OutputNext, kind \in {"samples", "gone"}
  PROVE  (kind = "samples" /\ (WriteOwnSample \/ DestroyWriter)) \/ OpenReader \/ ReadOwnSample
BY DEF OutputNext, LPCMDecode, DecodeLPCMFrame, DTSDecode, DecodeDTSFrame, DTSMetadataOverrun, NoDTSSync, AC3PESDecode,
           NoAC3Range,
       WriteAC3Frame, EAC3PESDecode, DumpPESDecode, SwitchDebug, RawLogKinds, DestroyDump,
       DestroyWriter, WriteOwnSample, WAVKinds

LEMMA OwnSampleAdded ==
  ASSUME OwnInv, MeantInv, WavInv, WriteOwnSample
  PROVE  OwnInv'
<1> DEFINE n == wav.ByteShift
           l == Len(meant)
           m == n * l
<1>1. kind = "samples" /\ kind' = "samples"  BY DEF WriteOwnSample
<1>2. PICK sample \in Samples : wav' = WriteSample(wav, sample) /\ meant' = Append(meant, [sample |-> sample])
  BY DEF WriteOwnSample
<1>3. n \in {2, 3} /\ sample \in Int /\ sample \in Nat /\ IsOpen(wav)
  BY <1>1, OutputAssumption DEF WavInv, WAV_t, OpenKinds
<1>4. OneAdded(wav, wav', sample, n)
  BY <1>2, <1>3, WriteBytesAdds DEF WriteSample, IsOpen
<1>5. /\ l \in Nat /\ Len(meant') = l + 1 /\ meant'[l + 1].sample = sample
      /\ \A k \in 1 .. l : meant'[k] = meant[k]
  <2>1. meant \in Seq(Own_t) /\ [sample |-> sample] \in Own_t  BY <1>1, <1>3 DEF MeantInv, Own_t
  <2>2. QED  BY <1>2, <2>1, AppendProperties, LenProperties
<1>6. Len(wav.file.data) = m /\ \A k \in 1 .. l, j \in 1 .. n :
        wav.file.data[n * (k - 1) + j] = LittleEndian(meant[k].sample, n)[j]
  BY <1>1 DEF OwnInv
<1>7. /\ wav'.ByteShift = n /\ Len(wav'.file.data) = m + n
      /\ \A k \in 1 .. m : wav'.file.data[k] = wav.file.data[k]
      /\ \A j \in 1 .. n : wav'.file.data[m + j] = LittleEndian(sample, n)[j]
  BY <1>4, <1>6 DEF OneAdded
<1>8. n * (l + 1) = m + n
  <2>1. CASE n = 2  BY <1>5, <2>1
  <2>2. CASE n = 3  BY <1>5, <2>2
  <2>3. QED  BY <1>3, <2>1, <2>2
<1>9. ASSUME NEW k \in 1 .. l + 1, NEW j \in 1 .. n
      PROVE  wav'.file.data[n * (k - 1) + j] = LittleEndian(meant'[k].sample, n)[j]
  <2>1. CASE k = l + 1
    <3>1. k - 1 = l  BY <1>5, <2>1
    <3>2. n * (k - 1) = m  BY <3>1
    <3>3. QED  BY <1>5, <1>7, <2>1, <3>2
  <2>2. CASE k # l + 1
    <3>1. k \in 1 .. l  BY <1>5, <2>2
    <3>2. n * (k - 1) + j \in 1 .. m
      <4>1. CASE n = 2  BY <1>5, <3>1, <4>1
      <4>2. CASE n = 3  BY <1>5, <3>1, <4>2
      <4>3. QED  BY <1>3, <4>1, <4>2
    <3> HIDE DEF n, m, l
    <3>3. wav'.file.data[n * (k - 1) + j] = wav.file.data[n * (k - 1) + j] /\ meant'[k] = meant[k]
      BY <1>5, <1>7, <3>1, <3>2
    <3>4. QED  BY <1>6, <3>1, <3>3
  <2>3. QED  BY <2>1, <2>2
<1> HIDE DEF n, m, l
<1>10. /\ Len(wav'.file.data) = n * Len(meant')
       /\ \A k \in 1 .. Len(meant'), j \in 1 .. n :
            wav'.file.data[n * (k - 1) + j] = LittleEndian(meant'[k].sample, n)[j]
  BY <1>5, <1>7, <1>8, <1>9
<1>11. QED  BY <1>7, <1>10 DEF OwnInv

LEMMA OwnStep ==
  ASSUME OwnInv, MeantInv, MeantInv', WavInv, OutputNext
  PROVE  OwnInv'
<1>1. CASE kind \notin {"samples", "gone"}
  <2>1. meant \in Seq(Burst_t)  BY <1>1 DEF MeantInv
  <2>2. kind' = kind \/ (kind' = "gone" /\ meant' = meant)
    BY DEF OutputNext, LPCMDecode, DecodeLPCMFrame, DTSDecode, DecodeDTSFrame, DTSMetadataOverrun, NoDTSSync, AC3PESDecode,
           NoAC3Range,
           WriteAC3Frame, EAC3PESDecode, DumpPESDecode, SwitchDebug, DestroyDump,
           DestroyWriter, WriteOwnSample, OpenReader, ReadOwnSample
  <2>3. kind' # "samples"  BY <1>1, <2>2
  <2>4. meant' \in Seq(Burst_t)  BY <1>1, <2>1, <2>2 DEF MeantInv
  <2>5. ~IsOwn'
    BY <2>4, BurstsAreNotOwn DEF IsOwn
  <2>6. QED  BY <2>3, <2>5 DEF OwnInv
<1>2. CASE kind \in {"samples", "gone"}
  <2>1. CASE WriteOwnSample  BY <2>1, OwnSampleAdded
  <2>2. CASE kind = "samples" /\ DestroyWriter
    <3>1. IsOpen(wav) /\ wav' = Close(wav) /\ meant' = meant
      BY <2>2 DEF WavInv, OpenKinds, DestroyWriter
    <3>2. wav'.file.data = wav.file.data /\ wav'.ByteShift = wav.ByteShift  BY <3>1, CloseCloses
    <3>3. QED  BY <2>2, <3>1, <3>2 DEF OwnInv
  <2>3. CASE OpenReader \/ ReadOwnSample
    <3>1. UNCHANGED <<kind, wav, meant>>  BY <2>3 DEF OpenReader, ReadOwnSample
    <3>2. IsOwn' = IsOwn  BY <3>1 DEF IsOwn
    <3>3. QED  BY <3>1, <3>2 DEF OwnInv
  <2>4. QED  BY <1>2, <2>1, <2>2, <2>3, OwnActions
<1>3. QED  BY <1>1, <1>2

-----------------------------------------------------------------------------
(* Reading.                                                                  *)
LEMMA BytesRead ==
  ASSUME NEW r \in Reader_t, CanRead(r)
  PROVE  /\ BytesPerSample(r) \in {2, 3}
         /\ SampleBytes(r) \in Seq(Nat) /\ Len(SampleBytes(r)) = BytesPerSample(r)
         /\ \A j \in 1 .. BytesPerSample(r) : SampleBytes(r)[j] = r.file.data[r.at + j]
<1> DEFINE n == BytesPerSample(r)
           a == r.at
           data == r.file.data
<1>1. n \in {2, 3}  BY DEF BytesPerSample
<1>2. a \in Nat /\ data \in Seq(Nat)  BY DEF Reader_t, File_t
<1>3. a + n <= Len(data)  BY DEF CanRead
<1>4. SampleBytes(r) = SubSeq(data, a + 1, a + n)  BY DEF SampleBytes
<1> HIDE DEF n, a, data
<1>5. Len(data) \in Nat  BY <1>2, LenProperties
<1>6. \A k \in a + 1 .. a + n : data[k] \in Nat
  <2> TAKE k \in a + 1 .. a + n
  <2>1. k \in 1 .. Len(data)  BY <1>1, <1>2, <1>3, <1>5
  <2>2. QED  BY <1>2, <2>1, ElementOfSeq
<1>7. /\ SubSeq(data, a + 1, a + n) \in Seq(Nat)
      /\ Len(SubSeq(data, a + 1, a + n)) = n
      /\ \A j \in 1 .. n : SubSeq(data, a + 1, a + n)[j] = data[a + j]
  <2>1. a + 1 \in Int /\ a + n \in Int /\ a + 1 <= a + n /\ (a + n) - (a + 1) + 1 = n
    BY <1>1, <1>2
  <2>2. /\ SubSeq(data, a + 1, a + n) \in Seq(Nat)
        /\ Len(SubSeq(data, a + 1, a + n)) = n
        /\ \A j \in 1 .. n : SubSeq(data, a + 1, a + n)[j] = data[(a + 1) + j - 1]
    BY <1>6, <2>1, SubSeqProperties
  <2>3. \A j \in 1 .. n : (a + 1) + j - 1 = a + j  BY <1>1, <1>2
  <2>4. QED  BY <2>2, <2>3
<1>8. QED  BY <1>1, <1>4, <1>7 DEF n, a, data

LEMMA WordIsInt ==
  ASSUME NEW bytes \in Seq(Nat), Len(bytes) \in {2, 3}
  PROVE  Word(bytes) \in Int /\ Word(Reverse(bytes)) \in Int
<1>1. \A i \in 1 .. Len(bytes) : bytes[i] \in Nat  BY ElementOfSeq
<1>2. bytes[1] \in Nat /\ bytes[2] \in Nat /\ (Len(bytes) = 3 => bytes[3] \in Nat)  BY <1>1, SMTT(40)
<1>3. Word(bytes) \in Int  BY <1>2, SMTT(40) DEF Word
<1> DEFINE back == Reverse(bytes)
<1>4. back = [i \in 1 .. Len(bytes) |-> bytes[(Len(bytes) - i) + 1]]  BY DEF Reverse
<1>5. Len(back) = Len(bytes) /\ back[1] \in Nat /\ back[2] \in Nat /\ (Len(back) = 3 => back[3] \in Nat)
  <2> HIDE DEF back
  <2>1. CASE Len(bytes) = 2  BY <1>2, <1>4, <2>1
  <2>2. CASE Len(bytes) = 3  BY <1>2, <1>4, <2>2
  <2>3. QED  BY <2>1, <2>2
<1> HIDE DEF back
<1>6. Word(back) \in Int
  <2>1. CASE Len(back) = 3  BY <1>5, <2>1 DEF Word
  <2>2. CASE Len(back) # 3  BY <1>5, <2>2 DEF Word
  <2>3. QED  BY <2>1, <2>2
<1>7. QED  BY <1>3, <1>6 DEF back

LEMMA ReadIsInt ==
  ASSUME NEW r \in Reader_t, CanRead(r), r.bit_depth # 0
  PROVE  SampleRead(r) \in Int
<1>1. r.bit_depth \in {16, 24}  BY DEF Reader_t
<1> DEFINE bytes == SampleBytes(r)
           w == Word(bytes)
<1>2. bytes \in Seq(Nat) /\ Len(bytes) \in {2, 3}  BY BytesRead
<1> HIDE DEF bytes
<1>3. w \in Int /\ Word(Reverse(bytes)) \in Int  BY <1>2, WordIsInt
<1>4. CASE r.bit_depth = 16
  <2>1. SampleRead(r) = 65536 * Signed16(w)  BY <1>4 DEF SampleRead, bytes
  <2> HIDE DEF w
  <2>2. Signed16(w) \in Int  BY <1>3 DEF Signed16
  <2>3. QED  BY <2>1, <2>2
<1>5. CASE r.bit_depth = 24
  <2>1. SampleRead(r) = Word(Reverse(bytes))  BY <1>5 DEF SampleRead, bytes
  <2>2. QED  BY <1>3, <2>1
<1>6. QED  BY <1>1, <1>4, <1>5

(* The next sample that is read is the next that was written. *)
LEMMA OwnSampleIsRead ==
  ASSUME OwnInv, MeantInv, WavInv, IsOwn, reader \in Reader_t, reader.file = wav.file, CanRead(reader),
         reader.bit_depth = 8 * wav.ByteShift,
         NEW i \in Nat, reader.at = wav.ByteShift * i
  PROVE  i + 1 \in 1 .. Len(meant) /\ SampleRead(reader) = ReadAs(reader.bit_depth, meant[i + 1].sample)
<1> DEFINE n == wav.ByteShift
           data == wav.file.data
           l == Len(meant)
           at == n * i
           sample == meant[i + 1].sample
           bytes == SampleBytes(reader)
<1>1. n \in {2, 3} /\ BytesPerSample(reader) = n
  <2>1. n \in {2, 3}  BY DEF WavInv, WAV_t
  <2>2. QED  BY <2>1 DEF BytesPerSample
<1>2. meant \in Seq(Own_t) /\ l \in Nat  BY WhoseIsMeant, LenProperties
<1>3. Len(data) = n * l /\ \A k \in 1 .. l, j \in 1 .. n :
        data[n * (k - 1) + j] = LittleEndian(meant[k].sample, n)[j]
  BY DEF OwnInv
<1>4. at + n <= n * l  BY <1>1, <1>3 DEF CanRead
<1>5. i + 1 \in 1 .. l
  <2> HIDE DEF l
  <2>1. CASE n = 2  BY <1>2, <1>4, <2>1
  <2>2. CASE n = 3  BY <1>2, <1>4, <2>2
  <2>3. QED  BY <1>1, <2>1, <2>2
<1>6. sample \in Nat
  <2>1. meant[i + 1] \in Own_t  BY <1>2, <1>5, ElementOfSeq
  <2>2. QED  BY <2>1 DEF Own_t
<1>7. \A j \in 1 .. n : data[at + j] = LittleEndian(sample, n)[j]
  <2>1. (i + 1) - 1 = i  OBVIOUS
  <2>2. \A j \in 1 .. n : data[n * ((i + 1) - 1) + j] = LittleEndian(meant[i + 1].sample, n)[j]
    BY <1>3, <1>5
  <2>3. QED  BY <2>1, <2>2
<1> HIDE DEF sample
<1>8. bytes = LittleEndian(sample, n)
  <2>1. bytes \in Seq(Nat) /\ Len(bytes) = n /\ \A j \in 1 .. n : bytes[j] = data[at + j]
    BY <1>1, BytesRead
  <2> DEFINE other == LittleEndian(sample, n)
  <2> HIDE DEF bytes, at, n
  <2>2. other \in Seq(Nat) /\ Len(other) = n
    <3>1. sample \in Int  BY <1>6
    <3>2. QED  BY <1>1, <3>1, BytesOfWord, ZenonT(40)
  <2>3. \A j \in 1 .. n : bytes[j] = other[j]  BY <1>7, <2>1
  <2> HIDE DEF other, data
  <2>4. bytes = other  BY <2>1, <2>2, <2>3, SeqEqual
  <2>5. QED  BY <2>4 DEF other
<1>9. SampleRead(reader) = ReadAs(reader.bit_depth, sample)
  <2>1. CASE n = 2
    <3>1. reader.bit_depth = 16  BY <2>1
    <3>2. Word(bytes) = sample % 65536
      <4>1. sample \in Int  BY <1>6
      <4>2. QED  BY <1>8, <2>1, <4>1, WordOfBytes
    <3> HIDE DEF bytes
    <3>3. SampleRead(reader) = 65536 * Signed16(Word(bytes))  BY <3>1 DEF SampleRead, bytes
    <3>4. QED  BY <3>1, <3>2, <3>3 DEF ReadAs
  <2>2. CASE n = 3
    <3>1. reader.bit_depth = 24  BY <2>2
    <3>2. SampleRead(reader) = Word(Reverse(bytes))  BY <3>1 DEF SampleRead
    <3>3. QED  BY <1>8, <2>2, <3>1, <3>2 DEF ReadAs
  <2>3. QED  BY <1>1, <2>1, <2>2
<1>10. QED  BY <1>5, <1>9 DEF sample

LEMMA ReaderOpened ==
  ASSUME ReaderInv, WavInv, OpenReader
  PROVE  ReaderInv'
<1>1. /\ kind \in {"samples", "gone"} /\ reader = NoReader /\ returned = <<>>
      /\ UNCHANGED <<kind, wav, meant, returned>>
  BY DEF OpenReader, ReaderInv
<1>2. PICK chunk \in {0, 16, 18, 40} : reader' = ReadWAVChunk([wav EXCEPT !.format.chunk = chunk])
  BY DEF OpenReader
<1> DEFINE format == [wav.format EXCEPT !.chunk = chunk]
           f == [wav EXCEPT !.format = format]
           r == ReadSimpleChunk(f)
<1>3. wav \in WAV_t /\ wav.format.bits = 8 * wav.ByteShift /\ wav.ByteShift \in {2, 3}
  BY DEF WavInv, WAV_t
<1>4. format \in Format_t /\ format.bits = wav.format.bits /\ format.chunk = chunk
  BY <1>3 DEF WAV_t, Format_t
<1> HIDE DEF format
<1>5. f \in WAV_t /\ f.file = wav.file /\ f.format = format
  BY <1>3, <1>4 DEF WAV_t
<1>6. reader' = ReadWAVChunk(f)
  <2>1. f = [wav EXCEPT !.format.chunk = chunk]  BY DEF format
  <2>2. QED  BY <1>2, <2>1
<1> HIDE DEF f
<1>7. /\ r \in Reader_t /\ r.file = wav.file /\ r.InputReady /\ r.bit_depth = 8 * wav.ByteShift
      /\ r.num_samples = wav.file.dataSize /\ r.ReadCount = 0 /\ r.at = 0 /\ ~r.thrown
  BY <1>3, <1>4, <1>5, SimpleReader
<1>8. \/ reader' = r
      \/ reader' = [r EXCEPT !.bit_depth = 0, !.num_samples = 0]
      \/ reader' = [r EXCEPT !.InputReady = FALSE, !.bit_depth = 0]
  BY <1>4, <1>5, <1>6 DEF ReadWAVChunk, ReadExtensibleChunk
<1> HIDE DEF r
<1>9. /\ reader' \in Reader_t /\ reader'.file = wav.file /\ reader'.ReadCount = 0 /\ reader'.at = 0
      /\ ~reader'.thrown /\ reader'.bit_depth \in {0, 8 * wav.ByteShift}
      /\ reader'.num_samples \in {0, wav.file.dataSize}
      /\ reader'.bit_depth # 0 => reader'.num_samples = wav.file.dataSize
  BY <1>3, <1>7, <1>8, ZenonT(40) DEF Reader_t
<1>10. wav.file.open => wav.file.dataSize = 0
  BY NoWAVIs DEF WavInv, IsOpen, IsClosed
<1>11. ~wav.file.open => kind = "gone"
  BY <1>1 DEF WavInv, OpenKinds, IsOpen
<1>12. returned \in Seq(Int) /\ Len(returned) = 0 /\ Len(meant) \in Nat /\ wav.ByteShift * 0 = 0
       /\ \A i \in 1 .. 0 : FALSE
  <2>1. returned \in Seq(Int)  BY DEF ReaderInv
  <2>2. QED  BY <1>1, <1>3, <2>1
<1>13. QED  BY <1>1, <1>9, <1>10, <1>11, <1>12 DEF ReaderInv

LEMMA SampleIsRead ==
  ASSUME ReaderInv, WavInv, MeantInv, OwnInv, ReadOwnSample
  PROVE  ReaderInv'
<1>1. /\ kind \in {"samples", "gone"} /\ reader # NoReader /\ (ReadIsSet(reader) => reader.InputReady)
      /\ UNCHANGED <<kind, wav, meant>>
      /\ reader' = (IF ReadIsSet(reader) THEN ReadSample(reader) ELSE reader)
      /\ returned' = IF ReadIsSet(reader) /\ CanRead(reader)
                     THEN Append(returned, SampleRead(reader)) ELSE returned
  BY DEF ReadOwnSample
<1>2. IsOwn' = IsOwn  BY <1>1 DEF IsOwn
<1>3. reader \in Reader_t /\ returned \in Seq(Int) /\ wav.ByteShift \in {2, 3}
  BY DEF ReaderInv, WavInv, WAV_t
<1>4. CASE ~ReadIsSet(reader)
  BY <1>1, <1>2, <1>4 DEF ReaderInv
<1>5. ReadIsSet(reader) => reader.bit_depth # 0 /\ reader.bit_depth = 8 * wav.ByteShift
  BY <1>1 DEF ReadIsSet, ReaderInv
<1>6. CASE ReadIsSet(reader) /\ ~CanRead(reader)
  <2>1. reader' = [reader EXCEPT !.InputReady = FALSE, !.thrown = TRUE] /\ returned' = returned
    BY <1>1, <1>6 DEF ReadSample
  <2>2. /\ reader' \in Reader_t /\ reader'.file = reader.file /\ reader'.ReadCount = reader.ReadCount
        /\ reader'.at = reader.at /\ reader'.thrown /\ reader'.bit_depth = reader.bit_depth
        /\ reader'.num_samples = reader.num_samples
    BY <1>3, <2>1 DEF Reader_t
  <2>3. reader' # NoReader  BY <2>2, NoReaderIs
  <2>4. ASSUME ~reader.file.open, IsOwn
        PROVE  Len(returned) = Len(meant)
    <3> DEFINE n == wav.ByteShift
               i == Len(returned)
               l == Len(meant)
    <3>1. reader.file = wav.file /\ reader.num_samples = wav.file.dataSize
          /\ reader.ReadCount = reader.at /\ reader.at = n * i /\ i <= l
      BY <1>1, <1>5, <1>6, <2>4 DEF ReaderInv
    <3>2. wav.file.dataSize = Len(wav.file.data) \/ wav = NoWAV
      BY <2>4, <3>1 DEF WavInv, IsOpen, IsClosed
    <3>3. Len(wav.file.data) = n * l  BY <2>4 DEF OwnInv
    <3>4. i \in Nat /\ l \in Nat
      <4>1. meant \in Seq(Own_t)  BY <2>4, WhoseIsMeant
      <4>2. QED  BY <1>3, <4>1, LenProperties
    <3>5. BytesPerSample(reader) = n
      BY <1>3, <1>5, <1>6 DEF BytesPerSample
    <3>6. ~(n * i < reader.num_samples /\ n * i + n <= n * l)
      BY <1>6, <3>1, <3>3, <3>5 DEF CanRead
    <3>7. l = 0 \/ reader.num_samples = n * l
      <4>1. CASE wav = NoWAV
        <5>1. n * l = 0  BY <3>3, <4>1, NoWAVIs
        <5>2. CASE n = 2  BY <3>4, <5>1, <5>2
        <5>3. CASE n = 3  BY <3>4, <5>1, <5>3
        <5>4. QED  BY <1>3, <5>2, <5>3
      <4>2. CASE wav # NoWAV  BY <3>1, <3>2, <3>3, <4>2
      <4>3. QED  BY <4>1, <4>2
    <3> HIDE DEF i, l
    <3>8. ASSUME i < l PROVE FALSE
      <4>1. CASE n = 2  BY <3>4, <3>6, <3>7, <3>8, <4>1
      <4>2. CASE n = 3  BY <3>4, <3>6, <3>7, <3>8, <4>2
      <4>3. QED  BY <1>3, <4>1, <4>2
    <3>9. i = l  BY <3>1, <3>4, <3>8
    <3>10. QED  BY <3>9 DEF i, l
  <2>5. QED  BY <1>1, <1>2, <2>1, <2>2, <2>3, <2>4, <1>5, <1>6 DEF ReaderInv
<1>7. CASE ReadIsSet(reader) /\ CanRead(reader)
  <2> DEFINE n == wav.ByteShift
             i == Len(returned)
             value == SampleRead(reader)
  <2>1. /\ reader' = [reader EXCEPT !.at = reader.at + BytesPerSample(reader),
                                    !.ReadCount = reader.ReadCount + BytesPerSample(reader)]
        /\ returned' = Append(returned, value)
    BY <1>1, <1>7 DEF ReadSample
  <2>2. BytesPerSample(reader) = n
    BY <1>3, <1>5, <1>7 DEF BytesPerSample
  <2>3. reader.at \in Nat /\ reader.ReadCount = reader.at /\ reader.InputReady
    BY <1>1, <1>3, <1>7 DEF ReaderInv, Reader_t
  <2>4. value \in Int  BY <1>3, <1>5, <1>7, ReadIsInt
  <2> HIDE DEF value
  <2>5. /\ returned' \in Seq(Int) /\ Len(returned') = i + 1 /\ returned'[i + 1] = value
        /\ \A j \in 1 .. i : returned'[j] = returned[j]
    BY <1>3, <2>1, <2>4, AppendProperties
  <2>6. reader.at + n \in Nat  BY <1>3, <2>3
  <2> DEFINE at == reader.at + n
  <2> HIDE DEF at
  <2>7. reader' = [reader EXCEPT !.at = at, !.ReadCount = at] /\ at \in Nat
    BY <2>1, <2>2, <2>3, <2>6 DEF at
  <2>8. /\ reader' \in Reader_t /\ reader'.file = reader.file /\ reader'.ReadCount = at
        /\ reader'.at = at /\ reader'.InputReady /\ reader'.thrown = reader.thrown
        /\ reader'.bit_depth = reader.bit_depth /\ reader'.num_samples = reader.num_samples
    BY <1>3, <2>3, <2>7 DEF Reader_t
  <2>9. reader' # NoReader  BY <2>8, NoReaderIs
  <2>10. reader.num_samples # 0 /\ ~reader.file.open
    <3>1. reader.num_samples # 0  BY <1>3, <1>7, <2>3 DEF CanRead, Reader_t
    <3>2. QED  BY <1>1, <3>1 DEF ReaderInv
  <2>11. ASSUME IsOwn
         PROVE  /\ at = n * (i + 1) /\ i + 1 <= Len(meant)
                /\ \A j \in 1 .. i + 1 : returned'[j] = ReadAs(reader.bit_depth, meant[j].sample)
                /\ reader.thrown => i + 1 = Len(meant)
    <3>1. /\ reader.file = wav.file /\ reader.at = n * i /\ i <= Len(meant)
          /\ \A j \in 1 .. i : returned[j] = ReadAs(reader.bit_depth, meant[j].sample)
          /\ reader.thrown => i = Len(meant)
      BY <1>1, <1>5, <1>7, <2>10, <2>11 DEF ReaderInv
    <3>2. i \in Nat  BY <1>3, LenProperties
    <3> HIDE DEF i
    <3>3. i + 1 \in 1 .. Len(meant) /\ value = ReadAs(reader.bit_depth, meant[i + 1].sample)
      BY <1>3, <1>5, <1>7, <2>11, <3>1, <3>2, OwnSampleIsRead DEF value
    <3>4. at = n * (i + 1)
      <4>1. CASE n = 2  BY <3>1, <3>2, <4>1 DEF at
      <4>2. CASE n = 3  BY <3>1, <3>2, <4>2 DEF at
      <4>3. QED  BY <1>3, <4>1, <4>2
    <3>5. Len(meant) \in Nat
      <4>1. meant \in Seq(Own_t)  BY <2>11, WhoseIsMeant
      <4>2. QED  BY <4>1, LenProperties
    <3>6. ~reader.thrown /\ i + 1 <= Len(meant)  BY <3>1, <3>2, <3>3, <3>5
    <3>7. ASSUME NEW j \in 1 .. i + 1
          PROVE  returned'[j] = ReadAs(reader.bit_depth, meant[j].sample)
      <4>1. CASE j = i + 1  BY <2>5, <3>3, <4>1 DEF i
      <4>2. CASE j # i + 1
        <5>1. j \in 1 .. i  BY <3>2, <4>2
        <5>2. QED  BY <2>5, <3>1, <5>1 DEF i
      <4>3. QED  BY <4>1, <4>2
    <3>8. QED  BY <3>4, <3>6, <3>7
  <2>12. QED  BY <1>1, <1>2, <1>5, <1>7, <2>5, <2>8, <2>9, <2>10, <2>11 DEF ReaderInv
<1>8. QED  BY <1>4, <1>6, <1>7

LEMMA ReaderStep ==
  ASSUME ReaderInv, WavInv, MeantInv, OwnInv, OutputNext
  PROVE  ReaderInv'
<1>1. CASE kind \notin {"samples", "gone"}
  <2>1. reader = NoReader  BY <1>1 DEF ReaderInv
  <2>2. UNCHANGED <<reader, returned>>
    BY <1>1
    DEF OutputNext, LPCMDecode, DecodeLPCMFrame, DTSDecode, DecodeDTSFrame, DTSMetadataOverrun, NoDTSSync, AC3PESDecode,
        NoAC3Range,
        WriteAC3Frame, EAC3PESDecode, DumpPESDecode, SwitchDebug, DestroyDump,
        DestroyWriter, WriteOwnSample, OpenReader, ReadOwnSample
  <2>3. QED  BY <2>1, <2>2 DEF ReaderInv
<1>2. CASE kind = "samples" /\ (WriteOwnSample \/ DestroyWriter)
  <2>1. UNCHANGED <<reader, returned>> /\ kind' \in {"samples", "gone"}
    BY <1>2 DEF WriteOwnSample, DestroyWriter
  <2>2. wav'.ByteShift = wav.ByteShift
    <3>1. IsOpen(wav) /\ wav.ByteShift \in {2, 3} BY <1>2 DEF WavInv, OpenKinds, WAV_t
    <3>2. CASE WriteOwnSample
      <4>1. PICK sample \in Samples : wav' = WriteBytes(wav, sample, wav.ByteShift)
        BY <3>2 DEF WriteOwnSample, WriteSample
      <4>2. sample \in Int  BY OutputAssumption
      <4>3. OneAdded(wav, wav', sample, wav.ByteShift)
        BY <3>1, <4>1, <4>2, WriteBytesAdds DEF IsOpen
      <4>4. QED  BY <4>3 DEF OneAdded
    <3>3. CASE DestroyWriter
      <4>1. wav' = Close(wav)  BY <1>2, <3>3 DEF DestroyWriter
      <4>2. QED  BY <3>1, <4>1, CloseCloses
    <3>4. QED  BY <1>2, <3>2, <3>3
  <2>3. reader # NoReader => reader.file.open  BY <1>2 DEF ReaderInv
  <2>4. QED  BY <2>1, <2>2, <2>3 DEF ReaderInv
<1>3. QED  BY <1>1, <1>2, OwnActions, ReaderOpened, SampleIsRead

(* ReadsBack: a program that reads its closed file back gets as many samples *)
(* as it wrote, and the exception behind the last of them, at any length;    *)
(* those of 16 bits are its own, left justified; the sizes in the header of  *)
(* a closed file are those of what was written.                              *)
THEOREM ReadsBackHolds == Spec => []ReadsBack
<1> DEFINE Inv == PESInv /\ WavInv /\ MeantInv /\ OwnInv /\ ReaderInv
<1>1. Init => Inv
  <2> SUFFICES ASSUME Init PROVE Inv  OBVIOUS
  <2>1. OutputInit  BY DEF Init, OutputRests
  <2>2. QED  BY <2>1, PESStart, WavStart
<1>2. Inv /\ [Next]_libraryVars => Inv'
  <2> SUFFICES ASSUME Inv, [Next]_libraryVars PROVE Inv'  OBVIOUS
  <2>1. CASE OutputNext  BY <2>1, PESStep, WavStep, MeantStep, OwnStep, ReaderStep
  <2>2. CASE UNCHANGED outputVars
    BY <2>2
    DEF outputVars, PESInv, WavInv, MeantInv, OwnInv, ReaderInv, IsOpen, IsClosed, IsOwn
  <2>3. QED  BY <2>1, <2>2 DEF Next, libraryVars
<1>3. Inv => ReadsBack
  <2> SUFFICES ASSUME Inv PROVE ReadsBack  OBVIOUS
  <2> DEFINE expected == IF reader.file.open \/ reader.num_samples = 0 THEN 0 ELSE Len(meant)
  <2>1. ~wav.file.open /\ wav # NoWAV =>
          wav.file.dataSize = Len(wav.file.data) /\ wav.file.fileSize = Len(wav.file.data) + 36
    BY DEF WavInv, IsOpen, IsClosed
  <2>2. ASSUME reader # NoReader, IsOwn
        PROVE  /\ reader.thrown => Len(returned) = expected
               /\ Len(returned) <= expected
               /\ reader.bit_depth = 16 =>
                    \A i \in DOMAIN returned : returned[i] = 65536 * Signed16(meant[i].sample % 65536)
    <3>1. Len(meant) \in Nat /\ Len(returned) \in Nat /\ DOMAIN returned = 1 .. Len(returned)
      <4>1. meant \in Seq(Own_t) /\ returned \in Seq(Int)  BY <2>2, WhoseIsMeant DEF ReaderInv
      <4>2. QED  BY <4>1, LenProperties
    <3>2. CASE reader.file.open \/ reader.num_samples = 0
      <4>1. expected = 0 /\ returned = <<>>  BY <2>2, <3>2 DEF ReaderInv
      <4> HIDE DEF expected
      <4>2. QED  BY <3>1, <4>1
    <3>3. CASE ~(reader.file.open \/ reader.num_samples = 0)
      <4>1. expected = Len(meant)  BY <3>3
      <4> HIDE DEF expected
      <4>2. CASE reader.bit_depth = 0
        <5>1. returned = <<>> /\ ~reader.thrown  BY <2>2, <4>2 DEF ReaderInv
        <5>2. QED  BY <3>1, <4>1, <4>2, <5>1
      <4>3. CASE reader.bit_depth # 0
        <5>1. /\ Len(returned) <= Len(meant)
              /\ \A i \in 1 .. Len(returned) : returned[i] = ReadAs(reader.bit_depth, meant[i].sample)
              /\ reader.thrown => Len(returned) = Len(meant)
          BY <2>2, <3>3, <4>3 DEF ReaderInv
        <5>2. reader.bit_depth = 16 =>
                \A sample : ReadAs(reader.bit_depth, sample) = 65536 * Signed16(sample % 65536)
          BY DEF ReadAs
        <5>3. QED  BY <3>1, <4>1, <5>1, <5>2
      <4>4. QED  BY <4>2, <4>3
    <3>4. QED  BY <3>2, <3>3
  <2>3. QED  BY <2>1, <2>2 DEF ReadsBack
<1> HIDE DEF Inv
<1>4. QED  BY <1>1, <1>2, <1>3, PTL DEF Spec

-----------------------------------------------------------------------------
(* The place of a burst.                                                     *)
WordOf(data, p) == Word(SubSeq(data, 2 * p - 1, 2 * p))

BurstAt(data, start, burst) ==
  /\ burst.words >= 4 /\ 2 * (start + burst.words) <= Len(data)
  /\ \A n \in 1 .. 4 : WordOf(data, start + n) = AES_Header(16, burst.dataType, burst.length)[n] % 65536
  /\ \A n \in 5 .. burst.words : (WordOf(data, start + n) = 1) <=> (n <= 4 + burst.payload)

Spacing(bursts) == [i \in DOMAIN bursts |-> bursts[i].words]

Exact(bursts, k) == \A i \in 1 .. k : bursts[i].exact

(* Exact bursts stand where their spacing puts them; and while all of them   *)
(* are exact, the next will begin where the file ends.                       *)
Placed(bursts, data) ==
  \A k \in 1 .. Len(bursts) :
    Exact(bursts, k) => BurstAt(data, PartialSums(Spacing(bursts))[k - 1], bursts[k])

Filled(bursts, data) ==
  Exact(bursts, Len(bursts)) => 2 * PartialSums(Spacing(bursts))[Len(bursts)] = Len(data)

PlaceInv ==
  /\ kind \notin {"dts", "ac3", "samples", "gone"} => meant = <<>>
  /\ ~IsOwn => Placed(meant, wav.file.data)
  /\ kind \in {"dts", "ac3"} => Filled(meant, wav.file.data)

AllClean(frames) == \A i \in DOMAIN frames : IsClean(frames[i])

(* The last bursts are those of the first d of the frames. *)
LastAre(bursts, frames, d) ==
  /\ d <= Len(bursts)
  /\ \A i \in 1 .. d :
       /\ bursts[Len(bursts) - d + i].words = 2 * frames[i].pairs
       /\ 2 * bursts[Len(bursts) - d + i].payload = frames[i].size

(* Of a packet of clean frames those in front of the pointer are written.    *)
CleanInv ==
  PES.of # <<>> /\ AllClean(PES.of) =>
    /\ kind = "dts" => LastAre(meant, PES.of, Len(PES.of) - Len(PES.at))
    /\ kind # "dts" /\ Idle => LastAre(meant, PES.of, Len(PES.of))

LEMMA WordOfIs ==
  ASSUME NEW data \in Seq(Nat), NEW p \in Nat \ {0}, 2 * p <= Len(data)
  PROVE  WordOf(data, p) = data[2 * p - 1] + 256 * data[2 * p]
<1> DEFINE a == 2 * p - 1
           b == 2 * p
           pair == SubSeq(data, a, b)
<1>1. a \in Int /\ b \in Int /\ 1 <= a /\ a <= b /\ b - a + 1 = 2 /\ a + 2 - 1 = b /\ b <= Len(data)
  OBVIOUS
<1>2. WordOf(data, p) = Word(pair)  BY DEF WordOf
<1> HIDE DEF a, b
<1>3. Len(data) \in Nat  BY LenProperties
<1>4. \A k \in a .. b : data[k] \in Nat
  <2> TAKE k \in a .. b
  <2>1. k \in 1 .. Len(data)  BY <1>1, <1>3
  <2>2. QED  BY <2>1, ElementOfSeq
<1>5. /\ Len(pair) = IF a <= b THEN b - a + 1 ELSE 0
      /\ \A i \in 1 .. b - a + 1 : pair[i] = data[a + i - 1]
  BY <1>1, <1>4, SubSeqProperties
<1> HIDE DEF pair
<1>6. Len(pair) = 2 /\ pair[1] = data[a] /\ pair[2] = data[b] /\ data[a] \in Nat /\ data[b] \in Nat
  <2>1. 1 \in 1 .. b - a + 1 /\ 2 \in 1 .. b - a + 1 /\ a + 1 - 1 = a  BY <1>1
  <2>2. a \in a .. b /\ b \in a .. b  BY <1>1
  <2>3. QED  BY <1>1, <1>4, <1>5, <2>1, <2>2
<1>7. Word(pair) = data[a] + 256 * data[b] + 0  BY <1>6 DEF Word
<1>8. QED  BY <1>2, <1>6, <1>7, SMTT(40) DEF a, b

(* What is added to a file leaves the words before it, and adds its own. *)
LEMMA WordStays ==
  ASSUME NEW f \in WAV_t, NEW g, NEW words, NEW len \in Nat, Added(f, g, words, 2, len),
         NEW p \in Nat \ {0}, 2 * p <= Len(f.file.data)
  PROVE  WordOf(g.file.data, p) = WordOf(f.file.data, p)
<1> DEFINE data == f.file.data
           more == g.file.data
<1>1. data \in Seq(Nat) /\ more \in Seq(Nat) /\ Len(more) = Len(data) + 2 * len
      /\ \A k \in 1 .. Len(data) : more[k] = data[k]
  <2>1. g \in WAV_t  BY DEF Added
  <2>2. QED  BY <2>1 DEF Added, WAV_t, File_t
<1> HIDE DEF data, more
<1>2. Len(data) \in Nat /\ 2 * p <= Len(data)  BY <1>1, LenProperties DEF data
<1>3. 2 * p <= Len(more) /\ 2 * p - 1 \in 1 .. Len(data) /\ 2 * p \in 1 .. Len(data)
  BY <1>1, <1>2
<1>4. WordOf(data, p) = data[2 * p - 1] + 256 * data[2 * p]
      /\ WordOf(more, p) = more[2 * p - 1] + 256 * more[2 * p]
  <2>1. WordOf(data, p) = data[2 * p - 1] + 256 * data[2 * p]  BY <1>1, <1>2, WordOfIs
  <2>2. WordOf(more, p) = more[2 * p - 1] + 256 * more[2 * p]  BY <1>1, <1>3, WordOfIs, ZenonT(40)
  <2>3. QED  BY <2>1, <2>2
<1>5. QED  BY <1>1, <1>3, <1>4 DEF data, more

LEMMA WordWritten ==
  ASSUME NEW f \in WAV_t, NEW g, NEW words, NEW len \in Nat, Added(f, g, words, 2, len),
         NEW start \in Nat, Len(f.file.data) = 2 * start, NEW i \in 1 .. len, words[i] \in Int
  PROVE  WordOf(g.file.data, start + i) = words[i] % 65536
<1> DEFINE more  == g.file.data
           word  == words[i]
           bytes == LittleEndian(word, 2)
<1>1. more \in Seq(Nat) /\ Len(more) = 2 * start + 2 * len
      /\ \A j \in 1 .. 2 : more[2 * start + 2 * (i - 1) + j] = bytes[j]
  <2>1. g \in WAV_t  BY DEF Added
  <2>2. Len(more) = 2 * start + 2 * len  BY DEF Added
  <2>3. \A j \in 1 .. 2 : more[2 * start + 2 * (i - 1) + j] = bytes[j]  BY DEF Added
  <2>4. QED  BY <2>1, <2>2, <2>3 DEF WAV_t, File_t
<1>2. 2 * start + 2 * (i - 1) + 1 = 2 * (start + i) - 1 /\ 2 * start + 2 * (i - 1) + 2 = 2 * (start + i)
      /\ start + i \in Nat \ {0} /\ 2 * (start + i) <= 2 * start + 2 * len
  OBVIOUS
<1>0. word \in Int  OBVIOUS
<1> HIDE DEF more, word
<1>3. Len(bytes) = 2 /\ bytes \in Seq(Nat)
  <2>1. 2 \in {2, 3}  OBVIOUS
  <2>2. QED  BY <1>0, <2>1, BytesOfWord
<1>9. Word(bytes) = word % 65536  BY <1>0, WordOfBytes, SMTT(40)
<1> HIDE DEF bytes
<1>4. 1 \in 1 .. 2 /\ 2 \in 1 .. 2  OBVIOUS
<1>5. WordOf(more, start + i) = bytes[1] + 256 * bytes[2]
  <2>1. WordOf(more, start + i) = more[2 * (start + i) - 1] + 256 * more[2 * (start + i)]
    BY <1>1, <1>2, WordOfIs, ZenonT(40)
  <2>2. more[2 * (start + i) - 1] = bytes[1] /\ more[2 * (start + i)] = bytes[2]
    BY <1>1, <1>2, <1>4
  <2>3. QED  BY <2>1, <2>2
<1>6. bytes[1] \in Nat /\ bytes[2] \in Nat
  <2>1. 1 \in 1 .. Len(bytes) /\ 2 \in 1 .. Len(bytes)  BY <1>3
  <2>2. QED  BY <1>3, <2>1, ElementOfSeq
<1>7. Word(bytes) = bytes[1] + 256 * bytes[2] + 0  BY <1>3 DEF Word
<1>8. QED  BY <1>5, <1>6, <1>7, <1>9 DEF more, word

LEMMA BurstStays ==
  ASSUME NEW f \in WAV_t, NEW g, NEW words, NEW len \in Nat, Added(f, g, words, 2, len),
         NEW start \in Nat, NEW burst \in Burst_t, BurstAt(f.file.data, start, burst)
  PROVE  BurstAt(g.file.data, start, burst)
<1> DEFINE data == f.file.data
           more == g.file.data
           n == burst.words
           m == burst.payload
           header == AES_Header(16, burst.dataType, burst.length)
<1>1. n \in Nat /\ m \in Int  BY DEF Burst_t
<1>2. data \in Seq(Nat) /\ Len(data) \in Nat /\ Len(more) = Len(data) + 2 * len
  <2>1. data \in Seq(Nat)  BY DEF WAV_t, File_t
  <2>2. QED  BY <2>1, LenProperties DEF Added
<1>3. /\ n >= 4 /\ 2 * (start + n) <= Len(data)
      /\ \A k \in 1 .. 4 : WordOf(data, start + k) = header[k] % 65536
      /\ \A k \in 5 .. n : (WordOf(data, start + k) = 1) <=> (k <= 4 + m)
  BY DEF BurstAt
<1>4. \A p \in Nat \ {0} : 2 * p <= Len(data) => WordOf(more, p) = WordOf(data, p)
  BY WordStays
<1> HIDE DEF data, more, n, header, m
<1>5. 2 * (start + n) <= Len(more)  BY <1>1, <1>2, <1>3
<1>6. \A k \in 5 .. n : (WordOf(more, start + k) = 1) <=> (k <= 4 + m)
  <2> TAKE k \in 5 .. n
  <2>1. start + k \in Nat \ {0} /\ 2 * (start + k) <= Len(data)  BY <1>1, <1>2, <1>3, SMTT(40)
  <2>2. QED  BY <1>3, <1>4, <2>1
<1>7. \A k \in 1 .. 4 : WordOf(more, start + k) = header[k] % 65536
  <2> TAKE k \in 1 .. 4
  <2>1. start + k \in Nat \ {0} /\ 2 * (start + k) <= Len(data)  BY <1>1, <1>2, <1>3, SMTT(40)
  <2>2. QED  BY <1>3, <1>4, <2>1
<1>8. QED  BY <1>3, <1>5, <1>6, <1>7 DEF BurstAt, data, more, n, m, header

HasRoom(burst) == burst.payload \in Nat /\ 4 + burst.payload <= burst.words

(* A burst that is exact stands where it is written. *)
LEMMA ExactBurstStands ==
  ASSUME NEW f \in WAV_t, NEW g, NEW burst \in Burst_t, HasRoom(burst),
         NEW words,
         words = Burst(AES_Header(16, burst.dataType, burst.length), Payload(burst.payload), burst.words),
         Added(f, g, words, 2, Len(words)),
         NEW start \in Nat, Len(f.file.data) = 2 * start
  PROVE  BurstAt(g.file.data, start, burst) /\ Len(g.file.data) = 2 * (start + burst.words)
<1> DEFINE m == burst.payload
           n == burst.words
           header == AES_Header(16, burst.dataType, burst.length)
<1>0. /\ header \in Seq(Int) /\ Len(header) = 4 /\ \A i \in 1 .. 4 : header[i] \in Int
      /\ m \in Nat /\ n \in Nat /\ 4 + m <= n
      /\ words = Burst(header, Payload(m), n)
  <2>1. burst.dataType \in 0 .. 14 /\ burst.length \in Nat /\ n \in Nat  BY DEF Burst_t
  <2>2. header \in Seq(Int) /\ Len(header) = 4 /\ \A i \in 1 .. 4 : header[i] \in Int  BY <2>1, HeaderIs
  <2>3. QED  BY <2>1, <2>2 DEF HasRoom
<1> HIDE DEF m, n, header
<1>1. /\ Len(words) = n
      /\ \A i \in 1 .. 4 : words[i] = header[i]
      /\ \A i \in 5 .. n : words[i] = IF i <= 4 + m THEN 1 ELSE 0
  <2>1. m \in Int /\ n \in Int  BY <1>0
  <2>2. IsBurst(words, header, m, n)  BY <1>0, <2>1, BurstIs, Zenon
  <2>3. QED  BY <1>0, <2>2 DEF IsBurst
<1>2. Len(g.file.data) = 2 * (start + n) /\ n >= 4
  <2>1. Len(g.file.data) = Len(f.file.data) + 2 * Len(words)  BY DEF Added
  <2>2. Len(g.file.data) = 2 * start + 2 * n  BY <1>1, <2>1
  <2>3. QED  BY <1>0, <2>2
<1>3. ASSUME NEW i \in 1 .. n, words[i] \in Int
      PROVE  WordOf(g.file.data, start + i) = words[i] % 65536
  <2>1. Added(f, g, words, 2, n)  BY <1>1
  <2>2. n \in Nat  BY <1>0
  <2>3. QED  BY <1>3, <2>1, <2>2, WordWritten
<1>4. \A i \in 1 .. 4 : WordOf(g.file.data, start + i) = header[i] % 65536
  <2> TAKE i \in 1 .. 4
  <2>1. i \in 1 .. n  BY <1>0, <1>2
  <2>2. words[i] = header[i] /\ words[i] \in Int  BY <1>0, <1>1
  <2>3. QED  BY <1>3, <2>1, <2>2
<1>5. \A i \in 5 .. n : (WordOf(g.file.data, start + i) = 1) <=> (i <= 4 + m)
  <2> TAKE i \in 5 .. n
  <2>1. i \in 1 .. n /\ words[i] \in {0, 1} /\ ((words[i] = 1) <=> (i <= 4 + m))
    BY <1>0, <1>1
  <2>2. 1 % 65536 = 1 /\ 0 % 65536 = 0  OBVIOUS
  <2>3. WordOf(g.file.data, start + i) = words[i]  BY <1>3, <2>1, <2>2
  <2>4. QED  BY <2>1, <2>3
<1>6. BurstAt(g.file.data, start, burst)
  <2>1. 2 * (start + burst.words) <= Len(g.file.data) /\ burst.words >= 4  BY <1>2 DEF n
  <2>2. QED  BY <1>4, <1>5, <2>1 DEF BurstAt, n, m, header
<1>7. QED  BY <1>2, <1>6 DEF n

LEMMA SpacingType ==
  ASSUME NEW bursts \in Seq(Burst_t)
  PROVE  /\ Spacing(bursts) \in Seq(Nat) /\ Len(Spacing(bursts)) = Len(bursts)
         /\ \A i \in 1 .. Len(bursts) : Spacing(bursts)[i] = bursts[i].words
         /\ PartialSums(Spacing(bursts)) \in [0 .. Len(bursts) -> Nat]
<1>1. Len(bursts) \in Nat /\ DOMAIN bursts = 1 .. Len(bursts)  BY LenProperties
<1>2. \A i \in 1 .. Len(bursts) : bursts[i].words \in Nat
  <2>1. \A i \in 1 .. Len(bursts) : bursts[i] \in Burst_t  BY ElementOfSeq
  <2>2. QED  BY <2>1 DEF Burst_t
<1>3. Spacing(bursts) = [i \in 1 .. Len(bursts) |-> bursts[i].words]  BY <1>1 DEF Spacing
<1>4. /\ Spacing(bursts) \in Seq(Nat) /\ Len(Spacing(bursts)) = Len(bursts)
      /\ \A i \in 1 .. Len(bursts) : Spacing(bursts)[i] = bursts[i].words
  BY <1>1, <1>2, <1>3
<1>5. SumsOf(Spacing(bursts), Len(bursts), PartialSums(Spacing(bursts)))
  BY <1>4, PartialSumsAre
<1>6. QED  BY <1>4, <1>5 DEF SumsOf

LEMMA SpacingGrows ==
  ASSUME NEW bursts \in Seq(Burst_t), NEW burst \in Burst_t
  PROVE  /\ \A k \in 0 .. Len(bursts) :
              PartialSums(Spacing(Append(bursts, burst)))[k] = PartialSums(Spacing(bursts))[k]
         /\ PartialSums(Spacing(Append(bursts, burst)))[Len(bursts) + 1]
              = PartialSums(Spacing(bursts))[Len(bursts)] + burst.words
<1> DEFINE more == Append(bursts, burst)
           l == Len(bursts)
           q == Spacing(bursts)
           r == Spacing(more)
<1>1. /\ more \in Seq(Burst_t) /\ Len(more) = l + 1 /\ more[l + 1] = burst
      /\ \A i \in 1 .. l : more[i] = bursts[i]
  BY AppendProperties
<1>2. l \in Nat  BY LenProperties
<1> HIDE DEF more
<1>3. q \in Seq(Nat) /\ Len(q) = l /\ \A i \in 1 .. l : q[i] = bursts[i].words
  BY SpacingType
<1>4. r \in Seq(Nat) /\ Len(r) = l + 1 /\ \A i \in 1 .. l + 1 : r[i] = more[i].words
  BY <1>1, SpacingType
<1> HIDE DEF q, r, l
<1>5. ASSUME NEW k \in 0 .. l PROVE PartialSums(r)[k] = PartialSums(q)[k]
  <2>1. k \in 0 .. Len(q) /\ k <= Len(r)  BY <1>2, <1>3, <1>4
  <2>2. \A i \in 1 .. k : r[i] = q[i]
    <3> TAKE i \in 1 .. k
    <3>1. i \in 1 .. l /\ i \in 1 .. l + 1  BY <1>2
    <3>2. QED  BY <1>1, <1>3, <1>4, <3>1
  <2>3. QED  BY <1>3, <1>4, <2>1, <2>2, SameSums
<1>6. PartialSums(r)[l + 1] = PartialSums(q)[l] + burst.words
  <2>1. SumsOf(r, l + 1, PartialSums(r))  BY <1>4, PartialSumsAre
  <2>2. l + 1 \in 1 .. l + 1 /\ (l + 1) - 1 = l /\ l \in 0 .. l  BY <1>2
  <2>3. PartialSums(r)[l + 1] = PartialSums(r)[l] + r[l + 1]  BY <2>1, <2>2 DEF SumsOf
  <2>4. r[l + 1] = burst.words  BY <1>1, <1>4, <2>2
  <2>5. QED  BY <1>5, <2>2, <2>3, <2>4
<1>7. QED  BY <1>5, <1>6 DEF more, l, q, r

LEMMA BurstPlaced ==
  ASSUME WavInv, MeantInv, PlaceInv, kind \in {"dts", "ac3"}, kind' = kind,
         NEW type, NEW m, NEW n, NEW length, NEW words, NEW exact, BurstWrote(type, m, n, length, words, exact)
  PROVE  PlaceInv'
<1> DEFINE l == Len(meant)
           burst == [words |-> n, length |-> length, dataType |-> type, payload |-> m, exact |-> exact]
           S == PartialSums(Spacing(meant))
           T == PartialSums(Spacing(meant'))
<1>1. IsOpen(wav) /\ wav \in WAV_t /\ wav.file.open  BY DEF WavInv, OpenKinds, IsOpen
<1>2. meant \in Seq(Burst_t) /\ ~IsOwn  BY WhoseIsMeant DEF MeantInv
<1>3. l \in Nat  BY <1>2, LenProperties
<1> DEFINE header == AES_Header(16, type, length)
<1>4. Wrote(Burst(header, Payload(m), words))
  BY DEF BurstWrote
<1> HIDE DEF header
<1>5. /\ type \in 0 .. 14 /\ m \in Int /\ n \in Nat /\ length \in Nat /\ exact \in BOOLEAN
      /\ exact => words = n /\ m \in Nat /\ 4 + m <= words
      /\ meant' = Append(meant, burst)
  BY DEF BurstWrote
<1> DEFINE w == Burst(header, Payload(m), words)
<1>6. w \in Seq(Int) /\ wav' = WriteWords(wav, w, 2)  BY <1>4 DEF Wrote
<1> HIDE DEF w
<1>7. Added(wav, wav', w, 2, Len(w)) /\ Len(w) \in Nat
  <2>1. 2 \in {2, 3}  OBVIOUS
  <2>2. QED  BY <1>1, <1>6, <2>1, WriteWordsAdds, LenProperties
<1>8. burst \in Burst_t  BY <1>5 DEF Burst_t
<1>9. burst.words = n /\ burst.length = length /\ burst.dataType = type /\ burst.payload = m /\ burst.exact = exact  OBVIOUS
<1> HIDE DEF burst
<1>10. /\ meant' \in Seq(Burst_t) /\ Len(meant') = l + 1 /\ meant'[l + 1] = burst
       /\ \A i \in 1 .. l : meant'[i] = meant[i]
  BY <1>2, <1>5, <1>8, AppendProperties
<1>11. /\ \A k \in 0 .. l : T[k] = S[k] /\ S[k] \in Nat
       /\ T[l + 1] = S[l] + n
  BY <1>2, <1>5, <1>8, <1>9, SpacingGrows, SpacingType
<1>12. Placed(meant, wav.file.data) /\ Filled(meant, wav.file.data)
  BY <1>2 DEF PlaceInv
<1>13. ASSUME NEW k \in 1 .. l, Exact(meant', k)
       PROVE  BurstAt(wav'.file.data, T[k - 1], meant'[k])
  <2>1. Exact(meant, k)
    <3>1. \A i \in 1 .. k : i \in 1 .. l  BY <1>3
    <3>2. QED  BY <1>10, <1>13, <3>1 DEF Exact
  <2>2. k - 1 \in 0 .. l  BY <1>3
  <2>3. BurstAt(wav.file.data, S[k - 1], meant[k])  BY <1>12, <2>1 DEF Placed, S
  <2>4. meant[k] \in Burst_t  BY <1>2, ElementOfSeq
  <2>5. BurstAt(wav'.file.data, S[k - 1], meant[k])
    <3> DEFINE start == S[k - 1]
    <3>1. start \in Nat  BY <1>11, <2>2
    <3>2. BurstAt(wav.file.data, start, meant[k])  BY <2>3
    <3> HIDE DEF start
    <3>3. BurstAt(wav'.file.data, start, meant[k])  BY <1>1, <1>7, <2>4, <3>1, <3>2, BurstStays
    <3>4. QED  BY <3>3 DEF start
  <2>6. QED  BY <1>10, <1>11, <2>2, <2>5
<1>14. ASSUME Exact(meant', l + 1)
       PROVE  BurstAt(wav'.file.data, T[l], burst) /\ 2 * T[l + 1] = Len(wav'.file.data)
  <2>1. Exact(meant, l) /\ exact
    <3>1. \A i \in 1 .. l + 1 : meant'[i].exact  BY <1>14 DEF Exact
    <3>2. l + 1 \in 1 .. l + 1 /\ \A i \in 1 .. l : i \in 1 .. l + 1  BY <1>3
    <3>3. QED  BY <1>9, <1>10, <3>1, <3>2 DEF Exact
  <2>2. 2 * S[l] = Len(wav.file.data)  BY <1>12, <2>1 DEF Filled, S
  <2>3. S[l] \in Nat /\ T[l] = S[l]
    <3>1. l \in 0 .. l  BY <1>3
    <3>2. QED  BY <1>11, <3>1
  <2>4. w = Burst(AES_Header(16, burst.dataType, burst.length), Payload(burst.payload), burst.words)
    BY <1>5, <1>9, <2>1 DEF w, header
  <2>7. HasRoom(burst)  BY <1>5, <1>9, <2>1 DEF HasRoom
  <2>5. BurstAt(wav'.file.data, S[l], burst) /\ Len(wav'.file.data) = 2 * (S[l] + n)
    <3> DEFINE start == S[l]
    <3>1. start \in Nat /\ Len(wav.file.data) = 2 * start  BY <2>2, <2>3
    <3> HIDE DEF start
    <3>2. BurstAt(wav'.file.data, start, burst) /\ Len(wav'.file.data) = 2 * (start + burst.words)
      BY <1>1, <1>7, <1>8, <2>4, <2>7, <3>1, ExactBurstStands
    <3>3. QED  BY <1>9, <3>2 DEF start
  <2>6. QED  BY <1>5, <1>11, <2>3, <2>5
<1>15. Placed(meant', wav'.file.data)
  <2> SUFFICES ASSUME NEW k \in 1 .. l + 1, Exact(meant', k)
               PROVE  BurstAt(wav'.file.data, T[k - 1], meant'[k])
    BY <1>10 DEF Placed, T
  <2>1. CASE k = l + 1
    <3>1. k - 1 = l  BY <1>3, <2>1
    <3>2. QED  BY <1>10, <1>14, <2>1, <3>1
  <2>2. CASE k # l + 1
    <3>1. k \in 1 .. l  BY <1>3, <2>2
    <3>2. QED  BY <1>13, <3>1
  <2>3. QED  BY <2>1, <2>2
<1>16. Filled(meant', wav'.file.data)
  BY <1>10, <1>14 DEF Filled, T
<1>17. QED  BY <1>15, <1>16 DEF PlaceInv

LEMMA PlaceUnchanged ==
  ASSUME PlaceInv, meant' = meant, wav'.file.data = wav.file.data, kind' \in {kind, "gone"}
  PROVE  PlaceInv'
<1>1. IsOwn' = IsOwn  BY DEF IsOwn
<1>2. Placed(meant', wav'.file.data) = Placed(meant, wav.file.data)
      /\ Filled(meant', wav'.file.data) = Filled(meant, wav.file.data)
  OBVIOUS
<1>3. QED  BY <1>1, <1>2 DEF PlaceInv

LEMMA PlaceStep ==
  ASSUME PESInv, WavInv, MeantInv, MeantInv', PlaceInv, OutputNext
  PROVE  PlaceInv'
<1>1. CASE DecodeDTSFrame
  <2>1. kind' = kind /\ kind \in {"dts", "ac3"}  BY <1>1 DEF DecodeDTSFrame
  <2>2. \E type, m, n, length, words, exact : BurstWrote(type, m, n, length, words, exact)  BY <1>1, DTSWrites
  <2>3. QED  BY <2>1, <2>2, BurstPlaced
<1>2. CASE WriteAC3Frame
  <2>1. kind' = kind /\ kind \in {"dts", "ac3"}  BY <1>2 DEF WriteAC3Frame
  <2>2. \E type, m, n, length, words, exact : BurstWrote(type, m, n, length, words, exact)  BY <1>2, AC3Writes
  <2>3. QED  BY <2>1, <2>2, BurstPlaced
<1>3. CASE DecodeLPCMFrame
  <2>1. kind = "lpcm" /\ kind' = kind /\ meant' = meant  BY <1>3 DEF DecodeLPCMFrame
  <2>2. meant' = <<>>  BY <2>1 DEF PlaceInv
  <2>3. Len(meant') = 0  BY <2>2
  <2>4. QED  BY <2>1, <2>2, <2>3 DEF PlaceInv, Placed
<1>4. CASE WriteOwnSample
  <2>1. kind' = "samples" /\ meant' # <<>>
    <3>1. PICK sample \in Samples : meant' = Append(meant, [sample |-> sample])
      BY <1>4 DEF WriteOwnSample
    <3>2. kind = "samples" /\ kind' = "samples" /\ meant \in Seq(Own_t)  BY <1>4 DEF WriteOwnSample, MeantInv
    <3>3. [sample |-> sample] \in Own_t  BY OutputAssumption DEF Own_t
    <3>4. QED  BY <3>1, <3>2, <3>3, AppendProperties
  <2>2. meant' \in Seq(Own_t)  BY <2>1 DEF MeantInv
  <2>3. 1 \in 1 .. Len(meant')  BY <2>1, <2>2, EmptySeq
  <2>4. meant'[1] \in Own_t  BY <2>2, <2>3, ElementOfSeq
  <2>5. "sample" \in DOMAIN meant'[1]  BY <2>4 DEF Own_t
  <2>6. DOMAIN meant' = 1 .. Len(meant')  BY <2>2, LenProperties
  <2>7. IsOwn'  BY <2>1, <2>5 DEF IsOwn
  <2>8. QED  BY <2>1, <2>7 DEF PlaceInv
<1>5. CASE DestroyWriter
  <2>1. kind' = "gone" /\ meant' = meant /\ wav' = IF kind = "ac3" THEN Close(Close(wav)) ELSE Close(wav)
    BY <1>5 DEF DestroyWriter
  <2>2. \A f : f \in WAV_t => Close(f).file.data = f.file.data
    BY DEF Close, WAV_t, File_t
  <2>3. wav \in WAV_t /\ (kind = "ac3" => IsOpen(wav))  BY DEF WavInv, OpenKinds
  <2>4. wav'.file.data = wav.file.data  BY <2>1, <2>2, <2>3, CloseCloses
  <2>5. QED  BY <2>1, <2>4, PlaceUnchanged
<1>6. CASE LPCMDecode \/ DTSDecode \/ DTSMetadataOverrun \/ NoDTSSync \/ AC3PESDecode \/ EAC3PESDecode
           \/ NoAC3Range \/ DumpPESDecode \/ SwitchDebug \/ DestroyDump \/ OpenReader \/ ReadOwnSample
  <2>1. UNCHANGED <<wav, meant>> /\ kind' \in {kind, "gone"}
    BY <1>6
    DEF LPCMDecode, DTSDecode, DTSMetadataOverrun, NoDTSSync, AC3PESDecode, EAC3PESDecode, NoAC3Range,
        DumpPESDecode, SwitchDebug, DestroyDump, OpenReader, ReadOwnSample
  <2>2. QED  BY <2>1, PlaceUnchanged
<1>7. QED
  BY <1>1, <1>2, <1>3, <1>4, <1>5, <1>6 DEF OutputNext

-----------------------------------------------------------------------------
(* Packets of clean frames.                                                  *)
LEMMA CleanIsPlain ==
  ASSUME NEW frames, AllClean(frames)
  PROVE  AllPlain(frames) /\ \A i \in DOMAIN frames : IsClean(frames[i])
BY DEF AllClean, AllPlain, IsClean

LEMMA CleanFrameWritten ==
  ASSUME PESInv, WavInv, MeantInv, CleanInv, DecodeDTSFrame
  PROVE  CleanInv'
<1>0. PES'.of = PES.of  BY DTSFrameEffect
<1> SUFFICES ASSUME PES.of # <<>>, AllClean(PES.of)
             PROVE  CleanInv'
  BY <1>0 DEF CleanInv
<1> DEFINE of == PES.of
           at == PES.at
           f  == Head(at)
           d  == Len(of) - Len(at)
           l  == Len(of)
           copied == Copied(f, PES.left)
           odd    == IF HasOddWord(f, PES.left) THEN 1 ELSE 0
           size   == f.size
           n  == Len(meant)
<1>1. /\ kind = "dts" /\ kind' = "dts"
      /\ meant' = Append(meant, [words |-> 2 * f.pairs, length |-> 2 * f.pairs, dataType |-> DataType(f.pairs),
                                 payload |-> copied + odd, exact |-> IsClean(f)])
  BY DEF DecodeDTSFrame
<1>2. AllPlain(PES.of)  BY CleanIsPlain
<1>3. /\ copied = size \div 2 /\ odd = 0 /\ 2 * (size \div 2) = size
      /\ d \in Nat /\ d + 1 \in 1 .. l /\ f = of[d + 1]
      /\ Len(PES'.of) - Len(PES'.at) = d + 1
  BY <1>2, PlainFrameEffect
<1>4. f \in DTSFrame_t /\ copied \in Int  BY DTSFrameEffect
<1>5. l \in Nat /\ n \in Nat /\ meant \in Seq(Burst_t)
  <2>1. meant \in Seq(Burst_t) /\ of \in Seq(DTSFrame_t)  BY <1>1 DEF MeantInv, PESInv
  <2>2. QED  BY <2>1, LenProperties
<1>6. LastAre(meant, of, d)  BY <1>1 DEF CleanInv
<1>7. size \in Nat  BY <1>4 DEF DTSFrame_t
<1> HIDE DEF size
<1> DEFINE burst == [words |-> 2 * f.pairs, length |-> 2 * f.pairs, dataType |-> DataType(f.pairs),
                     payload |-> copied + odd, exact |-> IsClean(f)]
<1>13. /\ Len(meant') = n + 1 /\ meant'[n + 1] = burst
       /\ \A i \in 1 .. n : meant'[i] = meant[i]
  <2>1. burst \in Burst_t
    <3>1. 2 * f.pairs \in Nat /\ DataType(f.pairs) \in 0 .. 14 /\ copied + odd \in Int
      BY <1>1, FrameWords
    <3>2. IsClean(f) \in BOOLEAN  BY DEF IsClean, IsPlain
    <3> HIDE DEF copied, odd
    <3>3. QED  BY <3>1, <3>2 DEF Burst_t
  <2>2. meant \in Seq(Burst_t) /\ meant' = Append(meant, burst)  BY <1>1 DEF MeantInv
  <2> HIDE DEF burst
  <2>3. QED  BY <2>1, <2>2, AppendProperties
<1>14. burst.words = 2 * of[d + 1].pairs /\ 2 * burst.payload = of[d + 1].size
  <2>1. burst.words = 2 * f.pairs /\ burst.payload = copied + odd  OBVIOUS
  <2> DEFINE half == size \div 2
  <2>2. half \in Nat /\ 2 * (half + 0) = size  BY <1>3, <1>7
  <2>3. burst.payload = half + 0  BY <1>3, <2>1
  <2>4. QED  BY <1>3, <2>1, <2>2, <2>3 DEF size
<1> HIDE DEF burst
<1>15. LastAre(meant', of, d + 1)
  <2>1. /\ d <= n
        /\ \A i \in 1 .. d :
             meant[n - d + i].words = 2 * of[i].pairs /\ 2 * meant[n - d + i].payload = of[i].size
    BY <1>6 DEF LastAre
  <2> HIDE DEF d, n, of, l
  <2>2. ASSUME NEW i \in 1 .. d + 1
        PROVE  /\ meant'[(n + 1) - (d + 1) + i].words = 2 * of[i].pairs
               /\ 2 * meant'[(n + 1) - (d + 1) + i].payload = of[i].size
    <3>1. CASE i = d + 1
      <4>1. (n + 1) - (d + 1) + i = n + 1  BY <1>3, <1>5, <3>1
      <4>2. QED  BY <1>13, <1>14, <3>1, <4>1
    <3>2. CASE i # d + 1
      <4>1. i \in 1 .. d /\ (n + 1) - (d + 1) + i = n - d + i /\ n - d + i \in 1 .. n
        BY <1>3, <1>5, <2>1, <3>2
      <4>2. QED  BY <1>13, <2>1, <4>1
    <3>3. QED  BY <3>1, <3>2
  <2>3. d + 1 <= n + 1  BY <1>3, <1>5, <2>1
  <2>5. Len(meant') = n + 1  BY <1>13
  <2>6. QED  BY <2>2, <2>3, <2>5 DEF LastAre
<1>16. QED
  <2> HIDE DEF d, l
  <2>1. LastAre(meant', PES'.of, Len(PES'.of) - Len(PES'.at))  BY <1>0, <1>3, <1>15
  <2>2. QED  BY <1>1, <2>1 DEF CleanInv

(* When nothing is left of a packet of clean frames, all of it is written. *)
LEMMA CleanPacketWritten ==
  ASSUME PESInv, CleanInv, kind = "dts", Idle, PES.of # <<>>, AllClean(PES.of)
  PROVE  LastAre(meant, PES.of, Len(PES.of))
<1>1. PES.of \in Seq(DTSFrame_t) /\ IsDTSPacket(PES) /\ PES.left = 0  BY DEF PESInv, Idle
<1>2. LastAre(meant, PES.of, Len(PES.of) - Len(PES.at))  BY DEF CleanInv
<1>3. ASSUME PES.at # <<>> PROVE FALSE
  <2>1. Head(PES.at) \in DTSFrame_t /\ Head(PES.at).size <= PES.left
    BY <1>1, <1>3, CleanIsPlain, PlainIsLeft
  <2>2. Head(PES.at).size \in Nat \ {0}  BY <2>1 DEF DTSFrame_t
  <2>3. QED  BY <1>1, <2>1, <2>2
<1>4. Len(PES.at) = 0 /\ Len(PES.of) \in Nat  BY <1>1, <1>3, LenProperties
<1>5. Len(PES.of) - Len(PES.at) = Len(PES.of)  BY <1>4
<1>6. QED  BY <1>2, <1>5

LEMMA CleanStep ==
  ASSUME PESInv, PESInv', WavInv, MeantInv, CleanInv, OutputNext
  PROVE  CleanInv'
<1>1. CASE DTSDecode
  <2>1. PICK frames \in Seq(DTSFrame_t), size \in Int :
          PES' = [of |-> frames, at |-> frames, left |-> size, rest |-> size, size |-> size,
                  taken |-> PES.taken + 1]
    BY <1>1, DTSDecodeTakes
  <2>2. kind' = "dts" /\ meant' = meant /\ kind = "dts"  BY <1>1 DEF DTSDecode
  <2>3. PES'.of = frames /\ PES'.at = frames  BY <2>1
  <2>4. Len(frames) - Len(frames) = 0  BY LenProperties
  <2>5. LastAre(meant', frames, 0)
    <3>1. meant \in Seq(Burst_t)  BY <2>2 DEF MeantInv
    <3>2. Len(meant) \in Nat  BY <3>1, LenProperties
    <3>3. QED  BY <2>2, <3>2 DEF LastAre
  <2>6. QED  BY <2>2, <2>3, <2>4, <2>5 DEF CleanInv
<1>2. CASE DecodeDTSFrame  BY <1>2, CleanFrameWritten
<1>3. CASE NoDTSSync \/ DTSMetadataOverrun
  <2>1. IsPES(PES) /\ kind = "dts" /\ kind' = kind /\ meant' = meant
    BY <1>3 DEF PESInv, NoDTSSync, DTSMetadataOverrun
  <2>2. PES' = PES \/ PES' = [PES EXCEPT !.left = 0]  BY <1>3 DEF NoDTSSync, DTSMetadataOverrun
  <2>3. PES'.of = PES.of /\ PES'.at = PES.at  BY <2>1, <2>2 DEF IsPES
  <2>4. QED  BY <2>1, <2>3 DEF CleanInv
<1>4. CASE DestroyWriter
  <2>1. UNCHANGED <<PES, meant>> /\ kind' = "gone" /\ Idle  BY <1>4 DEF DestroyWriter
  <2>2. CASE kind = "dts"
    <3>1. PES.of # <<>> /\ AllClean(PES.of) => LastAre(meant, PES.of, Len(PES.of))
      BY <2>1, <2>2, CleanPacketWritten
    <3>2. QED  BY <2>1, <3>1 DEF CleanInv
  <2>3. CASE kind # "dts"
    <3>1. PES.of # <<>> /\ AllClean(PES.of) => LastAre(meant, PES.of, Len(PES.of))
      BY <2>1, <2>3 DEF CleanInv
    <3>2. QED  BY <2>1, <3>1 DEF CleanInv
  <2>4. QED  BY <2>2, <2>3
<1>5. CASE LPCMDecode \/ DecodeLPCMFrame \/ AC3PESDecode \/ WriteAC3Frame \/ EAC3PESDecode
           \/ NoAC3Range \/ DumpPESDecode \/ WriteOwnSample
  <2>1. kind' \notin {"dts", "gone"}
    BY <1>5
    DEF LPCMDecode, DecodeLPCMFrame, AC3PESDecode, WriteAC3Frame, EAC3PESDecode, NoAC3Range,
        DumpPESDecode, WriteOwnSample
  <2>2. PES'.of = <<>>  BY <2>1 DEF PESInv
  <2>3. QED  BY <2>2 DEF CleanInv
<1>6. CASE SwitchDebug \/ OpenReader \/ ReadOwnSample
  <2>1. UNCHANGED <<PES, meant, kind>>  BY <1>6 DEF SwitchDebug, OpenReader, ReadOwnSample
  <2>2. QED  BY <2>1 DEF CleanInv, Idle
<1>7. CASE DestroyDump
  <2>1. PES' = PES /\ kind \notin {"dts", "gone"}  BY <1>7 DEF DestroyDump
  <2>2. PES'.of = <<>>  BY <2>1 DEF PESInv
  <2>3. QED  BY <2>2 DEF CleanInv
<1>8. QED
  BY <1>1, <1>2, <1>3, <1>4, <1>5, <1>6, <1>7 DEF OutputNext

LEMMA PlaceStart ==
  ASSUME OutputInit
  PROVE  PlaceInv /\ CleanInv
<1>1. meant = <<>> /\ PES.of = <<>>  BY DEF OutputInit, NoPES
<1>2. Len(meant) = 0 /\ meant \in Seq(Burst_t)  BY <1>1
<1>3. Placed(meant, wav.file.data)  BY <1>2 DEF Placed
<1>4. kind \in {"dts", "ac3"} => Filled(meant, wav.file.data)
  <2> SUFFICES ASSUME kind \in {"dts", "ac3"} PROVE Filled(meant, wav.file.data)  OBVIOUS
  <2>1. PICK depth \in IF kind = "samples" THEN {16, 20, 24} ELSE {16} :
          wav = IF kind \in WAVKinds \ {"eac3"} THEN NewWAVFile(wav_params(depth, 2, 48000)) ELSE NoWAV
    BY DEF OutputInit
  <2>2. Len(wav.file.data) = 0
    <3>1. depth \in {16, 20, 24} /\ kind \in WAVKinds \ {"eac3"}  BY <2>1 DEF WAVKinds
    <3>2. wav = NewWAVFile(wav_params(depth, 2, 48000))  BY <2>1, <3>1
    <3>3. wav.file.data = <<>>  BY <3>1, <3>2, NewIsOpen
    <3>4. QED  BY <3>3
  <2>3. Spacing(meant) \in Seq(Nat) /\ Len(Spacing(meant)) = 0
    BY <1>2, SpacingType
  <2>4. PartialSums(Spacing(meant))[0] = 0
    BY <2>3, PartialSumsAre DEF SumsOf
  <2>5. QED  BY <1>2, <2>2, <2>4 DEF Filled
<1>5. QED  BY <1>1, <1>3, <1>4 DEF PlaceInv, CleanInv

(* BurstsKeepTheirPlace: in a file of bursts each begins where the spacing   *)
(* of those before it puts it, as long as every frame before it was clean;   *)
(* and of a DTS packet of clean frames none is lost; packets and frames of   *)
(* any size.                                                                 *)
THEOREM BurstsKeepTheirPlaceHolds == Spec => []BurstsKeepTheirPlace
<1> DEFINE Inv == PESInv /\ WavInv /\ MeantInv /\ PlaceInv /\ CleanInv
<1>1. Init => Inv
  <2> SUFFICES ASSUME Init PROVE Inv  OBVIOUS
  <2>1. OutputInit  BY DEF Init, OutputRests
  <2>2. QED  BY <2>1, PESStart, WavStart, PlaceStart
<1>2. Inv /\ [Next]_libraryVars => Inv'
  <2> SUFFICES ASSUME Inv, [Next]_libraryVars PROVE Inv'  OBVIOUS
  <2>1. CASE OutputNext  BY <2>1, PESStep, WavStep, MeantStep, PlaceStep, CleanStep
  <2>2. CASE UNCHANGED outputVars
    <3>1. UNCHANGED <<kind, PES, wav, meant>>  BY <2>2 DEF outputVars
    <3>2. QED
      BY <3>1
      DEF PESInv, WavInv, MeantInv, PlaceInv, CleanInv, IsOpen, IsClosed, IsOwn, Idle
  <2>3. QED  BY <2>1, <2>2 DEF Next, libraryVars
<1>3. Inv => BurstsKeepTheirPlace
  <2> SUFFICES ASSUME Inv, ~IsOwn PROVE BurstsKeepTheirPlace  BY DEF BurstsKeepTheirPlace
  <2>1. ASSUME NEW k \in DOMAIN meant, \A i \in 1 .. k : meant[i].exact
        PROVE  BurstAt(wav.file.data, Spaced(k - 1), meant[k])
    <3>1. k \in 1 .. Len(meant)
      <4>1. meant \in Seq(Own_t) \/ meant \in Seq(Burst_t)  BY DEF MeantInv
      <4>2. DOMAIN meant = 1 .. Len(meant)  BY <4>1, LenProperties
      <4>3. QED  BY <2>1, <4>2
    <3>2. BurstAt(wav.file.data, PartialSums(Spacing(meant))[k - 1], meant[k])
      BY <2>1, <3>1 DEF PlaceInv, Placed, Exact
    <3>3. QED  BY <3>2 DEF Spaced, Spacing
  <2>2. ASSUME Idle, PES.of # <<>>, AllClean(PES.of)
        PROVE  LastAre(meant, PES.of, Len(PES.of)) /\ DOMAIN PES.of = 1 .. Len(PES.of)
               /\ Len(PES.of) \in Nat /\ Len(meant) \in Nat
    <3>1. LastAre(meant, PES.of, Len(PES.of))
      <4>1. CASE kind = "dts"  BY <2>2, <4>1, CleanPacketWritten
      <4>2. CASE kind # "dts"  BY <2>2, <4>2 DEF CleanInv
      <4>3. QED  BY <4>1, <4>2
    <3>2. meant \in Seq(Own_t) \/ meant \in Seq(Burst_t)  BY DEF MeantInv
    <3>3. PES.of \in Seq(DTSFrame_t)  BY DEF PESInv
    <3>4. QED  BY <3>1, <3>2, <3>3, LenProperties
  <2>3. QED  BY <2>1, <2>2 DEF BurstsKeepTheirPlace, BurstAt, WordAt, WordOf, AllClean, LastAre
<1> HIDE DEF Inv
<1>4. QED  BY <1>1, <1>2, <1>3, PTL DEF Spec

-----------------------------------------------------------------------------
(* The calculations.  Arithmetic first: words are as wide as one likes, so   *)
(* that powers of two and remainders by them are all there is to go by.      *)

(* Powers of two count subsets: so they are positive, and multiply. *)
LEMMA PowerCounts ==
  ASSUME NEW S, IsFiniteSet(S)
  PROVE  /\ IsFiniteSet(SUBSET S) /\ Cardinality(S) \in Nat
         /\ 2^Cardinality(S) = Cardinality(SUBSET S)
         /\ 2^Cardinality(S) \in Nat \ {0}
<1>1. /\ IsFiniteSet(SUBSET S) /\ Cardinality(SUBSET S) = 2^Cardinality(S)
      /\ Cardinality(S) \in Nat
  BY FS_SUBSET, FS_CardinalityType
<1>2. Cardinality(SUBSET S) \in Nat
  BY <1>1, FS_CardinalityType
<1>3. SUBSET S # {}
  OBVIOUS
<1>4. Cardinality(SUBSET S) # 0
  BY <1>1, <1>3, FS_EmptySet
<1>5. QED BY <1>1, <1>2, <1>4

LEMMA IntervalSize ==
  ASSUME NEW a \in Int, NEW b \in Int, a <= b + 1
  PROVE  IsFiniteSet(a .. b) /\ Cardinality(a .. b) = b - a + 1
<1>1. IsFiniteSet(a .. b) /\ Cardinality(a .. b) = (IF a > b THEN 0 ELSE b - a + 1)
  BY FS_Interval
<1>2. QED BY <1>1

LEMMA PowersMultiply ==
  ASSUME NEW m \in Nat, NEW n \in Nat
  PROVE  2^(m + n) = 2^m * 2^n
<1> DEFINE A == 1 .. m
           B == m + 1 .. m + n
           C == 1 .. m + n
<1>1. IsFiniteSet(A) /\ Cardinality(A) = m
  BY IntervalSize
<1>2. IsFiniteSet(B) /\ Cardinality(B) = n
  <2>1. /\ m + 1 \in Int /\ m + n \in Int /\ m + 1 <= (m + n) + 1
        /\ (m + n) - (m + 1) + 1 = n
    OBVIOUS
  <2>2. QED BY <2>1, IntervalSize
<1>3. IsFiniteSet(C) /\ Cardinality(C) = m + n
  BY IntervalSize
<1>4. C = A \cup B /\ A \cap B = {}
  OBVIOUS
<1> HIDE DEF A, B, C
<1>5. /\ IsFiniteSet(SUBSET A) /\ Cardinality(SUBSET A) = 2^m
      /\ IsFiniteSet(SUBSET B) /\ Cardinality(SUBSET B) = 2^n
      /\ IsFiniteSet(SUBSET C) /\ Cardinality(SUBSET C) = 2^(m + n)
  BY <1>1, <1>2, <1>3, PowerCounts
<1> DEFINE f == [T \in SUBSET C |-> <<T \cap A, T \cap B>>]
<1>6. f \in Bijection(SUBSET C, (SUBSET A) \X (SUBSET B))
  <2>1. f \in [SUBSET C -> (SUBSET A) \X (SUBSET B)]
    OBVIOUS
  <2>2. \A T, U \in SUBSET C : f[T] = f[U] => T = U
    <3> SUFFICES ASSUME NEW T \in SUBSET C, NEW U \in SUBSET C, f[T] = f[U] PROVE T = U
      OBVIOUS
    <3>1. T \cap A = U \cap A /\ T \cap B = U \cap B
      OBVIOUS
    <3>2. QED BY <1>4, <3>1
  <2>3. \A p \in (SUBSET A) \X (SUBSET B) : \E T \in SUBSET C : f[T] = p
    <3>1. ASSUME NEW T \in SUBSET A, NEW U \in SUBSET B PROVE T \cup U \in SUBSET C /\ f[T \cup U] = <<T, U>>
      <4>1. T \cup U \in SUBSET C /\ (T \cup U) \cap A = T /\ (T \cup U) \cap B = U
        BY <1>4
      <4>2. QED BY <4>1
    <3> HIDE DEF f
    <3>2. ASSUME NEW p \in (SUBSET A) \X (SUBSET B) PROVE \E T \in SUBSET C : f[T] = p
      <4>1. p[1] \in SUBSET A /\ p[2] \in SUBSET B /\ p = <<p[1], p[2]>>
        OBVIOUS
      <4>2. p[1] \cup p[2] \in SUBSET C /\ f[p[1] \cup p[2]] = <<p[1], p[2]>>
        BY <3>1, <4>1
      <4>3. QED BY <4>1, <4>2, Zenon
    <3>3. QED BY <3>2
  <2> HIDE DEF f
  <2>4. f \in Injection(SUBSET C, (SUBSET A) \X (SUBSET B))
    BY <2>1, <2>2 DEF Injection, IsInjective
  <2>5. f \in Surjection(SUBSET C, (SUBSET A) \X (SUBSET B))
    BY <2>1, <2>3 DEF Surjection
  <2>6. QED BY <2>4, <2>5 DEF Bijection
<1>7. Cardinality((SUBSET A) \X (SUBSET B)) = Cardinality(SUBSET C)
  <2>1. ExistsBijection(SUBSET C, (SUBSET A) \X (SUBSET B))
    BY <1>6 DEF ExistsBijection
  <2>2. QED BY <1>5, <2>1, FS_Bijection
<1>8. Cardinality((SUBSET A) \X (SUBSET B)) = Cardinality(SUBSET A) * Cardinality(SUBSET B)
  BY <1>5, FS_Product
<1>9. QED BY <1>5, <1>7, <1>8

LEMMA PowerIsPositive ==
  ASSUME NEW n \in Nat
  PROVE  2^n \in Nat /\ 2^n >= 1
<1>1. IsFiniteSet(1 .. n) /\ Cardinality(1 .. n) = n
  BY IntervalSize
<1>2. 2^n \in Nat \ {0}
  BY <1>1, PowerCounts
<1>3. QED BY <1>2

LEMMA NextPower ==
  ASSUME NEW n \in Nat
  PROVE  2^(n + 1) = 2 * 2^n
<1>1. 2^(n + 1) = 2^n * 2^1
  BY PowersMultiply
<1>2. 2^1 = 2
  OBVIOUS
<1>3. 2^n \in Nat
  BY PowerIsPositive
<1>4. QED BY <1>1, <1>2, <1>3

LEMMA Division ==
  ASSUME NEW M \in Nat, M >= 1, NEW n \in Int
  PROVE  n = M * (n \div M) + (n % M) /\ n \div M \in Int /\ n % M \in 0 .. M - 1
BY SMT

LEMMA QuotientIs ==
  ASSUME NEW M \in Nat, M >= 1, NEW q \in Int, NEW r \in 0 .. M - 1, NEW n \in Int, n = M * q + r
  PROVE  n \div M = q /\ n % M = r
BY SMT

LEMMA RemainderIs ==
  ASSUME NEW M \in Nat, M >= 1, NEW q \in Int, NEW r \in 0 .. M - 1
  PROVE  (M * q + r) \div M = q /\ (M * q + r) % M = r
<1>1. M * q + r \in Int
  BY SMT
<1> DEFINE n == M * q + r
<1> HIDE DEF n
<1>2. n \in Int /\ n = M * q + r
  BY <1>1 DEF n
<1>3. n \div M = q /\ n % M = r
  BY <1>2, QuotientIs
<1>4. QED BY <1>3 DEF n

LEMMA ProductOfInt ==
  ASSUME NEW a \in Int, NEW b \in Int
  PROVE  a * b \in Int
BY SMT

LEMMA Distributes ==
  ASSUME NEW a \in Int, NEW b \in Int, NEW c \in Int
  PROVE  a * (b + c) = a * b + a * c /\ a * (b - c) = a * b - a * c
BY SMT

LEMMA SumTimes ==
  ASSUME NEW a \in Int, NEW b \in Int, NEW c \in Int, NEW d, d = a + b
  PROVE  d * c = a * c + b * c
BY SMT

LEMMA Associates ==
  ASSUME NEW a \in Int, NEW b \in Int, NEW c \in Int
  PROVE  a * (b * c) = (a * b) * c
BY SMT

LEMMA Commutes ==
  ASSUME NEW a \in Int, NEW b \in Int
  PROVE  a * b = b * a
BY SMT

(* Multiples of M vanish. *)
LEMMA SameRemainder ==
  ASSUME NEW M \in Nat, M >= 1, NEW n \in Int, NEW k \in Int
  PROVE  (n + M * k) % M = n % M
<1> DEFINE q == n \div M
           r == n % M
<1>1. n = M * q + r /\ q \in Int /\ r \in 0 .. M - 1
  BY Division
<1> HIDE DEF q, r
<1>2. M * (q + k) = M * q + M * k /\ q + k \in Int
  BY <1>1, Distributes
<1>3. M * q \in Int /\ M * k \in Int /\ M * (q + k) \in Int
  BY <1>1, ProductOfInt
<1>4. n + M * k = M * (q + k) + r /\ n + M * k \in Int
  BY <1>1, <1>2, <1>3
<1>5. (n + M * k) % M = r
  BY <1>1, <1>2, <1>4, QuotientIs
<1>6. QED BY <1>5 DEF r

LEMMA HalfPower ==
  ASSUME NEW w \in Nat \ {0}
  PROVE  /\ 2^w = 2 * 2^(w - 1) /\ w - 1 \in Nat
         /\ 2^w \in Nat /\ 2^w >= 1 /\ 2^(w - 1) \in Nat /\ 2^(w - 1) >= 1
<1>1. w - 1 \in Nat /\ (w - 1) + 1 = w
  OBVIOUS
<1>2. 2^((w - 1) + 1) = 2 * 2^(w - 1)
  BY <1>1, NextPower
<1>3. QED BY <1>1, <1>2, PowerIsPositive

(* A signed integer of w bits is the number, up to a multiple of 2^w; it is  *)
(* the number, if that fits.                                                 *)
LEMMA SignedIs ==
  ASSUME NEW w \in Nat \ {0}, NEW n \in Int
  PROVE  /\ Signed(n, w) \in Int
         /\ \E k \in Int : Signed(n, w) = n + 2^w * k
         /\ \A k \in Int : Signed(n + 2^w * k, w) = Signed(n, w)
         /\ n \in -(2^(w - 1)) .. 2^(w - 1) - 1 => Signed(n, w) = n
         /\ Signed(n, w) \in -(2^(w - 1)) .. 2^(w - 1) - 1
<1> DEFINE M == 2^w
           P == 2^(w - 1)
           q == n \div M
           r == n % M
<1>1. M \in Nat /\ M >= 1 /\ P \in Nat /\ P >= 1 /\ M = 2 * P
  BY HalfPower
<1>2. Signed(n, w) = IF r < P THEN r ELSE r - M
  BY DEF Signed
<1>3. \A k \in Int : Signed(n + M * k, w) = Signed(n, w)
  <2> SUFFICES ASSUME NEW k \in Int PROVE Signed(n + M * k, w) = Signed(n, w)
    OBVIOUS
  <2>1. (n + M * k) % M = n % M
    BY <1>1, SameRemainder
  <2>2. QED BY <2>1 DEF Signed
<1>4. ASSUME n \in -P .. P - 1 PROVE Signed(n, w) = n
  <2>1. CASE n >= 0
    <3>1. n = M * 0 + n /\ n \in 0 .. M - 1
      BY <1>1, <1>4, <2>1
    <3>2. r = n
      BY <1>1, <3>1, QuotientIs
    <3>3. QED BY <1>1, <1>2, <1>4, <3>2
  <2>2. CASE n < 0
    <3>1. n + M = M * 0 + (n + M) /\ n + M \in 0 .. M - 1 /\ M * 1 = M
      BY <1>1, <1>4, <2>2
    <3>2. r = n + M
      <4>1. (n + M) % M = n + M
        BY <1>1, <3>1, QuotientIs
      <4>2. (n + M * 1) % M = n % M
        <5>1. \A k \in Int : (n + M * k) % M = n % M
          BY <1>1, SameRemainder
        <5> HIDE DEF M
        <5>2. QED BY <5>1
      <4>3. QED BY <3>1, <4>1, <4>2
    <3>3. QED BY <1>1, <1>2, <1>4, <2>2, <3>2
  <2>3. QED BY <2>1, <2>2
<1>5. n = M * q + r /\ q \in Int /\ r \in 0 .. M - 1
  BY <1>1, Division
<1> HIDE DEF M, P, q, r
<1>6. Signed(n, w) \in Int /\ Signed(n, w) \in -P .. P - 1
  BY <1>1, <1>2, <1>5
<1>7. \E k \in Int : Signed(n, w) = n + M * k
  <2>1. M * (-q) = -(M * q) /\ M * (-q - 1) = -(M * q) - M /\ M * q \in Int
    BY <1>1, <1>5, SMT
  <2>2. CASE r < P
    <3>1. Signed(n, w) = n + M * (-q) /\ -q \in Int
      BY <1>1, <1>2, <1>5, <2>1, <2>2
    <3>2. QED BY <3>1
  <2>3. CASE ~(r < P)
    <3>1. Signed(n, w) = n + M * (-q - 1) /\ -q - 1 \in Int
      BY <1>1, <1>2, <1>5, <2>1, <2>3
    <3>2. QED BY <3>1
  <2>4. QED BY <2>2, <2>3
<1>8. QED BY <1>3, <1>4, <1>6, <1>7 DEF M, P

-----------------------------------------------------------------------------
(* Products *)

(* The powers of two that the products need. *)
LEMMA HalvesOfWord ==
  /\ HALF \in Nat \ {0} /\ WORD \in Nat \ {0} /\ 2 * WORD \in Nat \ {0}
  /\ 2^HALF \in Nat /\ 2^HALF >= 1 /\ 2^WORD = 2^HALF * 2^HALF
  /\ 2^WORD \in Nat /\ 2^WORD >= 1 /\ 2^(2 * WORD) = 2^WORD * 2^WORD
<1>1. HALF \in Nat \ {0} /\ WORD = HALF + HALF /\ 2 * WORD = WORD + WORD
  BY HalfAssumption DEF WORD
<1>2. WORD \in Nat \ {0} /\ 2 * WORD \in Nat \ {0}
  BY <1>1
<1>3. 2^(HALF + HALF) = 2^HALF * 2^HALF /\ 2^(WORD + WORD) = 2^WORD * 2^WORD
  BY <1>1, <1>2, PowersMultiply
<1>4. QED BY <1>1, <1>2, <1>3, PowerIsPositive

LEMMA Halves ==
  ASSUME NEW b \in Int
  PROVE  /\ Upper(b, HALF) \in Int /\ Lower(b, HALF) \in 0 .. 2^HALF - 1
         /\ b = 2^HALF * Upper(b, HALF) + Lower(b, HALF)
         /\ Upper(b, WORD) \in Int /\ Lower(b, WORD) \in 0 .. 2^WORD - 1
         /\ b = 2^WORD * Upper(b, WORD) + Lower(b, WORD)
BY HalvesOfWord, Division DEF Upper, Lower

LEMMA HalfWordByWord ==
  ASSUME NEW a \in Int, NEW b \in Int
  PROVE  multiply16by32(a, b) = Signed(a * b, WORD)
<1> DEFINE H == 2^HALF
           M == 2^WORD
           u == Upper(b, HALF)
           l == Lower(b, HALF)
           ua == u * a
           la == l * a
           SU == Signed(ua, WORD)
           SL == Signed(la, WORD)
<1>1. H \in Nat /\ M \in Nat /\ WORD \in Nat \ {0}
  BY HalvesOfWord
<1>2. u \in Int /\ l \in Int /\ b = H * u + l
  BY Halves
<1> HIDE DEF H, M, u, l
<1>3. ua \in Int /\ la \in Int
  BY <1>2, ProductOfInt
<1> HIDE DEF ua, la
<1>4. SU \in Int /\ SL \in Int
  BY <1>1, <1>3, SignedIs
<1>5. PICK k \in Int : SU = ua + M * k
  BY <1>1, <1>3, SignedIs DEF M
<1>6. PICK j \in Int : SL = la + M * j
  BY <1>1, <1>3, SignedIs DEF M
<1>7. H * SU + SL = a * b + M * (H * k + j)
  <2>1. H * SU = H * ua + H * (M * k)
    BY <1>1, <1>3, <1>5, ProductOfInt, Distributes
  <2>2. H * (M * k) = M * (H * k)
    BY <1>1, <1>5, SMT
  <2>3. M * (H * k + j) = M * (H * k) + M * j
    BY <1>1, <1>5, <1>6, ProductOfInt, Distributes
  <2>4. a * b = H * ua + la
    BY <1>1, <1>2, SMT DEF ua, la
  <2>5. /\ H * ua \in Int /\ M * (H * k) \in Int /\ M * j \in Int
        /\ H * SU \in Int /\ a * b \in Int /\ M * (H * k + j) \in Int
    <3>1. H \in Int /\ H * k \in Int /\ H * k + j \in Int
      BY <1>1, <1>5, <1>6, ProductOfInt
    <3>2. QED BY <1>1, <1>3, <1>4, <1>5, <1>6, <3>1, ProductOfInt
  <2> DEFINE A == H * ua
             B == M * (H * k)
             C == M * j
             D == H * SU
             E == a * b
             F == M * (H * k + j)
  <2>6. D = A + B /\ F = B + C /\ E = A + la /\ SL = la + C
    BY <1>6, <2>1, <2>2, <2>3, <2>4
  <2>7. A \in Int /\ B \in Int /\ C \in Int
    BY <2>5
  <2> HIDE DEF A, B, C, D, E, F
  <2>8. D + SL = E + F
    BY <1>3, <2>6, <2>7
  <2>9. QED BY <2>8 DEF D, E, F
<1>8. a * b \in Int /\ H * k + j \in Int
  BY <1>1, <1>5, <1>6, ProductOfInt
<1>9. Signed(a * b + M * (H * k + j), WORD) = Signed(a * b, WORD)
  BY <1>1, <1>8, SignedIs DEF M
<1>10. multiply16by32(a, b) = Signed(H * SU + SL, WORD)
  BY DEF multiply16by32, H, u, l, ua, la
<1>11. QED BY <1>7, <1>9, <1>10

(* The lower half of a word that is shifted takes the bits that fall out of  *)
(* the upper half.                                                           *)
LEMMA BitsFallDown ==
  ASSUME NEW R \in Nat, R >= 1, NEW Q \in Nat, Q >= 1, NEW n \in Int, NEW r \in 0 .. (R * Q) - 1
  PROVE  ((R * Q) * n + r) \div R = (R * Q) * (n \div R) + (((Q * n) % (R * Q)) + (r \div R))
<1> DEFINE H == R * Q
<1> HIDE DEF H
<1> DEFINE x == n \div R
           v == n % R
           y == r \div R
           z == r % R
<1>1. n = R * x + v /\ x \in Int /\ v \in 0 .. R - 1
  BY Division
<1>2. H \in Nat /\ H >= 1 /\ r \in 0 .. H - 1 /\ r \in Int
  BY SMT DEF H
<1>3. r = R * y + z /\ y \in Int /\ z \in 0 .. R - 1
  BY <1>2, Division
<1> HIDE DEF x, v, y, z
<1>4. Q * n = H * x + Q * v /\ H * n = R * (H * x + Q * v)
  <2>1. Q * n = Q * (R * x) + Q * v
    BY <1>1, ProductOfInt, Distributes
  <2>2. Q * (R * x) = H * x
    BY <1>1, SMT DEF H
  <2>3. H * n = R * (Q * n)
    BY <1>1, Associates DEF H
  <2>4. QED BY <2>1, <2>2, <2>3
<1>5. Q * v \in 0 .. H - 1
  <2>1. Q * v \in Int /\ Q * v >= 0
    BY <1>1, SMT
  <2>2. v <= R - 1 /\ R - 1 \in Nat
    BY <1>1
  <2>3. Q * v <= Q * (R - 1)
    BY <1>1, <2>2, SMT
  <2>4. Q * (R - 1) = H - Q
    BY SMT DEF H
  <2>5. QED BY <1>2, <2>1, <2>3, <2>4
<1>6. (Q * n) % H = Q * v
  <2>1. (H * x + Q * v) % H = Q * v
    BY <1>1, <1>2, <1>5, RemainderIs
  <2>2. QED BY <1>4, <2>1
<1>7. H * n + r = R * (H * x + Q * v + y) + z
  <2>1. H * x + Q * v \in Int
    BY <1>1, <1>2, ProductOfInt
  <2>2. R * (H * x + Q * v + y) = R * (H * x + Q * v) + R * y
    BY <1>3, <2>1, Distributes
  <2>3. R * (H * x + Q * v) \in Int /\ R * y \in Int
    BY <1>3, <2>1, ProductOfInt
  <2>4. QED BY <1>2, <1>3, <1>4, <2>2, <2>3
<1>8. (H * n + r) \div R = H * x + Q * v + y
  <2>1. H * x + Q * v + y \in Int /\ H * n + r \in Int
    BY <1>1, <1>2, <1>3, ProductOfInt
  <2>2. (R * (H * x + Q * v + y) + z) \div R = H * x + Q * v + y
    BY <1>3, <2>1, RemainderIs
  <2>3. QED BY <1>7, <2>2
<1>9. H * x \in Int /\ Q * v \in Int
  BY <1>1, <1>2, ProductOfInt
<1>10. (H * n + r) \div R = H * x + (Q * v + y)
  BY <1>3, <1>8, <1>9
<1>11. QED BY <1>6, <1>10 DEF x, y, H

LEMMA ShiftedProduct ==
  ASSUME NEW a \in Int, NEW b \in Int, NEW rs \in 0 .. HALF
  PROVE  multiply_16by32to32withlsr(a, b, rs) = Signed((a * b) \div 2^rs, WORD)
<1> DEFINE H == 2^HALF
           R == 2^rs
           Q == 2^(HALF - rs)
           u == Upper(b, HALF)
           l == Lower(b, HALF)
           la == l * a
           c == Upper(la, HALF)
           r == Lower(la, HALF)
           n == u * a + c
<1>1. /\ R \in Nat /\ R >= 1 /\ Q \in Nat /\ Q >= 1 /\ H = R * Q
      /\ H \in Nat /\ H >= 1
  <2>1. rs \in Nat /\ HALF - rs \in Nat /\ rs + (HALF - rs) = HALF
    BY HalfAssumption
  <2>2. 2^(rs + (HALF - rs)) = 2^rs * 2^(HALF - rs)
    BY <2>1, PowersMultiply
  <2>3. QED BY <2>1, <2>2, HalvesOfWord, PowerIsPositive
<1>2. u \in Int /\ l \in Int /\ b = H * u + l
  BY Halves
<1>3. la \in Int
  BY <1>2, ProductOfInt
<1>4. c \in Int /\ r \in 0 .. H - 1 /\ la = H * c + r
  BY <1>3, Halves
<1>5. n \in Int
  BY <1>2, <1>4, ProductOfInt
<1>6. multiply_16by32to32withlsr(a, b, rs) =
        Signed(H * (n \div R) + (((Q * n) % H) + (r \div R)), WORD)
  BY DEF multiply_16by32to32withlsr, Carried
<1> HIDE DEF H, R, Q, u, l, c, r
<1>7. a * b = H * n + r
  <2>1. a * b = H * (u * a) + la
    BY <1>1, <1>2, SMT
  <2>2. H * n = H * (u * a) + H * c
    BY <1>1, <1>2, <1>4, ProductOfInt, Distributes
  <2>3. H * (u * a) \in Int /\ H * c \in Int
    BY <1>1, <1>2, <1>4, ProductOfInt
  <2> HIDE DEF la, n
  <2>4. r \in Int
    BY <1>1, <1>4
  <2>5. QED BY <1>4, <2>1, <2>2, <2>3, <2>4
<1> HIDE DEF n
<1>8. (H * n + r) \div R = H * (n \div R) + (((Q * n) % H) + (r \div R))
  <2>1. r \in 0 .. (R * Q) - 1
    BY <1>1, <1>4
  <2>2. ((R * Q) * n + r) \div R = (R * Q) * (n \div R) + (((Q * n) % (R * Q)) + (r \div R))
    BY <1>1, <1>5, <2>1, BitsFallDown
  <2>3. QED BY <1>1, <2>2
<1>9. QED BY <1>6, <1>7, <1>8 DEF R

(* A word by a word: whatever is added to a middle product is a multiple of  *)
(* the word once it is shifted.                                              *)
LEMMA WordByWord ==
  ASSUME NEW a \in Int, NEW b \in Int
  PROVE  \E k \in Int : multiply32by32(a, b) = a * b + 2^WORD * k
<1> DEFINE H == 2^HALF
           M == 2^WORD
           au == Upper(a, HALF)
           al == Lower(a, HALF)
           bu == Upper(b, HALF)
           bl == Lower(b, HALF)
           P1 == Signed(au * bu, WORD)
           P2 == Signed(H * Signed(au * bl, WORD), WORD)
           P3 == Signed(H * Signed(al * bu, WORD), WORD)
           P4 == Signed(al * bl, WORD)
<1>1. H \in Nat /\ M \in Nat /\ M = H * H /\ WORD \in Nat \ {0}
  BY HalvesOfWord
<1>2. /\ au \in Int /\ al \in Int /\ a = H * au + al
      /\ bu \in Int /\ bl \in Int /\ b = H * bu + bl
  BY Halves
<1>3. multiply32by32(a, b) = M * P1 + P2 + P3 + P4
  BY DEF multiply32by32
<1>4. \A n \in Int : Signed(n, WORD) \in Int /\ \E k \in Int : Signed(n, WORD) = n + M * k
  BY <1>1, SignedIs
<1> HIDE DEF H, M, au, al, bu, bl
(* A middle product. *)
<1>5. ASSUME NEW x \in Int, NEW y \in Int
      PROVE  \E k \in Int : Signed(H * Signed(x * y, WORD), WORD) = H * (x * y) + M * k
  <2> DEFINE xy == x * y
             S == Signed(xy, WORD)
             HS == H * S
             T == Signed(HS, WORD)
  <2>1. xy \in Int
    BY ProductOfInt
  <2> HIDE DEF xy
  <2>2. PICK i \in Int : S = xy + M * i
    BY <1>4, <2>1
  <2>3. S \in Int
    BY <1>4, <2>1
  <2> HIDE DEF S
  <2>4. HS \in Int
    BY <1>1, <2>3, ProductOfInt
  <2> HIDE DEF HS
  <2>5. PICK j \in Int : T = HS + M * j
    BY <1>4, <2>4
  <2> HIDE DEF T
  <2>6. HS = H * xy + M * (H * i)
    <3>1. HS = H * xy + H * (M * i)
      BY <1>1, <2>1, <2>2, ProductOfInt, Distributes DEF HS
    <3>2. H * (M * i) = M * (H * i)
      BY <1>1, <2>2, SMT
    <3>3. QED BY <3>1, <3>2
  <2>7. M * (H * i + j) = M * (H * i) + M * j /\ H * i + j \in Int
    BY <1>1, <2>2, <2>5, ProductOfInt, Distributes
  <2>8. M * (H * i) \in Int /\ M * j \in Int /\ H * xy \in Int
    BY <1>1, <2>1, <2>2, <2>5, ProductOfInt
  <2>9. T = H * xy + M * (H * i + j)
    BY <2>5, <2>6, <2>7, <2>8
  <2>10. QED BY <2>7, <2>9 DEF T, HS, S, xy
<1>6. PICK k2 \in Int : P2 = H * (au * bl) + M * k2
  BY <1>2, <1>5
<1>7. PICK k3 \in Int : P3 = H * (al * bu) + M * k3
  BY <1>2, <1>5
<1>8. P1 \in Int /\ \E k \in Int : P4 = al * bl + M * k
  BY <1>2, <1>4, ProductOfInt
<1>9. PICK k4 \in Int : P4 = al * bl + M * k4
  BY <1>8
<1>10. a * b = M * (au * bu) + H * (au * bl) + H * (al * bu) + al * bl
  <2>1. a * b = (H * au) * b + al * b
    BY <1>1, <1>2, SMT
  <2>2. (H * au) * b = (H * au) * (H * bu) + (H * au) * bl
    BY <1>1, <1>2, ProductOfInt, Distributes
  <2>3. al * b = al * (H * bu) + al * bl
    BY <1>1, <1>2, ProductOfInt, Distributes
  <2>4. (H * au) * (H * bu) = M * (au * bu)
    BY <1>1, <1>2, SMT
  <2>5. (H * au) * bl = H * (au * bl) /\ al * (H * bu) = H * (al * bu)
    BY <1>1, <1>2, SMT
  <2>6. /\ M * (au * bu) \in Int /\ H * (au * bl) \in Int
        /\ H * (al * bu) \in Int /\ al * bl \in Int
    BY <1>1, <1>2, ProductOfInt
  <2>7. QED BY <2>1, <2>2, <2>3, <2>4, <2>5, <2>6
<1> DEFINE k == (P1 - au * bu) + k2 + k3 + k4
<1> HIDE DEF P1, P2, P3, P4
<1>11. k \in Int
  BY <1>2, <1>6, <1>7, <1>8, <1>9, ProductOfInt
<1>12. M * k = M * P1 - M * (au * bu) + M * k2 + M * k3 + M * k4
  <2> DEFINE x == P1 - au * bu
  <2>1. x \in Int /\ M * x = M * P1 - M * (au * bu)
    BY <1>1, <1>2, <1>8, ProductOfInt, Distributes
  <2> HIDE DEF x
  <2>2. M * (x + k2 + k3 + k4) = M * x + M * k2 + M * k3 + M * k4
    <3>1. M * (x + k2 + k3 + k4) = M * (x + k2 + k3) + M * k4
      BY <1>1, <2>1, <1>6, <1>7, <1>9, Distributes
    <3>2. M * (x + k2 + k3) = M * (x + k2) + M * k3
      BY <1>1, <2>1, <1>6, <1>7, Distributes
    <3>3. M * (x + k2) = M * x + M * k2
      BY <1>1, <2>1, <1>6, Distributes
    <3>4. QED BY <3>1, <3>2, <3>3
  <2>3. k = x + k2 + k3 + k4
    BY DEF k, x
  <2>4. QED BY <2>1, <2>2, <2>3
<1> HIDE DEF k
<1>13. /\ M * P1 \in Int /\ M * (au * bu) \in Int /\ M * k2 \in Int /\ M * k3 \in Int
       /\ M * k4 \in Int /\ H * (au * bl) \in Int /\ H * (al * bu) \in Int /\ al * bl \in Int
  BY <1>1, <1>2, <1>6, <1>7, <1>8, <1>9, ProductOfInt
<1>14. M * P1 + P2 + P3 + P4 = a * b + M * k
  <2> DEFINE A == M * P1
             B == M * (au * bu)
             C == H * (au * bl)
             D == H * (al * bu)
             E == al * bl
             K2 == M * k2
             K3 == M * k3
             K4 == M * k4
             ab == a * b
             Mk == M * k
  <2>1. /\ A \in Int /\ B \in Int /\ C \in Int /\ D \in Int /\ E \in Int
        /\ K2 \in Int /\ K3 \in Int /\ K4 \in Int
        /\ P2 = C + K2 /\ P3 = D + K3 /\ P4 = E + K4
        /\ ab = B + C + D + E /\ Mk = A - B + K2 + K3 + K4
    BY <1>6, <1>7, <1>9, <1>10, <1>12, <1>13
  <2> HIDE DEF A, B, C, D, E, K2, K3, K4, ab, Mk
  <2>2. A + P2 + P3 + P4 = ab + Mk
    BY <2>1
  <2>3. QED BY <2>2 DEF A, ab, Mk
<1>15. QED BY <1>3, <1>11, <1>14 DEF M

(* The lower word is right. *)
LEMMA LowerWordIsRight ==
  ASSUME NEW a \in Int, NEW b \in Int
  PROVE  (multiply32by32(a, b) - a * b) % 2^WORD = 0
<1>1. PICK k \in Int : multiply32by32(a, b) = a * b + 2^WORD * k
  BY WordByWord
<1>2. 2^WORD \in Nat /\ 2^WORD >= 1 /\ a * b \in Int /\ 2^WORD * k \in Int
  BY HalvesOfWord, ProductOfInt
<1>3. multiply32by32(a, b) - a * b = 2^WORD * k + 0
  BY <1>1, <1>2
<1>4. 0 \in 0 .. 2^WORD - 1
  BY <1>2
<1>5. (2^WORD * k + 0) % 2^WORD = 0
  BY <1>2, <1>4, RemainderIs
<1>6. QED BY <1>3, <1>5

(* A number that fits the lower half is that half. *)
LEMMA OnlyLower ==
  ASSUME NEW n \in Nat, NEW half \in Nat, n < 2^half
  PROVE  Upper(n, half) = 0 /\ Lower(n, half) = n
<1> DEFINE M == 2^half
<1>1. M \in Nat /\ M >= 1
  BY PowerIsPositive
<1>2. n \div M = 0 /\ n % M = n
  <2>1. 0 \in Int /\ n \in Int /\ n = M * 0 + n /\ n \in 0 .. M - 1
    BY <1>1
  <2> HIDE DEF M
  <2>2. QED BY <1>1, <2>1, QuotientIs
<1>3. QED BY <1>2 DEF Upper, Lower

(* The product of numbers of half the bits and no sign fits a signed integer.*)
LEMMA SmallProductFits ==
  ASSUME NEW h \in Nat \ {0}, NEW a \in 0 .. 2^(h - 1) - 1, NEW b \in 0 .. 2^(h - 1) - 1
  PROVE  /\ a * b \in Nat /\ Signed(a * b, 2 * h) = a * b
         /\ a < 2^h /\ b < 2^h
<1> DEFINE P == 2^(h - 1)
           F == 2^(2 * h - 1)
<1>1. 2^h = 2 * P /\ P \in Nat /\ P >= 1
  BY HalfPower
<1>2. F = 2 * (P * P) /\ F \in Nat
  <2>1. 2 * h - 1 = (h - 1) + h /\ h - 1 \in Nat /\ h \in Nat
    OBVIOUS
  <2>2. 2^((h - 1) + h) = P * 2^h
    BY <2>1, PowersMultiply
  <2>3. P * (2 * P) = 2 * (P * P) /\ P * P \in Nat
    BY <1>1, SMT
  <2>4. QED BY <1>1, <2>1, <2>2, <2>3
<1> HIDE DEF P, F
<1>3. a \in 0 .. P - 1 /\ b \in 0 .. P - 1
  BY DEF P
<1>4. a * b \in Nat /\ a * b <= P * P
  BY <1>1, <1>3, SMT
<1>5. P * P >= 1
  BY <1>1, SMT
<1>6. a * b \in -F .. F - 1
  <2> DEFINE ab == a * b
             PP == P * P
  <2>1. ab \in Nat /\ PP >= 1 /\ ab <= PP /\ F = 2 * PP /\ PP \in Int
    BY <1>1, <1>2, <1>4, <1>5, ProductOfInt
  <2> HIDE DEF ab, PP
  <2>2. ab \in -F .. F - 1
    BY <2>1
  <2>3. QED BY <2>2 DEF ab
<1>7. Signed(a * b, 2 * h) = a * b
  <2>1. 2 * h \in Nat \ {0} /\ a * b \in Int
    BY <1>4
  <2>2. a * b \in -(2^(2 * h - 1)) .. 2^(2 * h - 1) - 1
    BY <1>6 DEF F
  <2>3. QED BY <2>1, <2>2, SignedIs
<1>8. a < 2^h /\ b < 2^h
  BY <1>1, <1>3
<1>9. QED BY <1>4, <1>7, <1>8

LEMMA SignedZero ==
  ASSUME NEW w \in Nat \ {0}
  PROVE  Signed(0, w) = 0
<1>1. 2^(w - 1) \in Nat /\ 2^(w - 1) >= 1
  BY HalfPower
<1>2. 0 \in -(2^(w - 1)) .. 2^(w - 1) - 1
  BY <1>1
<1>3. QED BY <1>2, SignedIs

(* The product of small factors is right in all of its bits. *)
LEMMA SmallWordByWord ==
  ASSUME NEW a \in 0 .. 2^(HALF - 1) - 1, NEW b \in 0 .. 2^(HALF - 1) - 1
  PROVE  multiply32by32(a, b) = a * b
<1>1. HALF \in Nat \ {0} /\ WORD = 2 * HALF /\ WORD \in Nat \ {0} /\ 2^HALF \in Nat /\ 2^WORD \in Nat
  BY HalvesOfWord DEF WORD
<1>2. a * b \in Nat /\ Signed(a * b, WORD) = a * b /\ a < 2^HALF /\ b < 2^HALF
  BY <1>1, SmallProductFits
<1>3. 2^(HALF - 1) \in Nat
  BY <1>1, HalfPower
<1>4. a \in Nat /\ b \in Nat
  BY <1>3
<1>5. /\ Upper(a, HALF) = 0 /\ Lower(a, HALF) = a
      /\ Upper(b, HALF) = 0 /\ Lower(b, HALF) = b
  BY <1>1, <1>2, <1>4, OnlyLower
<1>6. 0 * 0 = 0 /\ 0 * b = 0 /\ a * 0 = 0 /\ 2^HALF * 0 = 0 /\ 2^WORD * 0 = 0
  BY <1>1, <1>4
<1>7. Signed(0, WORD) = 0
  BY <1>1, SignedZero
<1>8. multiply32by32(a, b) = 0 + 0 + 0 + a * b
  BY <1>2, <1>5, <1>6, <1>7 DEF multiply32by32
<1>9. QED BY <1>2, <1>8

LEMMA BigIntLowestWord ==
  ASSUME NEW a \in Int, NEW b \in Int
  PROVE  (BigIntValue(right_shift(multiplyBigInt(a, b), 1)) - a * b) % 2^WORD = 0
<1> DEFINE M == 2^WORD
           au == Upper(a, WORD)
           al == Lower(a, WORD)
           bu == Upper(b, WORD)
           bl == Lower(b, WORD)
           v == multiplyBigInt(a, b)
<1>1. /\ M \in Nat /\ M >= 1 /\ 2^(2 * WORD) = M * M
      /\ WORD \in Nat \ {0} /\ 2 * WORD \in Nat \ {0}
  BY HalvesOfWord
<1>2. /\ au \in Int /\ al \in Int /\ a = M * au + al
      /\ bu \in Int /\ bl \in Int /\ b = M * bu + bl
  BY <1>1, Halves
<1>3. \A n \in Int :
        Signed(n, 2 * WORD) \in Int /\ \E k \in Int : Signed(n, 2 * WORD) = n + (M * M) * k
  <2> DEFINE w == 2 * WORD
  <2>1. w \in Nat \ {0} /\ 2^w = M * M
    BY <1>1
  <2> HIDE DEF w, M
  <2>2. ASSUME NEW n \in Int
        PROVE  Signed(n, w) \in Int /\ \E k \in Int : Signed(n, w) = n + (M * M) * k
    <3>1. Signed(n, w) \in Int /\ \E k \in Int : Signed(n, w) = n + 2^w * k
      BY <2>1, SignedIs
    <3>2. QED BY <2>1, <3>1
  <2>3. QED BY <2>2 DEF w
<1>4. au * bu \in Int /\ au * bl \in Int /\ al * bu \in Int /\ al * bl \in Int
  BY <1>2, ProductOfInt
<1>5. v[1] = Signed(al * bl, 2 * WORD) /\ v[2] \in Int /\ v[3] \in Int
  <2> DEFINE t1 == Signed(au * bu, 2 * WORD)
             t2 == Signed(au * bl, 2 * WORD)
             t3 == Signed(al * bu, 2 * WORD)
             t4 == Signed(al * bl, 2 * WORD)
             N  == INT32_MAX
  <2>1. t1 \in Int /\ t2 \in Int /\ t3 \in Int
    BY <1>3, <1>4
  <2>2. N \in Int
    BY <1>1, HalfPower DEF INT32_MAX
  <2>3. v = IF Carries(t2, t3) THEN <<t4, t3 - (N - t2), t1 + 1>>
            ELSE <<t4, Signed(t2 + t3, 2 * WORD), t1>>
    BY DEF multiplyBigInt
  <2> HIDE DEF v, t1, t2, t3, N
  <2>4. Signed(t2 + t3, 2 * WORD) \in Int
    BY <1>3, <2>1
  <2>5. v[1] = t4 /\ v[2] \in Int /\ v[3] \in Int
    BY <2>1, <2>2, <2>3, <2>4
  <2>6. QED BY <2>5 DEF t4
<1>6. PICK k \in Int : v[1] = al * bl + (M * M) * k
  BY <1>3, <1>4, <1>5
<1>7. BigIntValue(right_shift(v, 1)) = v[1] + M * v[2] + (M * M) * v[3]
  BY <1>1 DEF right_shift, BigIntValue
<1>8. a * b = M * (au * b) + M * (al * bu) + al * bl
  <2>1. a * b = (M * au) * b + al * b
    BY <1>1, <1>2, SumTimes, ProductOfInt
  <2>2. al * b = al * (M * bu) + al * bl
    BY <1>1, <1>2, ProductOfInt, Distributes
  <2>3. (M * au) * b = M * (au * b) /\ al * (M * bu) = M * (al * bu)
    <3>1. \A x, y, z \in Int : (x * y) * z = x * (y * z) /\ y * (x * z) = x * (y * z)
      BY SMT
    <3>2. M \in Int /\ au \in Int /\ al \in Int /\ bu \in Int /\ b \in Int
      BY <1>1, <1>2
    <3> HIDE DEF M, au, al, bu
    <3>3. QED BY <3>1, <3>2
  <2>4. M * (au * b) \in Int /\ M * (al * bu) \in Int
    BY <1>1, <1>2, ProductOfInt
  <2>5. QED BY <1>4, <2>1, <2>2, <2>3, <2>4
<1> DEFINE ab == a * b
           low == al * bl
           p == au * b
           q == al * bu
           r == M * k
           s == M * v[3]
           second == v[2]
           value == BigIntValue(right_shift(v, 1))
<1>9. /\ low \in Int /\ p \in Int /\ q \in Int /\ r \in Int /\ s \in Int /\ second \in Int
      /\ ab = M * p + M * q + low
      /\ value = low + M * r + M * second + M * s
  <2>1. (M * M) * k = M * (M * k) /\ (M * M) * v[3] = M * (M * v[3])
    BY <1>1, <1>5, Associates
  <2>2. value = low + M * (M * k) + M * second + M * (M * v[3])
    BY <1>6, <1>7, <2>1
  <2>3. QED BY <1>1, <1>2, <1>4, <1>5, <1>6, <1>8, <2>2, ProductOfInt
<1> DEFINE n == (r + second + s) - (p + q)
<1> HIDE DEF M, au, al, bu, bl, v, ab, low, p, q, r, s, second, value
<1>10. M * n = M * r + M * second + M * s - (M * p + M * q)
  <2>1. M * ((r + second + s) - (p + q)) = M * (r + second + s) - M * (p + q)
    BY <1>1, <1>9, Distributes
  <2>2. M * (r + second + s) = M * (r + second) + M * s
    BY <1>1, <1>9, Distributes
  <2>3. M * (r + second) = M * r + M * second /\ M * (p + q) = M * p + M * q
    BY <1>1, <1>9, Distributes
  <2>4. M * n = M * ((r + second + s) - (p + q))
    BY DEF n
  <2>5. /\ M * r \in Int /\ M * second \in Int /\ M * s \in Int
        /\ M * p \in Int /\ M * q \in Int
    BY <1>1, <1>9, ProductOfInt
  <2> HIDE DEF n
  <2>6. QED BY <2>1, <2>2, <2>3, <2>4, <2>5
<1>11. n \in Int
  BY <1>9
<1> HIDE DEF n
<1>12. value - ab = M * n + 0
  <2>1. /\ M * r \in Int /\ M * second \in Int /\ M * s \in Int
        /\ M * p \in Int /\ M * q \in Int
    BY <1>1, <1>9, ProductOfInt
  <2>2. QED BY <1>9, <1>10, <2>1
<1>13. 0 \in 0 .. M - 1
  BY <1>1
<1>14. (value - ab) % M = 0
  BY <1>1, <1>11, <1>12, <1>13, RemainderIs
<1>15. QED BY <1>14 DEF value, ab, M, v

-----------------------------------------------------------------------------
(* Samples *)

LEMMA SampleBits == BITS \in Nat \ {0}
BY ByteAssumption DEF BITS

(* A sample at the top of a word. *)
LEMMA Justified ==
  ASSUME NEW d \in 1 .. BITS, NEW v \in Int
  PROVE  Signed(2^(BITS - d) * v, BITS) = 2^(BITS - d) * Signed(v, d)
<1> DEFINE P == 2^(BITS - d)
           D == 2^d
           G == 2^(d - 1)
           q == v \div D
           r == v % D
<1>1. /\ P \in Nat /\ P >= 1 /\ D \in Nat /\ D >= 1 /\ G \in Nat /\ D = 2 * G
      /\ 2^BITS = P * D /\ 2^(BITS - 1) = P * G
  <2>1. /\ BITS - d \in Nat /\ d \in Nat /\ d \in Nat \ {0} /\ d - 1 \in Nat
        /\ (BITS - d) + d = BITS /\ (BITS - d) + (d - 1) = BITS - 1
    BY SampleBits
  <2>2. 2^((BITS - d) + d) = P * D /\ 2^((BITS - d) + (d - 1)) = P * G
    BY <2>1, PowersMultiply
  <2>3. P \in Nat /\ P >= 1
    BY <2>1, PowerIsPositive
  <2>4. D \in Nat /\ D >= 1 /\ G \in Nat /\ D = 2 * G
    BY <2>1, HalfPower
  <2>5. QED BY <2>1, <2>2, <2>3, <2>4
<1>2. v = D * q + r /\ q \in Int /\ r \in 0 .. D - 1
  BY <1>1, Division
<1>3. Signed(v, d) = IF r < G THEN r ELSE r - D
  BY DEF Signed
<1>4. Signed(P * v, BITS) = LET m == (P * v) % 2^BITS IN IF m < 2^(BITS - 1) THEN m ELSE m - 2^BITS
  BY DEF Signed
<1> HIDE DEF P, D, G, q, r
<1>5. P * v = (P * D) * q + P * r
  <2>1. P * v = P * (D * q) + P * r
    BY <1>1, <1>2, ProductOfInt, Distributes
  <2>2. P * (D * q) = (P * D) * q
    BY <1>1, <1>2, Associates
  <2>3. QED BY <2>1, <2>2
<1>6. P * r \in 0 .. (P * D) - 1 /\ P * D \in Nat /\ P * D >= 1
  <2>1. r <= D - 1 /\ r \in Nat /\ D - 1 \in Nat
    BY <1>1, <1>2
  <2>2. P * r <= P * (D - 1) /\ P * r \in Nat
    BY <1>1, <2>1, SMT
  <2>3. P * (D - 1) = P * D - P
    BY <1>1, SMT
  <2>4. P * D \in Nat /\ P * D >= 1
    BY <1>1, SMT
  <2>5. QED BY <1>1, <2>2, <2>3, <2>4
<1>7. (P * v) % (P * D) = P * r
  <2>1. ((P * D) * q + P * r) % (P * D) = P * r
    BY <1>2, <1>6, RemainderIs
  <2>2. QED BY <1>5, <2>1
<1>8. (P * r < P * G) <=> r < G
  BY <1>1, <1>2, SMT
<1>9. P * r - P * D = P * (r - D)
  BY <1>1, <1>2, SMT
<1>10. Signed(P * v, BITS) = P * Signed(v, d)
  BY <1>1, <1>3, <1>4, <1>7, <1>8, <1>9
<1>11. QED BY <1>10 DEF P

LEMMA QuotientOfMultiple ==
  ASSUME NEW M \in Nat, M >= 1, NEW n \in Int
  PROVE  (M * n) \div M = n
<1>1. 0 \in 0 .. M - 1 /\ M * n \in Int /\ M * n = M * n + 0
  BY ProductOfInt
<1>2. (M * n + 0) \div M = n
  BY <1>1, RemainderIs
<1>3. QED BY <1>1, <1>2

(* Clearing the lowest bits of a word leaves a word. *)
LEMMA ClearedFits ==
  ASSUME NEW p \in 1 .. BITS, NEW n \in -(2^(BITS - 1)) .. 2^(BITS - 1) - 1
  PROVE  Signed(2^(BITS - p) * (n \div 2^(BITS - p)), BITS) = 2^(BITS - p) * (n \div 2^(BITS - p))
<1> DEFINE K == 2^(BITS - p)
           G == 2^(p - 1)
           F == 2^(BITS - 1)
           x == n \div K
           y == n % K
<1>1. K \in Nat /\ K >= 1 /\ G \in Nat /\ F = K * G /\ F \in Nat
  <2>1. BITS - p \in Nat /\ p - 1 \in Nat /\ (BITS - p) + (p - 1) = BITS - 1 /\ BITS - 1 \in Nat
    BY SampleBits
  <2>2. 2^((BITS - p) + (p - 1)) = K * G
    BY <2>1, PowersMultiply
  <2>3. K \in Nat /\ K >= 1 /\ G \in Nat /\ F \in Nat
    BY <2>1, PowerIsPositive
  <2>4. QED BY <2>1, <2>2, <2>3
<1>2. n \in Int /\ n >= -F /\ n <= F - 1
  BY <1>1
<1>3. n = K * x + y /\ x \in Int /\ y \in 0 .. K - 1
  BY <1>1, <1>2, Division
<1> HIDE DEF K, G, F, x, y
<1>4. K * x \in Int /\ K * x <= F - 1
  BY <1>1, <1>2, <1>3, ProductOfInt
<1>5. K * x >= -F
  <2>1. x >= -G
    <3> SUFFICES ASSUME x <= -G - 1 PROVE FALSE
      BY <1>1, <1>3
    <3>1. -G - 1 \in Int /\ K * x <= K * (-G - 1)
      BY <1>1, <1>3, SMT
    <3>2. K * (-G - 1) = -(K * G) - K
      BY <1>1, SMT
    <3>3. QED BY <1>1, <1>2, <1>3, <1>4, <3>1, <3>2
  <2>2. K * x >= K * (-G) /\ K * (-G) = -(K * G)
    BY <1>1, <1>3, <2>1, SMT
  <2>3. QED BY <1>1, <1>4, <2>2
<1>6. K * x \in -F .. F - 1
  BY <1>1, <1>4, <1>5
<1>7. Signed(K * x, BITS) = K * x
  BY <1>4, <1>6, SampleBits, SignedIs DEF F
<1>8. QED BY <1>7, SampleBits DEF K, x

(* What the buffer holds of a sample. *)
KeptIn(val, depth) ==
  [vect |-> <<2^(BITS - depth) * Signed(val, depth)>>, point |-> BITS, bitdepth |-> depth]

LEMMA KeptSample ==
  ASSUME NEW depth \in 1 .. BITS, NEW val \in Int
  PROVE  put(add(setBitDepth(SampleBuffer, depth), 0, depth), 0, val, depth) = KeptIn(val, depth)
<1> DEFINE b == setBitDepth(SampleBuffer, depth)
           c == add(b, 0, depth)
<1>1. b = [vect |-> <<>>, point |-> BITS, bitdepth |-> depth]
  BY DEF setBitDepth, SampleBuffer
<1>2. c = [vect |-> Append(<<>>, Signed(2^(BITS - depth) * 0, BITS)), point |-> BITS, bitdepth |-> depth]
  BY <1>1 DEF add
<1>3. Append(<<>>, Signed(2^(BITS - depth) * 0, BITS)) = <<Signed(2^(BITS - depth) * 0, BITS)>>
  OBVIOUS
<1> HIDE DEF c
<1>4. Signed(2^(BITS - depth) * val, BITS) = 2^(BITS - depth) * Signed(val, depth)
  BY Justified
<1> DEFINE s == 2^(BITS - depth) * Signed(val, depth)
           t == Signed(2^(BITS - depth) * 0, BITS)
<1>5. put(c, 0, val, depth) = [c EXCEPT !.vect[0 + 1] = s]
  BY <1>4 DEF put
<1> HIDE DEF s, t
<1>6. c = [vect |-> <<t>>, point |-> BITS, bitdepth |-> depth]
  BY <1>2, <1>3 DEF t
<1>7. [c EXCEPT !.vect[0 + 1] = s] = [vect |-> <<s>>, point |-> BITS, bitdepth |-> depth]
  BY <1>6
<1>8. QED BY <1>5, <1>7 DEF KeptIn, s, c

LEMMA BufferWith ==
  ASSUME NEW v, NEW w, NEW p, NEW q, NEW d
  PROVE  [[vect |-> v, point |-> p, bitdepth |-> d] EXCEPT !.point = q, !.vect = w] =
           [vect |-> w, point |-> q, bitdepth |-> d]
<1>1. [[vect |-> v, point |-> p, bitdepth |-> d] EXCEPT !.point = q] = [vect |-> v, point |-> q, bitdepth |-> d]
  OBVIOUS
<1>2. [[vect |-> v, point |-> q, bitdepth |-> d] EXCEPT !.vect = w] = [vect |-> w, point |-> q, bitdepth |-> d]
  OBVIOUS
<1>3. QED BY <1>1, <1>2, Zenon

LEMMA SampleComesBack ==
  ASSUME NEW depth \in 1 .. BITS, NEW point \in 1 .. BITS, NEW val \in Int, NEW b,
         b = KeptIn(val, depth)
  PROVE  LET got  == Signed(val, depth)
             left == 2^(BITS - depth) * got
         IN  /\ get(b, 0) = got /\ get(Copy(b), 0) = left
             /\ get(Assign(setBitDepth(SampleBuffer, depth), b), 0) = got
             /\ adjustFixedPoint(adjustFixedPoint(b, point), BITS).vect[1] =
                  (left \div 2^(BITS - point)) * 2^(BITS - point)
<1> DEFINE got == Signed(val, depth)
           P == 2^(BITS - depth)
           K == 2^(BITS - point)
           F == 2^(BITS - 1)
           left == P * got
<1>1. /\ P \in Nat /\ P >= 1 /\ K \in Nat /\ K >= 1 /\ F \in Nat
      /\ BITS - BITS = 0 /\ 2^0 = 1 /\ BITS \in Nat \ {0} /\ point \in Nat
  <2>1. BITS - depth \in Nat /\ BITS - point \in Nat /\ BITS - 1 \in Nat
    BY SampleBits
  <2>2. QED BY <2>1, SampleBits, PowerIsPositive
<1>2. got \in Int
  BY SampleBits, SignedIs
<1>3. left \in -F .. F - 1 /\ left \in Int
  <2>1. left = Signed(P * val, BITS)
    BY Justified, SampleBits
  <2>2. P * val \in Int
    BY <1>1, ProductOfInt
  <2>3. QED BY <1>1, <2>1, <2>2, SignedIs
<1>4. b = [vect |-> <<left>>, point |-> BITS, bitdepth |-> depth]
  BY DEF KeptIn
<1>5. (P * got) \div P = got
  BY <1>1, <1>2, QuotientOfMultiple
<1>6. left \div 1 = left
  BY <1>3
<1>7. Signed(K * (left \div K), BITS) = K * (left \div K)
  BY <1>3, ClearedFits
<1>8. left \div K \in Int /\ K * (left \div K) = (left \div K) * K
  <2>1. left \div K \in Int
    BY <1>1, <1>3, Division
  <2>2. QED BY <1>1, <2>1, Commutes
<1>9. get(b, 0) = got /\ get(Copy(b), 0) = left /\ get(Assign(setBitDepth(SampleBuffer, depth), b), 0) = got
  <2> HIDE DEF got, P, left
  <2>1. b.vect[0 + 1] = left /\ b.bitdepth = depth
    BY <1>4
  <2>2. Copy(b).vect[0 + 1] = left /\ Copy(b).bitdepth = BITS
    BY <1>4 DEF Copy
  <2>3. /\ Assign(setBitDepth(SampleBuffer, depth), b).vect[0 + 1] = left
        /\ Assign(setBitDepth(SampleBuffer, depth), b).bitdepth = depth
    BY <1>4 DEF Assign, setBitDepth, SampleBuffer
  <2>4. left \div P = got
    BY <1>5 DEF left
  <2>5. QED BY <1>1, <1>6, <2>1, <2>2, <2>3, <2>4 DEF get, P
<1>10. adjustFixedPoint(adjustFixedPoint(b, point), BITS).vect[1] = (left \div K) * K
  <2> DEFINE c == adjustFixedPoint(b, point)
             n == IF point < BITS THEN left \div K ELSE left
  <2> HIDE DEF got, P, left
  <2>1. c = [vect |-> <<n>>, point |-> point, bitdepth |-> depth]
    <3>1. CASE point < BITS
      <4>1. c = [b EXCEPT !.point = point, !.vect = [i \in DOMAIN @ |-> @[i] \div K]]
        BY <1>4, <3>1 DEF adjustFixedPoint
      <4>2. n = left \div K
        BY <3>1
      <4> HIDE DEF c, n, K
      <4>3. [i \in DOMAIN b.vect |-> b.vect[i] \div K] = <<n>>
        BY <1>4, <4>2
      <4>4. c = [b EXCEPT !.point = point, !.vect = <<n>>]
        BY <4>1, <4>3
      <4>5. c = [[vect |-> <<left>>, point |-> BITS, bitdepth |-> depth] EXCEPT !.point = point, !.vect = <<n>>]
        BY <1>4, <4>4
      <4>6. QED BY <4>5, BufferWith
    <3>2. CASE ~(point < BITS)
      <4>1. point = BITS /\ point - BITS = 0
        BY <1>1, <3>2
      <4>2. Signed(2^0 * left, BITS) = left
        <5>1. 2^0 * left = left
          BY <1>1, <1>3
        <5>2. QED BY <5>1, <1>1, <1>3, SignedIs, SampleBits
      <4>3. c = [b EXCEPT !.point = point,
                          !.vect = [i \in DOMAIN @ |-> Signed(2^(point - BITS) * @[i], BITS)]]
        BY <1>4, <3>2 DEF adjustFixedPoint
      <4>4. [i \in DOMAIN b.vect |-> Signed(2^(point - BITS) * b.vect[i], BITS)] = <<left>>
        BY <1>4, <4>1, <4>2
      <4>5. n = left
        BY <3>2
      <4> HIDE DEF c, n
      <4>6. c = [b EXCEPT !.point = point, !.vect = <<left>>]
        BY <4>3, <4>4
      <4>7. c = [[vect |-> <<left>>, point |-> BITS, bitdepth |-> depth] EXCEPT !.point = point, !.vect = <<left>>]
        BY <1>4, <4>6
      <4>8. QED BY <4>5, <4>7, BufferWith
    <3>3. QED BY <3>1, <3>2
  <2> HIDE DEF c
  <2>2. ~(BITS < point)
    BY <1>1
  <2>3. adjustFixedPoint(c, BITS).vect[1] = Signed(K * n, BITS)
    BY <2>1, <2>2 DEF adjustFixedPoint
  <2>4. CASE point < BITS
    BY <1>7, <1>8, <2>3, <2>4 DEF c
  <2>5. CASE ~(point < BITS)
    <3>1. K = 1 /\ n = left
      <4>1. point = BITS
        BY <1>1, <2>5
      <4>2. QED BY <1>1, <2>5, <4>1
    <3>2. K * (left \div K) = left /\ K * n = left
      BY <1>3, <1>6, <3>1
    <3>3. QED BY <1>7, <1>8, <2>3, <3>2 DEF c
  <2>6. QED BY <2>4, <2>5
<1>11. QED BY <1>9, <1>10

-----------------------------------------------------------------------------
(* Sizes, times, packets, addresses and options.                             *)

(* The sum is what has its differences. *)
LEMMA SumsAre ==
  ASSUME NEW q \in Seq(Nat), NEW s, SumsOf(q, Len(q), s)
  PROVE  Sum(q) = s[Len(q)]
<1> DEFINE t == PartialSums(q)
           Bad == {n \in 0 .. Len(q) : t[n] # s[n]}
<1>1. Len(q) \in Nat /\ SumsOf(q, Len(q), t)
  BY PartialSumsAre, LenProperties
<1> HIDE DEF t
<1>2. ASSUME Bad # {} PROVE FALSE
  <2>1. PICK n \in Bad : \A m \in Bad : n <= m
    <3>1. Bad \in SUBSET Nat  BY <1>1
    <3> HIDE DEF Bad
    <3>2. QED  BY <1>2, <3>1, LeastOf
  <2>2. n # 0
    BY <1>1, <2>1 DEF SumsOf
  <2>3. n - 1 \in 0 .. Len(q) /\ n - 1 \notin Bad /\ n \in 1 .. Len(q)
    BY <1>1, <2>1, <2>2
  <2>4. s[n] = s[n - 1] + q[n] /\ t[n] = t[n - 1] + q[n] /\ t[n - 1] = s[n - 1]
    BY <1>1, <2>3 DEF SumsOf
  <2>5. QED  BY <2>1, <2>4
<1>3. Len(q) \in 0 .. Len(q)  BY <1>1
<1>4. QED  BY <1>2, <1>3 DEF Sum, t

ListedRates == {23, 24, 25, 29, 50, 59}

LEMMA NextAESFrames ==
  ASSUME NEW r \in ListedRates, NEW n \in Nat
  PROVE  /\ AESFrames(r, n) \in Nat /\ GetNumAESFrames(r, n) \in Nat
         /\ AESFrames(r, n + 1) = AESFrames(r, n) + GetNumAESFrames(r, n)
<1>1. CASE r = 29
  <2> DEFINE q == n \div 5
  <2>1. q \in Nat /\ n % 5 \in 0 .. 4 /\ n = 5 * q + (n % 5)  OBVIOUS
  <2>2. n % 5 # 4 => (n + 1) \div 5 = q /\ (n + 1) % 5 = (n % 5) + 1  BY <2>1
  <2>3. n % 5 = 4 => (n + 1) \div 5 = q + 1 /\ (n + 1) % 5 = 0  BY <2>1
  <2> HIDE DEF q
  <2>4. AESFrames(r, n) = q * 8008 + Remainder(29, n % 5)
    BY <1>1 DEF AESFrames, q
  <2>5. AESFrames(r, n + 1) = ((n + 1) \div 5) * 8008 + Remainder(29, (n + 1) % 5)
    BY <1>1 DEF AESFrames
  <2>6. GetNumAESFrames(r, n) = IF n % 5 \in {1, 3} THEN 1601 ELSE 1602
    BY <1>1 DEF GetNumAESFrames
  <2>7. /\ Remainder(29, 0) = 0 /\ Remainder(29, 1) = 1602 /\ Remainder(29, 2) = 3203
        /\ Remainder(29, 3) = 4805 /\ Remainder(29, 4) = 6406
    BY DEF Remainder
  <2>8. n % 5 = 0 \/ n % 5 = 1 \/ n % 5 = 2 \/ n % 5 = 3 \/ n % 5 = 4  BY <2>1
  <2>9. QED  BY <2>1, <2>2, <2>3, <2>4, <2>5, <2>6, <2>7, <2>8
<1>2. CASE r = 59
  <2> DEFINE q == n \div 10
  <2>1. q \in Nat /\ n % 10 \in 0 .. 9 /\ n = 10 * q + (n % 10)  OBVIOUS
  <2>2. n % 10 # 9 => (n + 1) \div 10 = q /\ (n + 1) % 10 = (n % 10) + 1  BY <2>1
  <2>3. n % 10 = 9 => (n + 1) \div 10 = q + 1 /\ (n + 1) % 10 = 0  BY <2>1
  <2> HIDE DEF q
  <2>4. AESFrames(r, n) = q * 8008 + Remainder(59, n % 10)
    BY <1>2 DEF AESFrames, q
  <2>5. AESFrames(r, n + 1) = ((n + 1) \div 10) * 8008 + Remainder(59, (n + 1) % 10)
    BY <1>2 DEF AESFrames
  <2>6. GetNumAESFrames(r, n) = IF n % 10 \in {3, 7} THEN 800 ELSE 801
    BY <1>2 DEF GetNumAESFrames
  <2>7. /\ Remainder(59, 0) = 0 /\ Remainder(59, 1) = 801 /\ Remainder(59, 2) = 1602
        /\ Remainder(59, 3) = 2403 /\ Remainder(59, 4) = 3203 /\ Remainder(59, 5) = 4004
        /\ Remainder(59, 6) = 4805 /\ Remainder(59, 7) = 5606 /\ Remainder(59, 8) = 6406
        /\ Remainder(59, 9) = 7207
    BY DEF Remainder
  <2>8. \/ n % 10 = 0 \/ n % 10 = 1 \/ n % 10 = 2 \/ n % 10 = 3 \/ n % 10 = 4
        \/ n % 10 = 5 \/ n % 10 = 6 \/ n % 10 = 7 \/ n % 10 = 8 \/ n % 10 = 9
    BY <2>1
  <2>9. QED  BY <2>1, <2>2, <2>3, <2>4, <2>5, <2>6, <2>7, <2>8
<1>3. CASE r \in {23, 24, 25, 50}
  BY <1>3 DEF AESFrames, GetNumAESFrames
<1>4. QED  BY <1>1, <1>2, <1>3 DEF ListedRates

LEMMA DataIsWritten ==
  ASSUME NEW r, NEW n \in Nat
  PROVE  /\ r \in ListedRates => dataWritten(r, n) = 6 * AESFrames(r, n)
         /\ r \notin ListedRates => dataWritten(r, n) = 6 * 1920 * n /\ AESFrames(r, n) = 0
<1> DEFINE q == [i \in 1 .. n |-> 6 * GetNumAESFrames(r, i - 1)]
           s == [i \in 0 .. n |-> 6 * AESFrames(r, i)]
           u == [i \in 0 .. n |-> 6 * 1920 * i]
<1>1. ASSUME NEW i \in 1 .. n PROVE GetNumAESFrames(r, i - 1) \in Nat
  BY DEF GetNumAESFrames
<1>2. q \in Seq(Nat) /\ Len(q) = n
  <2>1. \A i \in 1 .. n : 6 * GetNumAESFrames(r, i - 1) \in Nat  BY <1>1
  <2>2. QED  BY <2>1
<1>3. dataWritten(r, n) = Sum(q)
  BY DEF dataWritten
<1>4. \A i \in 1 .. n : q[i] = 6 * GetNumAESFrames(r, i - 1)
  OBVIOUS
<1> HIDE DEF q
<1>5. ASSUME r \in ListedRates PROVE dataWritten(r, n) = 6 * AESFrames(r, n)
  <2>1. \A i \in 0 .. n : AESFrames(r, i) \in Nat
    BY <1>5, NextAESFrames
  <2>2. AESFrames(r, 0) = 0
    BY <1>5 DEF ListedRates, AESFrames, Remainder
  <2>3. \A i \in 1 .. n : AESFrames(r, i) = AESFrames(r, i - 1) + GetNumAESFrames(r, i - 1)
    <3>1. ASSUME NEW i \in 1 .. n PROVE AESFrames(r, i) = AESFrames(r, i - 1) + GetNumAESFrames(r, i - 1)
      <4>1. i - 1 \in Nat /\ (i - 1) + 1 = i  OBVIOUS
      <4>2. AESFrames(r, (i - 1) + 1) = AESFrames(r, i - 1) + GetNumAESFrames(r, i - 1)
        BY <1>5, <4>1, NextAESFrames
      <4>3. QED  BY <4>1, <4>2
    <3>2. QED  BY <3>1
  <2>4. s \in [0 .. n -> Nat] /\ s[0] = 0
    BY <2>1, <2>2
  <2>5. \A i \in 1 .. n : s[i] = s[i - 1] + q[i]
    BY <1>1, <1>4, <2>1, <2>3
  <2>6. s[n] = 6 * AESFrames(r, n)
    OBVIOUS
  <2> HIDE DEF s
  <2>7. SumsOf(q, Len(q), s)
    BY <1>2, <2>4, <2>5 DEF SumsOf
  <2>8. QED  BY <1>2, <1>3, <2>6, <2>7, SumsAre
<1>6. ASSUME r \notin ListedRates PROVE dataWritten(r, n) = 6 * 1920 * n /\ AESFrames(r, n) = 0
  <2>1. AESFrames(r, n) = 0 /\ \A i \in 1 .. n : GetNumAESFrames(r, i - 1) = 1920
    BY <1>6 DEF ListedRates, AESFrames, GetNumAESFrames
  <2>2. u \in [0 .. n -> Nat] /\ u[0] = 0 /\ u[n] = 6 * 1920 * n
    OBVIOUS
  <2>3. \A i \in 1 .. n : u[i] = u[i - 1] + q[i]
    BY <1>4, <2>1
  <2> HIDE DEF u
  <2>4. SumsOf(q, Len(q), u)
    BY <1>2, <2>2, <2>3 DEF SumsOf
  <2>5. QED  BY <1>2, <1>3, <2>1, <2>2, <2>4, SumsAre
<1>7. QED  BY <1>5, <1>6

(* Hours, minutes, seconds and milliseconds that add up to a time.           *)
AddsUp(t, time) ==
  /\ t.m \in 0 .. 59 /\ t.s \in 0 .. 59 /\ t.ms \in 0 .. 999
  /\ 3600000 * t.h + 60000 * t.m + 1000 * t.s + t.ms = time

LEMMA TimeAddsUp ==
  ASSUME NEW time \in Nat
  PROVE  AddsUp(milliseconds_to_hms_ms(time), time)
<1> DEFINE h == time \div 3600000
           a == time - h * 3600000
           m == a \div 60000
           b == a - m * 60000
           s == b \div 1000
<1>1. h \in Nat /\ a \in Nat /\ a < 3600000
  OBVIOUS
<1> HIDE DEF h
<1>2. m \in Nat /\ m < 60 /\ b \in Nat /\ b < 60000
  <2> HIDE DEF a
  <2>1. QED  BY <1>1
<1>3. s \in Nat /\ s < 60 /\ b - s * 1000 \in Nat /\ b - s * 1000 < 1000
  <2> HIDE DEF b
  <2>1. QED  BY <1>2
<1>4. milliseconds_to_hms_ms(time) = [h |-> h, m |-> m, s |-> s, ms |-> b - s * 1000]
  BY DEF milliseconds_to_hms_ms, h
<1>5. 3600000 * h + 60000 * m + 1000 * s + (b - s * 1000) = time
  <2> HIDE DEF m, s
  <2>1. m \in Int /\ s \in Int  BY <1>2, <1>3
  <2>2. QED  BY <1>1, <2>1
<1> HIDE DEF m, s, a, b
<1>6. QED  BY <1>2, <1>3, <1>4, <1>5, SMT DEF AddsUp


(* What the fields of a packet become. *)
LEMMA PacketFields ==
  ASSUME NEW header, header.afLength \in Nat, header.PID \in Nat,
         NEW size \in {Ts188Byte, Ts204Byte}, NEW p, p = SetPacket(header, size)
  PROVE  /\ p.Payload # 0 =>
              p.Payload + p.payloadSize = IF header.adaptation = 3 THEN size ELSE Ts188Byte
         /\ MakeNULLPID(SetPUSI(p, 1)).PID = NULLPID /\ MakeNULLPID(SetPUSI(p, 1)).PUSI = 0
         /\ header.adaptation = 1 /\ size = Ts188Byte => ~FillsOutside(MakeNULLPID(SetPUSI(p, 1)))
         /\ ConvertTo204(ConvertTo188(p)).packetSize = Ts204Byte
<1>0. Ts188Byte \in Nat /\ Ts204Byte \in Nat /\ Ts188Byte + 4 <= Ts204Byte /\ size \in Nat
  BY PacketSizesAssumption
<1> DEFINE r == [error |-> header.error, PUSI |-> header.PUSI, priority |-> header.priority,
                 PID |-> header.PID, scrambling |-> header.scrambling,
                 adaptation |-> header.adaptation, CC |-> header.CC, afLength |-> header.afLength,
                 packetSize |-> size, Payload |-> 0, payloadSize |-> 0]
<1>1. p = findPayload(r)
  BY DEF SetPacket
<1>2. /\ r.PID = header.PID /\ r.adaptation = header.adaptation /\ r.packetSize = size
      /\ r.afLength = header.afLength
      /\ DOMAIN r = {"error", "PUSI", "priority", "PID", "scrambling", "adaptation", "CC", "afLength",
                     "packetSize", "Payload", "payloadSize"}
  OBVIOUS
<1> HIDE DEF r
<1>3. /\ p.PID = header.PID /\ p.packetSize = size
      /\ DOMAIN p = {"error", "PUSI", "priority", "PID", "scrambling", "adaptation", "CC", "afLength",
                     "packetSize", "Payload", "payloadSize"}
  BY <1>1, <1>2 DEF findPayload
<1>4. p.Payload # 0 => p.Payload + p.payloadSize = IF header.adaptation = 3 THEN size ELSE Ts188Byte
  BY <1>0, <1>1, <1>2 DEF findPayload, PayloadSize
<1>5. header.adaptation = 1 => p.Payload = 4
  BY <1>1, <1>2 DEF findPayload
<1>7. /\ MakeNULLPID(SetPUSI(p, 1)).PID = NULLPID /\ MakeNULLPID(SetPUSI(p, 1)).PUSI = 0
      /\ MakeNULLPID(SetPUSI(p, 1)).Payload = p.Payload
      /\ MakeNULLPID(SetPUSI(p, 1)).packetSize = p.packetSize
  BY <1>3 DEF MakeNULLPID, SetPUSI, SetPID, NULLPID
<1>8. header.adaptation = 1 /\ size = Ts188Byte => ~FillsOutside(MakeNULLPID(SetPUSI(p, 1)))
  BY <1>0, <1>3, <1>5, <1>7 DEF FillsOutside
<1>9. ConvertTo204(ConvertTo188(p)).packetSize = Ts204Byte
  BY <1>3 DEF ConvertTo204, ConvertTo188
<1>10. QED BY <1>4, <1>7, <1>8, <1>9

(* Where the shifted bits are. *)
LEMMA ShiftedIs ==
  ASSUME NEW B \in SUBSET Int, NEW n \in Int
  PROVE  Shifted(B, n) = {y \in Int : y - n \in B}
<1>1. ASSUME NEW y PROVE y \in Shifted(B, n) <=> y \in Int /\ y - n \in B
  <2>1. y \in Shifted(B, n) <=> \E bit \in B : y = bit + n
    BY DEF Shifted
  <2>2. \A bit \in B : bit + n \in Int /\ (bit + n) - n = bit
    OBVIOUS
  <2>3. y \in Int => (y - n) + n = y
    OBVIOUS
  <2>4. QED BY <2>1, <2>2, <2>3
<1>2. QED BY <1>1

(* A time stamp is read as it was laid out. *)
LEMMA StampIsRead ==
  ASSUME NEW PTS \in SUBSET (0 .. 32)
  PROVE  LET stamp == StampBytes(PTS)
         IN  Shifted(stamp[1] \cap 1 .. 3, 29) \cup Shifted(stamp[2], 22)
               \cup Shifted(stamp[3] \cap 1 .. 7, 14) \cup Shifted(stamp[4], 7)
               \cup Shifted(stamp[5] \cap 1 .. 7, -1) = PTS
<1> DEFINE a == {0, 5} \cup Shifted(PTS \cap 30 .. 32, -29)
           b == Shifted(PTS \cap 22 .. 29, -22)
           c == {0} \cup Shifted(PTS \cap 15 .. 21, -14)
           d == Shifted(PTS \cap 7 .. 14, -7)
           e == {0} \cup Shifted(PTS \cap 0 .. 6, 1)
<1>1. StampBytes(PTS) = <<a, b, c, d, e>>
  BY DEF StampBytes
<1>2. /\ a = {0, 5} \cup {y \in Int : y + 29 \in PTS \cap 30 .. 32}
      /\ b = {y \in Int : y + 22 \in PTS \cap 22 .. 29}
      /\ c = {0} \cup {y \in Int : y + 14 \in PTS \cap 15 .. 21}
      /\ d = {y \in Int : y + 7 \in PTS \cap 7 .. 14}
      /\ e = {0} \cup {y \in Int : y - 1 \in PTS \cap 0 .. 6}
  <2>1. /\ PTS \cap 30 .. 32 \in SUBSET Int /\ PTS \cap 22 .. 29 \in SUBSET Int
        /\ PTS \cap 15 .. 21 \in SUBSET Int /\ PTS \cap 7 .. 14 \in SUBSET Int
        /\ PTS \cap 0 .. 6 \in SUBSET Int
    OBVIOUS
  <2>2. Shifted(PTS \cap 30 .. 32, -29) = {y \in Int : y + 29 \in PTS \cap 30 .. 32}
    <3>1. Shifted(PTS \cap 30 .. 32, -29) = {y \in Int : y - (-29) \in PTS \cap 30 .. 32}
      BY <2>1, ShiftedIs
    <3>2. \A y \in Int : y - (-29) = y + 29
      OBVIOUS
    <3>3. QED BY <3>1, <3>2
  <2>3. Shifted(PTS \cap 22 .. 29, -22) = {y \in Int : y + 22 \in PTS \cap 22 .. 29}
    <3>1. Shifted(PTS \cap 22 .. 29, -22) = {y \in Int : y - (-22) \in PTS \cap 22 .. 29}
      BY <2>1, ShiftedIs
    <3>2. \A y \in Int : y - (-22) = y + 22
      OBVIOUS
    <3>3. QED BY <3>1, <3>2
  <2>4. Shifted(PTS \cap 15 .. 21, -14) = {y \in Int : y + 14 \in PTS \cap 15 .. 21}
    <3>1. Shifted(PTS \cap 15 .. 21, -14) = {y \in Int : y - (-14) \in PTS \cap 15 .. 21}
      BY <2>1, ShiftedIs
    <3>2. \A y \in Int : y - (-14) = y + 14
      OBVIOUS
    <3>3. QED BY <3>1, <3>2
  <2>5. Shifted(PTS \cap 7 .. 14, -7) = {y \in Int : y + 7 \in PTS \cap 7 .. 14}
    <3>1. Shifted(PTS \cap 7 .. 14, -7) = {y \in Int : y - (-7) \in PTS \cap 7 .. 14}
      BY <2>1, ShiftedIs
    <3>2. \A y \in Int : y - (-7) = y + 7
      OBVIOUS
    <3>3. QED BY <3>1, <3>2
  <2>6. Shifted(PTS \cap 0 .. 6, 1) = {y \in Int : y - 1 \in PTS \cap 0 .. 6}
    BY <2>1, ShiftedIs
  <2>7. QED BY <2>2, <2>3, <2>4, <2>5, <2>6
<1> HIDE DEF a, b, c, d, e
<1>3. /\ a \cap 1 .. 3 \in SUBSET Int /\ b \in SUBSET Int /\ c \cap 1 .. 7 \in SUBSET Int
      /\ d \in SUBSET Int /\ e \cap 1 .. 7 \in SUBSET Int
  BY <1>2
<1> DEFINE A == Shifted(a \cap 1 .. 3, 29)
           B == Shifted(b, 22)
           C == Shifted(c \cap 1 .. 7, 14)
           D == Shifted(d, 7)
           E == Shifted(e \cap 1 .. 7, -1)
<1>4. /\ A = {y \in Int : y - 29 \in a \cap 1 .. 3} /\ B = {y \in Int : y - 22 \in b}
      /\ C = {y \in Int : y - 14 \in c \cap 1 .. 7} /\ D = {y \in Int : y - 7 \in d}
  BY <1>3, ShiftedIs
<1>5. E = {y \in Int : y + 1 \in e \cap 1 .. 7}
  <2>1. E = {y \in Int : y - (-1) \in e \cap 1 .. 7}
    BY <1>3, ShiftedIs
  <2>2. \A y \in Int : y - (-1) = y + 1
    OBVIOUS
  <2>3. QED BY <2>1, <2>2
<1> HIDE DEF A, B, C, D, E
<1>6. ASSUME NEW y \in Int
      PROVE  /\ y \in A <=> y \in PTS /\ y \in 30 .. 32
             /\ y \in B <=> y \in PTS /\ y \in 22 .. 29
             /\ y \in C <=> y \in PTS /\ y \in 15 .. 21
             /\ y \in D <=> y \in PTS /\ y \in 7 .. 14
             /\ y \in E <=> y \in PTS /\ y \in 0 .. 6
  <2>1. /\ (y - 29) + 29 = y /\ (y - 22) + 22 = y /\ (y - 14) + 14 = y /\ (y - 7) + 7 = y /\ (y + 1) - 1 = y
        /\ y - 29 \in Int /\ y - 22 \in Int /\ y - 14 \in Int /\ y - 7 \in Int /\ y + 1 \in Int
    OBVIOUS
  <2>2. y \in A <=> y \in PTS /\ y \in 30 .. 32
    BY <1>2, <1>4, <2>1
  <2>3. y \in B <=> y \in PTS /\ y \in 22 .. 29
    BY <1>2, <1>4, <2>1
  <2>4. y \in C <=> y \in PTS /\ y \in 15 .. 21
    BY <1>2, <1>4, <2>1
  <2>5. y \in D <=> y \in PTS /\ y \in 7 .. 14
    BY <1>2, <1>4, <2>1
  <2>6. y \in E <=> y \in PTS /\ y \in 0 .. 6
    BY <1>2, <1>5, <2>1
  <2>7. QED BY <2>2, <2>3, <2>4, <2>5, <2>6
<1>7. A \in SUBSET Int /\ B \in SUBSET Int /\ C \in SUBSET Int /\ D \in SUBSET Int /\ E \in SUBSET Int
  BY <1>4, <1>5
<1>8. A \cup B \cup C \cup D \cup E = PTS
  <2>1. \A y : y \in PTS => y \in Int /\ y \in 0 .. 32
    OBVIOUS
  <2>2. \A y \in 0 .. 32 : y \in 30 .. 32 \/ y \in 22 .. 29 \/ y \in 15 .. 21 \/ y \in 7 .. 14 \/ y \in 0 .. 6
    OBVIOUS
  <2>3. QED BY <1>6, <1>7, <2>1, <2>2, ZenonT(60)
<1>9. QED BY <1>1, <1>8 DEF A, B, C, D, E

LEMMA PESHeaderIsRead ==
  ASSUME NEW buf, buf.startCode = TRUE, buf.pes_packet_length \in Nat, buf.headerLength \in Nat,
         NEW PTS \in SUBSET (0 .. 32), buf.stamp = StampBytes(PTS)
  PROVE  LET header == FindPESHeaderAndGetPTS(buf, 189)
             size   == GetPESPacketSize(buf)
             data   == GetPESData(buf, size)
             len    == GetPESDataLength(buf, size)
         IN  /\ header.found <=> buf.stream_id = 189
             /\ header.PTS = IF header.found /\ 7 \in buf.flags THEN PTS ELSE {}
             /\ data # 0 => data + len = buf.pes_packet_length + 6
             /\ len < 0 <=> size > 10 /\ buf.pes_packet_length < 3 + buf.headerLength
<1> DEFINE stamp == StampBytes(PTS)
           found == FindPESHeaderAndGetPTS(buf, 189).found
           length == buf.pes_packet_length
           headerLength == buf.headerLength
<1>1. buf.startCode = TRUE /\ buf.stamp = StampBytes(PTS)
  OBVIOUS
<1>2. found <=> buf.stream_id = 189
  BY <1>1 DEF FindPESHeaderAndGetPTS
<1>3. FindPESHeaderAndGetPTS(buf, 189).PTS = IF found /\ 7 \in buf.flags THEN PTS ELSE {}
  <2>1. FindPESHeaderAndGetPTS(buf, 189).PTS =
          IF ~found \/ 7 \notin buf.flags THEN {}
          ELSE Shifted(stamp[1] \cap 1 .. 3, 29) \cup Shifted(stamp[2], 22)
                 \cup Shifted(stamp[3] \cap 1 .. 7, 14) \cup Shifted(stamp[4], 7)
                 \cup Shifted(stamp[5] \cap 1 .. 7, -1)
    BY <1>1 DEF FindPESHeaderAndGetPTS
  <2>2. QED BY <2>1, StampIsRead
<1>4. GetPESPacketSize(buf) = length + 6
  BY <1>1 DEF GetPESPacketSize
<1>5. GetPESData(buf, length + 6) = IF length + 6 > 10 THEN 9 + headerLength ELSE 0
  BY <1>1 DEF GetPESData
<1>6. GetPESDataLength(buf, length + 6) =
        IF length + 6 > 10 THEN length + 6 - (9 + headerLength) ELSE 0
  BY <1>5 DEF GetPESDataLength
<1> HIDE DEF found
<1>7. QED BY <1>2, <1>3, <1>4, <1>5, <1>6 DEF found

LEMMA AddressesAreTaken ==
  ASSUME NEW first, NEW second, NEW a, a = setAddress(ADDRESS_ANY, first)
  PROVE  ~a.thrown /\ (setAddress(a.mAddress, second).thrown <=> first \in {Malformed, INADDR_NONE})
<1>1. ADDRESS_ANY # INADDR_NONE
  BY DEF ADDRESS_ANY, INADDR_NONE
<1>2. ~a.thrown /\ a.mAddress = inet_addr(first)
  BY <1>1 DEF setAddress
<1>3. setAddress(a.mAddress, second).thrown <=> inet_addr(first) = INADDR_NONE
  BY <1>2 DEF setAddress
<1>4. QED BY <1>2, <1>3 DEF inet_addr

LEMMA OptionIsFound ==
  ASSUME NEW args \in Seq([text : STRING, number : Int]) \ {<<>>}, NEW key, NEW argnum \in Nat \ {0}
  PROVE  LET n     == Len(args)
             value == GetValue(args, key)
         IN  /\ value.found => Exists(args, key)
             /\ Exists(args, key) /\ ~value.found =>
                  args[n].text = key /\ \A i \in 1 .. n - 1 : args[i].text # key
             /\ \A i \in 1 .. n - 1 :
                  args[i].text = key /\ (\A k \in 1 .. i - 1 : args[k].text # key) =>
                    value.text = args[i + 1].text
             /\ ~GetValueAt(args, argnum).found <=> argnum > n
<1> DEFINE n == Len(args)
           value == GetValue(args, key)
           W == WithValue(args, key)
<1>1. n \in Nat /\ DOMAIN args = 1 .. n
  BY LenProperties
<1>2. n # 0
  BY EmptySeq
<1>3. Given(args, key) = {i \in 1 .. n : args[i].text = key}
  BY <1>1 DEF Given
<1>4. W = {i \in 1 .. n - 1 : args[i].text = key}
  BY <1>1, <1>3 DEF WithValue
<1>5. Exists(args, key) <=> \E i \in 1 .. n : args[i].text = key
  BY <1>3 DEF Exists
<1>6. value = IF W = {} THEN NotFound("", 0) ELSE Value(args[Min(W) + 1])
  BY DEF GetValue
<1>7. value.found <=> W # {}
  <2>1. ~NotFound("", 0).found /\ \A arg : Value(arg).found
    BY DEF NotFound, Value
  <2> HIDE DEF value, W
  <2>2. QED BY <1>6, <2>1, Zenon
<1> HIDE DEF n, value, W
<1>8. ASSUME Exists(args, key), W = {}
      PROVE  args[n].text = key /\ \A i \in 1 .. n - 1 : args[i].text # key
  <2>1. PICK i \in 1 .. n : args[i].text = key
    BY <1>5, <1>8
  <2>2. i = n
    <3>1. i \notin 1 .. n - 1
      BY <1>4, <1>8, <2>1
    <3>2. QED BY <1>1, <2>1, <3>1
  <2>3. QED BY <1>4, <1>8, <2>1, <2>2
<1>9. W # {} => Exists(args, key)
  BY <1>1, <1>4, <1>5
<1>10. ASSUME NEW i \in 1 .. n - 1, args[i].text = key, \A k \in 1 .. i - 1 : args[k].text # key
       PROVE  value.text = args[i + 1].text
  <2>1. i \in W /\ \A k \in W : i <= k
    BY <1>1, <1>4, <1>10
  <2>2. W \subseteq Nat
    BY <1>1, <1>4
  <2>3. Min(W) = CHOOSE x \in W : \A y \in W : x <= y
    BY DEF Min
  <2>4. Min(W) = i
    <3>1. Min(W) \in W /\ \A y \in W : Min(W) <= y
      BY <2>1, <2>3
    <3>2. Min(W) <= i /\ i <= Min(W) /\ Min(W) \in Nat /\ i \in Nat
      BY <2>1, <2>2, <3>1
    <3>3. QED BY <3>2
  <2>5. QED BY <1>6, <2>1, <2>4 DEF Value
<1>11. ~GetValueAt(args, argnum).found <=> argnum > n
  BY DEF GetValueAt, NotFound, Value, n
<1>12. QED BY <1>7, <1>8, <1>9, <1>10, <1>11 DEF n, value


(* Where fgetTSsync stands in a file, and what it has counted. *)
SyncState(file, at, count_188, count_204) ==
  [file |-> file, at |-> at, eof |-> FALSE, count_188 |-> count_188, count_204 |-> count_204]

LEMMA ConsumedBytes ==
  ASSUME NEW file, NEW at \in Nat, NEW a, NEW b, NEW n \in Nat, at + n <= file.size
  PROVE  Consume(SyncState(file, at, a, b), n) = SyncState(file, at + n, a, b)
  BY DEF Consume, SyncState

LEMMA StateWith ==
  ASSUME NEW file, NEW at, NEW eof, NEW a, NEW b, NEW c
  PROVE  /\ [[file |-> file, at |-> at, eof |-> eof, count_188 |-> a, count_204 |-> b] EXCEPT !.count_188 = c]
              = [file |-> file, at |-> at, eof |-> eof, count_188 |-> c, count_204 |-> b]
         /\ [[file |-> file, at |-> at, eof |-> eof, count_188 |-> a, count_204 |-> b] EXCEPT !.count_204 = c]
              = [file |-> file, at |-> at, eof |-> eof, count_188 |-> a, count_204 |-> c]
<1>1. [[file |-> file, at |-> at, eof |-> eof, count_188 |-> a, count_204 |-> b] EXCEPT !.count_188 = c]
              = [file |-> file, at |-> at, eof |-> eof, count_188 |-> c, count_204 |-> b]
  OBVIOUS
<1>2. [[file |-> file, at |-> at, eof |-> eof, count_188 |-> a, count_204 |-> b] EXCEPT !.count_204 = c]
              = [file |-> file, at |-> at, eof |-> eof, count_188 |-> a, count_204 |-> c]
  OBVIOUS
<1>3. QED BY <1>1, <1>2

(* What one more short packet, or one more long packet, does to the counts. *)
ShortCounted(s) == [s EXCEPT !.count_188 = @ + 1]

LongCounted(s) == [s EXCEPT !.count_204 = @ + 1, !.count_188 = 0]

LEMMA CountedPackets ==
  ASSUME NEW file, NEW at, NEW a, NEW b
  PROVE  /\ ShortCounted(SyncState(file, at, a, b)) = SyncState(file, at, a + 1, b)
         /\ LongCounted(SyncState(file, at, a, b)) = SyncState(file, at, 0, b + 1)
<1> DEFINE eof == FALSE
           s == SyncState(file, at, a, b)
           m == a + 1
           n == b + 1
<1>1. /\ s = [file |-> file, at |-> at, eof |-> eof, count_188 |-> a, count_204 |-> b]
      /\ SyncState(file, at, m, b) = [file |-> file, at |-> at, eof |-> eof, count_188 |-> m, count_204 |-> b]
      /\ SyncState(file, at, 0, n) = [file |-> file, at |-> at, eof |-> eof, count_188 |-> 0, count_204 |-> n]
  BY DEF SyncState
<1>2. s.count_188 + 1 = m /\ s.count_204 + 1 = n
  <2>1. s.count_188 = a /\ s.count_204 = b
    BY DEF SyncState
  <2>2. QED BY <2>1
<1> HIDE DEF eof, s, m, n
<1>3. [s EXCEPT !.count_188 = m] = SyncState(file, at, m, b)
  <2>1. [s EXCEPT !.count_188 = m] =
          [[file |-> file, at |-> at, eof |-> eof, count_188 |-> a, count_204 |-> b] EXCEPT !.count_188 = m]
    BY <1>1, Zenon
  <2>2. @ = [file |-> file, at |-> at, eof |-> eof, count_188 |-> m, count_204 |-> b]
    BY StateWith
  <2>3. QED BY <1>1, <2>1, <2>2, Zenon
<1>4. [s EXCEPT !.count_204 = n, !.count_188 = 0] = SyncState(file, at, 0, n)
  <2>1. [s EXCEPT !.count_204 = n] =
          [[file |-> file, at |-> at, eof |-> eof, count_188 |-> a, count_204 |-> b] EXCEPT !.count_204 = n]
    BY <1>1, Zenon
  <2>2. @ = [file |-> file, at |-> at, eof |-> eof, count_188 |-> a, count_204 |-> n]
    BY StateWith
  <2>3. [[s EXCEPT !.count_204 = n] EXCEPT !.count_188 = 0] =
          [[file |-> file, at |-> at, eof |-> eof, count_188 |-> a, count_204 |-> n] EXCEPT !.count_188 = 0]
    BY <2>1, <2>2, Zenon
  <2>4. @ = [file |-> file, at |-> at, eof |-> eof, count_188 |-> 0, count_204 |-> n]
    BY StateWith
  <2>5. QED BY <1>1, <2>3, <2>4, Zenon
<1>5. /\ [s EXCEPT !.count_188 = @ + 1] = SyncState(file, at, m, b)
      /\ [s EXCEPT !.count_204 = @ + 1, !.count_188 = 0] = SyncState(file, at, 0, n)
  BY <1>2, <1>3, <1>4, Zenon
<1>6. QED BY <1>5, Zenon DEF s, m, n, ShortCounted, LongCounted

LEMMA ShortStep ==
  ASSUME NEW file, file.size \in Nat, NEW at \in Nat, NEW a \in 0 .. 2, NEW b \in 0 .. 2,
         at + Ts188Byte <= file.size, at + Ts188Byte \in file.syncs
  PROVE  SyncLoop(SyncState(file, at, a, b)) = SyncState(file, at + Ts188Byte, a + 1, b)
<1>1. Ts188Byte \in Nat /\ Ts188Byte - 1 \in Nat /\ at + (Ts188Byte - 1) \in Nat
      /\ (at + (Ts188Byte - 1)) + 1 = at + Ts188Byte /\ at + (Ts188Byte - 1) <= file.size
  BY PacketSizesAssumption
<1> DEFINE s == SyncState(file, at, a, b)
           short == Consume(Consume(s, Ts188Byte - 1), 1)
<1>2. short = SyncState(file, at + Ts188Byte, a, b)
  BY <1>1, ConsumedBytes
<1>3. GotSync(short)
  BY <1>2 DEF GotSync, SyncState
<1>4. ~(s.eof \/ s.count_188 >= SYNC_LENGTH \/ s.count_204 >= SYNC_LENGTH)
  BY DEF SyncState, SYNC_LENGTH
<1> HIDE DEF s, short
<1>5. ShortCounted(short) = SyncState(file, at + Ts188Byte, a + 1, b)
  BY <1>2, CountedPackets
<1>6. SyncLoop(s) = ShortCounted(short)
  BY <1>3, <1>4 DEF SyncLoop, short, ShortCounted
<1>7. QED BY <1>5, <1>6 DEF s

LEMMA LongStep ==
  ASSUME NEW file, file.size \in Nat, NEW at \in Nat, NEW a \in 0 .. 2, NEW b \in 0 .. 2,
         at + Ts204Byte <= file.size, at + Ts188Byte \notin file.syncs, at + Ts204Byte \in file.syncs
  PROVE  SyncLoop(SyncState(file, at, a, b)) = SyncState(file, at + Ts204Byte, 0, b + 1)
<1>1. /\ Ts188Byte \in Nat /\ Ts188Byte - 1 \in Nat /\ at + (Ts188Byte - 1) \in Nat
      /\ (at + (Ts188Byte - 1)) + 1 = at + Ts188Byte /\ at + (Ts188Byte - 1) <= file.size
      /\ at + Ts188Byte <= file.size /\ at + Ts188Byte \in Nat /\ Ts204Byte - Ts188Byte \in Nat
      /\ (at + Ts188Byte) + (Ts204Byte - Ts188Byte) = at + Ts204Byte
  BY PacketSizesAssumption
<1> DEFINE s == SyncState(file, at, a, b)
           short == Consume(Consume(s, Ts188Byte - 1), 1)
           long == Consume(short, Ts204Byte - Ts188Byte)
<1>2. short = SyncState(file, at + Ts188Byte, a, b)
  BY <1>1, ConsumedBytes
<1>3. long = SyncState(file, at + Ts204Byte, a, b)
  BY <1>1, <1>2, ConsumedBytes
<1>4. ~GotSync(short) /\ GotSync(long)
  BY <1>2, <1>3 DEF GotSync, SyncState
<1>5. ~(s.eof \/ s.count_188 >= SYNC_LENGTH \/ s.count_204 >= SYNC_LENGTH)
  BY DEF SyncState, SYNC_LENGTH
<1> HIDE DEF s, short, long
<1>6. LongCounted(long) = SyncState(file, at + Ts204Byte, 0, b + 1)
  BY <1>3, CountedPackets
<1>7. SyncLoop(s) = LongCounted(long)
  BY <1>4, <1>5 DEF SyncLoop, short, long, LongCounted
<1>8. QED BY <1>6, <1>7 DEF s

LEMMA CountedEnough ==
  ASSUME NEW file, NEW at, NEW a \in Nat, NEW b \in Nat, a = 3 \/ b = 3
  PROVE  SyncLoop(SyncState(file, at, a, b)) = SyncState(file, at, a, b)
<1> DEFINE s == SyncState(file, at, a, b)
<1>1. s.eof \/ s.count_188 >= SYNC_LENGTH \/ s.count_204 >= SYNC_LENGTH
  BY DEF SyncState, SYNC_LENGTH
<1> HIDE DEF s
<1>2. SyncLoop(s) = s
  BY <1>1 DEF SyncLoop
<1>3. QED BY <1>2 DEF s

(* The first sync byte is found. *)
LEMMA FirstSync ==
  ASSUME NEW file, NEW first \in Nat \ {0}, first \in file.syncs, file.syncs \subseteq Nat,
         \A other \in file.syncs : first <= other
  PROVE  SkipToSync([file |-> file, at |-> 0, eof |-> FALSE, count_188 |-> 0, count_204 |-> 0])
           = SyncState(file, first, 0, 0)
<1> DEFINE s == [file |-> file, at |-> 0, eof |-> FALSE, count_188 |-> 0, count_204 |-> 0]
           next == {n \in file.syncs : n > 0}
           least == CHOOSE n \in next : \A other \in next : n <= other
<1>1. first \in next /\ (\A other \in next : first <= other) /\ next \subseteq Nat
  OBVIOUS
<1>2. least = first
  <2> HIDE DEF next
  <2>1. least \in next /\ \A other \in next : least <= other
    BY <1>1
  <2> HIDE DEF least
  <2>2. least <= first /\ first <= least /\ least \in Nat
    BY <1>1, <2>1
  <2>3. QED BY <2>2
<1>3. next # {}
  BY <1>1
<1>4. SkipToSync(s) = IF next = {} THEN Consume(s, file.size + 1) ELSE [s EXCEPT !.at = least]
  BY DEF SkipToSync
<1> HIDE DEF next, least
<1>5. SkipToSync(s) = [s EXCEPT !.at = first]
  BY <1>2, <1>3, <1>4
<1>6. QED BY <1>5 DEF SyncState

(* Three steps of the loop are all, if the third is a sync byte counted. *)
LEMMA ThreeSteps ==
  ASSUME NEW file, Passes(file) \in Nat, 3 <= Passes(file), NEW s0, NEW s1, NEW s2, NEW s3,
         s0 = SkipToSync([file |-> file, at |-> 0, eof |-> FALSE, count_188 |-> 0, count_204 |-> 0]),
         SyncLoop(s0) = s1, SyncLoop(s1) = s2, SyncLoop(s2) = s3, SyncLoop(s3) = s3
  PROVE  fgetTSsync(file) = CASE s3.count_204 # 0 -> Ts204Byte
                              [] s3.count_204 = 0 /\ s3.count_188 # 0 -> Ts188Byte
                              [] OTHER -> 0
<1> DEFINE N == Passes(file)
           Recurs(f) == f = [i \in 0 .. N |-> IF i = 0 THEN s0 ELSE SyncLoop(f[i - 1])]
           g == [i \in 0 .. N |-> IF i = 0 THEN s0 ELSE IF i = 1 THEN s1 ELSE IF i = 2 THEN s2 ELSE s3]
           loop == CHOOSE f : Recurs(f)
<1>1. Recurs(g)
  <2>1. ASSUME NEW i \in 0 .. N PROVE g[i] = IF i = 0 THEN s0 ELSE SyncLoop(g[i - 1])
    <3>1. CASE i \in {0, 1, 2}
      <4>1. g[0] = s0 /\ g[1] = s1 /\ g[2] = s2
        OBVIOUS
      <4>2. 1 - 1 = 0 /\ 2 - 1 = 1
        OBVIOUS
      <4> HIDE DEF g
      <4>3. QED BY <3>1, <4>1, <4>2
    <3>2. CASE i \notin {0, 1, 2}
      <4>1. i - 1 \in 0 .. N /\ i - 1 # 0 /\ i - 1 # 1 /\ i # 0 /\ i # 1 /\ i # 2
        BY <3>2
      <4>2. g[i] = s3 /\ g[i - 1] = IF i - 1 = 2 THEN s2 ELSE s3
        BY <4>1
      <4> HIDE DEF g
      <4>3. QED BY <4>1, <4>2
    <3>3. QED BY <3>1, <3>2
  <2>2. g = [i \in 0 .. N |-> g[i]]
    OBVIOUS
  <2> HIDE DEF g
  <2>3. QED BY <2>1, <2>2, Zenon
<1>2. Recurs(loop)
  BY <1>1, Zenon
<1>3. fgetTSsync(file) = CASE loop[N].count_204 # 0 -> Ts204Byte
                           [] loop[N].count_204 = 0 /\ loop[N].count_188 # 0 -> Ts188Byte
                           [] OTHER -> 0
  BY DEF fgetTSsync
<1>4. loop = [i \in 0 .. N |-> IF i = 0 THEN s0 ELSE SyncLoop(loop[i - 1])]
  BY <1>2
<1> HIDE DEF loop
<1>5. loop[0] = s0 /\ \A i \in 1 .. N : loop[i] = SyncLoop(loop[i - 1])
  <2>1. 0 \in 0 .. N /\ \A i \in 1 .. N : i \in 0 .. N /\ i # 0
    OBVIOUS
  <2> HIDE DEF N
  <2>2. QED BY <1>4, <2>1
<1> DEFINE Bad == {i \in 3 .. N : loop[i] # s3}
<1>6. ASSUME Bad # {} PROVE FALSE
  <2>1. PICK n \in Bad : \A m \in Bad : n <= m
    <3>1. Bad \in SUBSET Nat
      OBVIOUS
    <3> HIDE DEF Bad
    <3>2. QED BY <1>6, <3>1, LeastOf
  <2>2. n # 3
    <3>1. loop[1] = SyncLoop(loop[1 - 1]) /\ loop[2] = SyncLoop(loop[2 - 1]) /\ loop[3] = SyncLoop(loop[3 - 1])
      <4>1. 1 \in 1 .. N /\ 2 \in 1 .. N /\ 3 \in 1 .. N
        OBVIOUS
      <4>2. QED BY <1>5, <4>1
    <3>2. 1 - 1 = 0 /\ 2 - 1 = 1 /\ 3 - 1 = 2
      OBVIOUS
    <3>3. loop[3] = s3
      BY <1>5, <3>1, <3>2
    <3>4. QED BY <2>1, <3>3
  <2>3. n \in 1 .. N /\ n - 1 \in 3 .. N /\ n - 1 \notin Bad
    BY <2>1, <2>2
  <2>4. loop[n - 1] = s3 /\ loop[n] = SyncLoop(loop[n - 1])
    BY <1>5, <2>3
  <2>5. QED BY <2>1, <2>4
<1>7. loop[N] = s3
  <2>1. N \in 3 .. N
    OBVIOUS
  <2>2. QED BY <1>6, <2>1
<1>8. QED BY <1>3, <1>7

(* Multiples are apart. *)
LEMMA MultiplesApart ==
  ASSUME NEW L \in Nat, NEW S \in 1 .. L - 1, NEW k \in Nat, NEW i \in Nat
  PROVE  L * i # L * k + S /\ (i # 0 => L * i >= L)
<1>1. \A x, y \in Int : L * (x + y) = L * x + L * y
  OBVIOUS
<1>2. \A x \in Nat : L * x \in Nat
  OBVIOUS
<1>3. L * 1 = L /\ L * i \in Nat /\ L * k \in Nat
  OBVIOUS
<1>4. CASE i <= k
  <2>1. k - i \in Nat /\ k = i + (k - i)
    BY <1>4
  <2>2. L * k = L * i + L * (k - i) /\ L * (k - i) \in Nat
    BY <1>1, <1>2, <2>1
  <2> DEFINE d == L * (k - i)
             p == L * i
             q == L * k
  <2>3. L * i # L * k + S
    <3> HIDE DEF d, p, q
    <3>1. q = p + d /\ d \in Nat /\ p \in Nat => p # q + S
      OBVIOUS
    <3>2. QED BY <1>3, <2>2, <3>1 DEF d, p, q
  <2>4. QED BY <2>3
<1>5. CASE ~(i <= k)
  <2>1. i - (k + 1) \in Nat /\ i = (k + 1) + (i - (k + 1))
    BY <1>5
  <2>2. L * i = L * (k + 1) + L * (i - (k + 1)) /\ L * (i - (k + 1)) \in Nat
    BY <1>1, <1>2, <2>1
  <2>3. L * (k + 1) = L * k + L
    BY <1>1, <1>3
  <2> DEFINE d == L * (i - (k + 1))
             p == L * i
             q == L * k
  <2>4. L * i # L * k + S
    <3> HIDE DEF d, p, q
    <3>1. p = (q + L) + d /\ d \in Nat /\ p \in Nat /\ q \in Nat => p # q + S
      OBVIOUS
    <3>2. QED BY <1>3, <2>2, <2>3, <3>1 DEF d, p, q
  <2>5. QED BY <2>4
<1>6. ASSUME i # 0 PROVE L * i >= L
  <2>1. i - 1 \in Nat /\ i = 1 + (i - 1)
    BY <1>6
  <2>2. L * i = L * 1 + L * (i - 1) /\ L * (i - 1) \in Nat
    BY <1>1, <1>2, <2>1
  <2>3. QED BY <1>3, <2>2
<1>7. QED BY <1>4, <1>5, <1>6


(* There are passes enough to count three packets. *)
LEMMA EnoughPasses ==
  ASSUME NEW S \in Nat, S >= 1, NEW n \in Nat, S * 4 <= n
  PROVE  n \div S + 1 \in Nat /\ 3 <= n \div S + 1
<1> DEFINE q == n \div S
<1>1. n = S * q + (n % S) /\ q \in Int /\ n % S \in 0 .. S - 1
  BY Division
<1> HIDE DEF q
<1>2. q >= 2
  <2>1. SUFFICES ASSUME q < 2 PROVE FALSE
    BY <1>1
  <2>2. 2 - q \in Nat
    BY <1>1, <2>1
  <2>3. S * (2 - q) \in Nat /\ S * 2 = S * q + S * (2 - q) /\ S * 2 \in Nat /\ S * 4 = S * 2 + S * 2
    BY <1>1, <2>2
  <2> DEFINE a == S * q
             b == S * (2 - q)
             c == S * 2
  <2>4. a \in Int /\ b \in Nat /\ c \in Nat /\ c = a + b /\ c + c <= n /\ n = a + (n % S) /\ S <= c
    BY <1>1, <2>3
  <2> HIDE DEF a, b, c
  <2>5. QED BY <1>1, <2>4
<1>3. QED BY <1>1, <1>2 DEF q

LEMMA SizeIsFound ==
  ASSUME NEW file \in Files
  PROVE  fgetTSsync(file) = file.packet \/ file.packets < 4
<1> SUFFICES ASSUME ~(file.packets < 4) PROVE fgetTSsync(file) = file.packet
  OBVIOUS
<1>1. PICK start \in 0 .. file.size :
        /\ file.syncs = {start + file.packet * i + 1 : i \in 0 .. file.packets - 1}
        /\ start + file.packet * file.packets <= file.size
  BY FilesAssumption
<1> DEFINE N == file.size
           P == file.packet
           K == file.packets
           s(n, a, b) == SyncState(file, start + P * n + 1, a, b)
<1>2. /\ N \in Nat /\ P \in {Ts188Byte, Ts204Byte} /\ K \in Nat /\ K >= 4 /\ start \in Nat
      /\ Ts188Byte \in Nat /\ Ts204Byte \in Nat /\ 5 < Ts188Byte
      /\ Ts188Byte < Ts204Byte /\ Ts204Byte < 2 * Ts188Byte
  BY FilesAssumption, PacketSizesAssumption
<1>3. P \in Nat /\ P > 5
  BY <1>2
<1>4. start + P * 4 <= N /\ 3 <= N
  <2> DEFINE d == K - 4
  <2>1. d \in Nat /\ K = 4 + d
    BY <1>2
  <2>2. start + P * K <= N
    BY <1>1
  <2> HIDE DEF N, P, K, d
  <2>3. P * (4 + d) = P * 4 + P * d /\ P * d \in Nat /\ P * 4 \in Nat
    BY <1>3, <2>1
  <2> DEFINE e == P * d
  <2>4. start + (P * 4 + e) <= N /\ e \in Nat
    BY <2>1, <2>2, <2>3
  <2> HIDE DEF e
  <2>5. QED BY <1>2, <1>3, <2>4
<1>5. \A at \in Nat : at \in file.syncs <=> \E i \in 0 .. K - 1 : at = start + P * i + 1
  BY <1>1
<1>6. file.syncs \subseteq Nat /\ \A other \in file.syncs : start + 1 <= other
  <2>1. \A i \in 0 .. K - 1 : P * i \in Nat
    BY <1>3
  <2>2. \A other \in file.syncs : \E i \in 0 .. K - 1 : other = start + P * i + 1
    BY <1>1
  <2> HIDE DEF P, K
  <2>3. QED BY <1>2, <2>1, <2>2
<1> HIDE DEF N, P, K
<1>7. ASSUME NEW n \in 0 .. 3
      PROVE  start + P * n + 1 \in file.syncs /\ start + P * n + 1 \in Nat
  <2>1. n \in 0 .. K - 1 /\ P * n \in Nat
    BY <1>2, <1>3
  <2>2. start + P * n + 1 \in Nat
    BY <1>2, <2>1
  <2>3. QED BY <1>5, <2>1, <2>2
<1>8. P * 0 = 0 /\ start + 0 + 1 = start + 1 /\ \A n \in 0 .. 2 : (start + P * n + 1) + P = start + P * (n + 1) + 1
  BY <1>2, <1>3
<1>9. SkipToSync([file |-> file, at |-> 0, eof |-> FALSE, count_188 |-> 0, count_204 |-> 0]) = s(0, 0, 0)
  <2>1. start + 1 \in Nat \ {0} /\ start + 1 \in file.syncs
    BY <1>2, <1>7, <1>8
  <2>2. SkipToSync([file |-> file, at |-> 0, eof |-> FALSE, count_188 |-> 0, count_204 |-> 0]) =
          SyncState(file, start + 1, 0, 0)
    BY <1>6, <2>1, FirstSync
  <2>3. QED BY <1>8, <2>2
<1>10. \A n \in 0 .. 2 : start + P * (n + 1) + 1 <= N
  BY <1>2, <1>3, <1>4
<1>11. Passes(file) \in Nat /\ 3 <= Passes(file)
  <2>1. Ts188Byte >= 1 /\ Ts188Byte * 4 <= N
    <3> DEFINE S == Ts188Byte
    <3>1. S \in Nat /\ S <= P /\ S >= 1
      BY <1>2
    <3> HIDE DEF S
    <3>2. S * 4 <= P * 4 /\ S * 4 \in Nat /\ P * 4 \in Nat
      BY <1>3, <3>1
    <3>3. QED BY <1>2, <1>4, <3>1, <3>2 DEF S
  <2>2. QED BY <1>2, <2>1, EnoughPasses DEF Passes, N
<1>12. CASE P = Ts188Byte
  <2>1. ASSUME NEW n \in 0 .. 2
        PROVE  SyncLoop(s(n, n, 0)) = s(n + 1, n + 1, 0)
    <3> DEFINE at == start + P * n + 1
    <3>1. at \in Nat /\ at + Ts188Byte = start + P * (n + 1) + 1
      BY <1>7, <1>8, <1>12
    <3>2. at + Ts188Byte <= file.size /\ at + Ts188Byte \in file.syncs
      BY <1>7, <1>10, <3>1 DEF N
    <3> HIDE DEF at
    <3>3. SyncLoop(SyncState(file, at, n, 0)) = SyncState(file, at + Ts188Byte, n + 1, 0)
      BY <1>2, <3>1, <3>2, ShortStep DEF N
    <3>4. QED BY <3>1, <3>3 DEF at
  <2>2. SyncLoop(s(0, 0, 0)) = s(1, 1, 0) /\ SyncLoop(s(1, 1, 0)) = s(2, 2, 0) /\ SyncLoop(s(2, 2, 0)) = s(3, 3, 0)
    <3>1. 0 + 1 = 1 /\ 1 + 1 = 2 /\ 2 + 1 = 3
      OBVIOUS
    <3> HIDE DEF s
    <3>2. SyncLoop(s(0, 0, 0)) = s(0 + 1, 0 + 1, 0) /\ SyncLoop(s(1, 1, 0)) = s(1 + 1, 1 + 1, 0)
          /\ SyncLoop(s(2, 2, 0)) = s(2 + 1, 2 + 1, 0)
      BY <2>1
    <3>3. QED BY <3>1, <3>2
  <2>3. SyncLoop(s(3, 3, 0)) = s(3, 3, 0)
    BY CountedEnough
  <2>4. s(3, 3, 0).count_204 = 0 /\ s(3, 3, 0).count_188 = 3
    BY DEF SyncState
  <2> HIDE DEF s
  <2>5. fgetTSsync(file) = CASE s(3, 3, 0).count_204 # 0 -> Ts204Byte
                             [] s(3, 3, 0).count_204 = 0 /\ s(3, 3, 0).count_188 # 0 -> Ts188Byte
                             [] OTHER -> 0
    <3>1. s(0, 0, 0) = SkipToSync([file |-> file, at |-> 0, eof |-> FALSE, count_188 |-> 0, count_204 |-> 0])
      BY <1>9
    <3>2. Passes(file) \in Nat /\ 3 <= Passes(file)
      BY <1>11
    <3>3. QED BY <2>2, <2>3, <3>1, <3>2, ThreeSteps
  <2>6. QED BY <1>12, <2>4, <2>5 DEF P
<1>13. CASE P = Ts204Byte
  <2>1. ASSUME NEW n \in 0 .. 2
        PROVE  SyncLoop(s(n, 0, n)) = s(n + 1, 0, n + 1)
    <3> DEFINE at == start + P * n + 1
    <3>1. at \in Nat /\ at + Ts204Byte = start + P * (n + 1) + 1
      BY <1>7, <1>8, <1>13
    <3>2. at + Ts204Byte <= file.size /\ at + Ts204Byte \in file.syncs
      BY <1>7, <1>10, <3>1 DEF N
    <3>3. at + Ts188Byte \notin file.syncs
      <4>1. ASSUME NEW i \in 0 .. K - 1 PROVE at + Ts188Byte # start + P * i + 1
        <5>1. P * i # P * n + Ts188Byte
          BY <1>2, <1>13, MultiplesApart
        <5>2. P * i \in Nat /\ P * n \in Nat
          BY <1>3
        <5> DEFINE p == P * i
                   q == P * n
        <5> HIDE DEF p, q
        <5>3. p # q + Ts188Byte /\ p \in Nat /\ q \in Nat
          BY <5>1, <5>2 DEF p, q
        <5>4. start + q + 1 + Ts188Byte # start + p + 1
          BY <1>2, <5>3
        <5>5. QED BY <5>4 DEF p, q
      <4>2. at + Ts188Byte \in Nat
        BY <1>2, <3>1
      <4>3. QED BY <1>5, <4>1, <4>2
    <3> HIDE DEF at
    <3>4. SyncLoop(SyncState(file, at, 0, n)) = SyncState(file, at + Ts204Byte, 0, n + 1)
      BY <1>2, <3>1, <3>2, <3>3, LongStep DEF N
    <3>5. QED BY <3>1, <3>4 DEF at
  <2>2. SyncLoop(s(0, 0, 0)) = s(1, 0, 1) /\ SyncLoop(s(1, 0, 1)) = s(2, 0, 2) /\ SyncLoop(s(2, 0, 2)) = s(3, 0, 3)
    <3>1. 0 + 1 = 1 /\ 1 + 1 = 2 /\ 2 + 1 = 3
      OBVIOUS
    <3> HIDE DEF s
    <3>2. SyncLoop(s(0, 0, 0)) = s(0 + 1, 0, 0 + 1) /\ SyncLoop(s(1, 0, 1)) = s(1 + 1, 0, 1 + 1)
          /\ SyncLoop(s(2, 0, 2)) = s(2 + 1, 0, 2 + 1)
      BY <2>1
    <3>3. QED BY <3>1, <3>2
  <2>3. SyncLoop(s(3, 0, 3)) = s(3, 0, 3)
    BY CountedEnough
  <2>4. s(3, 0, 3).count_204 = 3
    BY DEF SyncState
  <2> HIDE DEF s
  <2>5. fgetTSsync(file) = CASE s(3, 0, 3).count_204 # 0 -> Ts204Byte
                             [] s(3, 0, 3).count_204 = 0 /\ s(3, 0, 3).count_188 # 0 -> Ts188Byte
                             [] OTHER -> 0
    <3>1. s(0, 0, 0) = SkipToSync([file |-> file, at |-> 0, eof |-> FALSE, count_188 |-> 0, count_204 |-> 0])
      BY <1>9
    <3>2. Passes(file) \in Nat /\ 3 <= Passes(file)
      BY <1>11
    <3>3. QED BY <2>2, <2>3, <3>1, <3>2, ThreeSteps
  <2>6. QED BY <1>13, <2>4, <2>5 DEF P
<1>14. QED BY <1>2, <1>12, <1>13

-----------------------------------------------------------------------------
(* The jobs, and what is returned for them.                                  *)

(* What a calculation is for tells its operands. *)
LEMMA KindsOfJobs ==
  ASSUME NEW j \in Jobs
  PROVE  /\ j.for \in {"multiply", "multiply32", "BigInt"} => j \in ProductJobs
         /\ j.for = "sample" => j \in SampleJobs
         /\ j.for \in {"packet", "PES", "sync", "address"} => j \in PacketJobs
         /\ j.for \in {"wave", "time"} => j \in SizeJobs
         /\ j.for = "options" => j \in OptionJobs
<1>1. j \in ProductJobs => j.for \in {"multiply", "multiply32", "BigInt"}
  BY DEF ProductJobs
<1>2. j \in BitJobs => j.for \in {"reverse", "crc"}
  BY DEF BitJobs
<1>3. j \in SampleJobs => j.for = "sample"
  BY DEF SampleJobs
<1>4. j \in HeaderJobs => j.for \in {"ac3", "eac3", "dts"}
  BY DEF HeaderJobs
<1>5. j \in PacketJobs => j.for \in {"packet", "PES", "sync", "address"}
  BY DEF PacketJobs
<1>6. j \in SizeJobs => j.for \in {"wave", "time"}
  BY DEF SizeJobs
<1>7. j \in OptionJobs => j.for = "options"
  BY DEF OptionJobs
<1>8. QED BY <1>1, <1>2, <1>3, <1>4, <1>5, <1>6, <1>7 DEF Jobs

LEMMA FactorsAre ==
  ASSUME NEW j \in Jobs
  PROVE  /\ j.for = "multiply" => j.a \in Int /\ j.b \in Int /\ j.rs \in 0 .. HALF
         /\ j.for \in {"multiply32", "BigInt"} => j.a \in Int /\ j.b \in Int
         /\ j.for = "sample" => j.val \in Int /\ j.depth \in 1 .. BITS /\ j.point \in 1 .. BITS
<1>0. (HalfWords \cup Words) \cup DoubleWords \subseteq Int /\ Depths \subseteq 1 .. BITS
  BY OperandsAssumption
<1>1. j.for = "multiply" => j.a \in HalfWords /\ j.b \in Words /\ j.rs \in 0 .. HALF
  BY KindsOfJobs DEF ProductJobs
<1>2. j.for \in {"multiply32", "BigInt"} => {j.a, j.b} \subseteq Words \cup DoubleWords
  BY KindsOfJobs DEF ProductJobs
<1>3. j.for = "sample" => j.val \in -(2^(BITS - 1)) .. 2^(BITS - 1) - 1 /\ j.depth \in Depths /\ j.point \in Depths
  BY KindsOfJobs DEF SampleJobs
<1>4. \A n : n \in -(2^(BITS - 1)) .. 2^(BITS - 1) - 1 => n \in Int
  OBVIOUS
<1>5. QED BY <1>0, <1>1, <1>2, <1>3, <1>4

LEMMA OperandsAre ==
  ASSUME NEW j \in Jobs
  PROVE  /\ j.for = "packet" => /\ j.header \in PacketHeaders /\ j.size \in {Ts188Byte, Ts204Byte}
                                /\ j.PID \in PIDs
         /\ j.for = "PES" => /\ j.length \in PESLengths /\ j.headerLength \in HeaderLengths
                             /\ j.stream_id \in {189, 192} /\ j.PTS \in Stamps
         /\ j.for = "sync" => j.file \in Files
         /\ j.for = "wave" => j.frames \in 0 .. MaxFrames
         /\ j.for = "time" => j.ms \in Times
         /\ j.for = "options" => j.args \in CommandLines /\ j.argnum \in Positions
<1>1. j.for = "packet" => /\ j.header \in PacketHeaders /\ j.size \in {Ts188Byte, Ts204Byte}
                          /\ j.PID \in PIDs
  BY KindsOfJobs DEF PacketJobs
<1>2. j.for = "PES" => /\ j.length \in PESLengths /\ j.headerLength \in HeaderLengths
                       /\ j.stream_id \in {189, 192} /\ j.PTS \in Stamps
  BY KindsOfJobs DEF PacketJobs
<1>3. j.for = "sync" => j.file \in Files
  BY KindsOfJobs DEF PacketJobs
<1>4. j.for = "wave" => j.frames \in 0 .. MaxFrames
  BY KindsOfJobs DEF SizeJobs
<1>5. j.for = "time" => j.ms \in Times
  BY KindsOfJobs DEF SizeJobs
<1>6. j.for = "options" => j.args \in CommandLines /\ j.argnum \in Positions
  BY KindsOfJobs DEF OptionJobs
<1>7. QED BY <1>1, <1>2, <1>3, <1>4, <1>5, <1>6

(* What is said of other calculations than the one made says nothing.        *)
LEMMA OnlyProducts ==
  ASSUME job'.for \notin {"multiply", "multiply32", "BigInt"} PROVE ProductsAreRight'
BY DEF ProductsAreRight, Called

LEMMA OnlySamples == ASSUME job'.for # "sample" PROVE SamplesAreRight'
BY DEF SamplesAreRight, Called

LEMMA OnlySizesAndTimes == ASSUME job'.for \notin {"wave", "time"} PROVE SizesAndTimesAreRight'
BY DEF SizesAndTimesAreRight, Called

LEMMA OnlyPackets == ASSUME job'.for \notin {"packet", "PES", "sync", "address"} PROVE PacketsAreRight'
BY DEF PacketsAreRight, Called

LEMMA OnlyOptions == ASSUME job'.for # "options" PROVE OptionsAreFound'
BY DEF OptionsAreFound, Called

(* What each calculation returns is right. *)
LEMMA RightProducts ==
  ASSUME job' \in Jobs,
         \/ job'.for = "multiply" /\ outcome' = [shifted |-> multiply_16by32to32withlsr(job'.a, job'.b, job'.rs),
                                               whole   |-> multiply16by32(job'.a, job'.b)]
         \/ job'.for = "multiply32" /\ outcome' = [whole |-> multiply32by32(job'.a, job'.b)]
         \/ job'.for = "BigInt" /\ outcome' = [value |-> BigIntValue(right_shift(multiplyBigInt(job'.a, job'.b), 1))]
  PROVE  ProductsAreRight'
<1>1. CASE job'.for = "multiply"
  <2>1. job'.a \in Int /\ job'.b \in Int /\ job'.rs \in 0 .. HALF
    BY <1>1, FactorsAre
  <2>2. /\ outcome'.shifted = multiply_16by32to32withlsr(job'.a, job'.b, job'.rs)
        /\ outcome'.whole = multiply16by32(job'.a, job'.b)
    BY <1>1
  <2>3. QED BY <1>1, <2>1, <2>2, HalfWordByWord, ShiftedProduct DEF ProductsAreRight, Called
<1>2. CASE job'.for = "multiply32"
  <2>1. job'.a \in Int /\ job'.b \in Int
    BY <1>2, FactorsAre
  <2>2. outcome'.whole = multiply32by32(job'.a, job'.b)
    BY <1>2
  <2>3. (outcome'.whole - job'.a * job'.b) % 2^WORD = 0
    BY <2>1, <2>2, LowerWordIsRight
  <2>4. {job'.a, job'.b} \subseteq 0 .. 2^(HALF - 1) - 1 => outcome'.whole = job'.a * job'.b
    BY <2>2, SmallWordByWord
  <2>5. QED BY <1>2, <2>3, <2>4 DEF ProductsAreRight, Called
<1>3. CASE job'.for = "BigInt"
  <2>1. outcome'.value = BigIntValue(right_shift(multiplyBigInt(job'.a, job'.b), 1))
    BY <1>3
  <2>2. (outcome'.value - job'.a * job'.b) % 2^WORD = 0
    BY <1>3, <2>1, FactorsAre, BigIntLowestWord
  <2>3. QED BY <1>3, <2>2 DEF ProductsAreRight, Called
<1>4. QED BY <1>1, <1>2, <1>3

LEMMA RightSamples ==
  ASSUME job' \in Jobs, job'.for = "sample", NEW b, 
         b = put(add(setBitDepth(SampleBuffer, job'.depth), 0, job'.depth), 0, job'.val, job'.depth),
         outcome' = [got |-> get(b, 0), copied |-> get(Copy(b), 0),
                    assigned |-> get(Assign(setBitDepth(SampleBuffer, job'.depth), b), 0),
                    moved |-> adjustFixedPoint(adjustFixedPoint(b, job'.point), BITS).vect[1]]
  PROVE  SamplesAreRight'
<1>1. job'.val \in Int /\ job'.depth \in 1 .. BITS /\ job'.point \in 1 .. BITS
  BY FactorsAre
<1>2. b = KeptIn(job'.val, job'.depth)
  BY <1>1, KeptSample
<1>3. /\ outcome'.got = get(b, 0) /\ outcome'.copied = get(Copy(b), 0)
      /\ outcome'.assigned = get(Assign(setBitDepth(SampleBuffer, job'.depth), b), 0)
      /\ outcome'.moved = adjustFixedPoint(adjustFixedPoint(b, job'.point), BITS).vect[1]
  OBVIOUS
<1> DEFINE left == 2^(BITS - job'.depth) * outcome'.got
<1>4. /\ outcome'.got = Signed(job'.val, job'.depth) /\ outcome'.assigned = outcome'.got
      /\ outcome'.copied = left
      /\ outcome'.moved = (left \div 2^(BITS - job'.point)) * 2^(BITS - job'.point)
  <2> HIDE DEF left
  <2>1. /\ get(b, 0) = Signed(job'.val, job'.depth)
        /\ get(Copy(b), 0) = 2^(BITS - job'.depth) * Signed(job'.val, job'.depth)
        /\ get(Assign(setBitDepth(SampleBuffer, job'.depth), b), 0) = Signed(job'.val, job'.depth)
        /\ adjustFixedPoint(adjustFixedPoint(b, job'.point), BITS).vect[1] =
             ((2^(BITS - job'.depth) * Signed(job'.val, job'.depth)) \div 2^(BITS - job'.point)) * 2^(BITS - job'.point)
    BY <1>1, <1>2, SampleComesBack
  <2>2. QED BY <1>3, <2>1, Zenon DEF left
<1>5. QED BY <1>4 DEF SamplesAreRight

LEMMA RightSizesAndTimes ==
  ASSUME job' \in Jobs,
         \/ job'.for = "wave" /\ outcome' = [fileSize |-> fileSize(job'.rate, job'.frames),
                                           data |-> dataWritten(job'.rate, job'.frames),
                                           inHeader |-> 6 * AESFrames(job'.rate, job'.frames)]
         \/ job'.for = "time" /\ outcome' = milliseconds_to_hms_ms(job'.ms)
  PROVE  SizesAndTimesAreRight'
<1>1. CASE job'.for = "wave"
  <2>1. job'.frames \in Nat
    BY <1>1, OperandsAre, OperandsAssumption
  <2>2. /\ outcome'.fileSize = fileSize(job'.rate, job'.frames) /\ outcome'.data = dataWritten(job'.rate, job'.frames)
        /\ outcome'.inHeader = 6 * AESFrames(job'.rate, job'.frames)
    BY <1>1
  <2>3. /\ job'.rate \in ListedRates =>
             dataWritten(job'.rate, job'.frames) = 6 * AESFrames(job'.rate, job'.frames)
        /\ job'.rate \notin ListedRates =>
             dataWritten(job'.rate, job'.frames) = 6 * 1920 * job'.frames /\ AESFrames(job'.rate, job'.frames) = 0
    BY <2>1, DataIsWritten
  <2>4. job'.rate \in ListedRates => AESFrames(job'.rate, job'.frames) \in Nat
    BY <2>1, NextAESFrames
  <2>5. SimpleChunkBytes = 28 /\ fileSize(job'.rate, job'.frames) = 36 + 6 * AESFrames(job'.rate, job'.frames)
    <3>1. AESFrames(job'.rate, job'.frames) \in Int
      BY <2>3, <2>4
    <3>2. QED BY <3>1 DEF fileSize, SimpleChunkBytes
  <2>6. IF job'.rate \in {23, 24, 25, 29, 50, 59}
        THEN outcome'.inHeader = outcome'.data /\ outcome'.fileSize = outcome'.data + SimpleChunkBytes + 8
        ELSE outcome'.inHeader = 0 /\ outcome'.data = 6 * 1920 * job'.frames
    BY <2>1, <2>2, <2>3, <2>4, <2>5 DEF ListedRates
  <2>7. QED BY <1>1, <2>6 DEF SizesAndTimesAreRight, Called
<1>2. CASE job'.for = "time"
  <2>1. job'.ms \in Nat
    <3>1. job'.ms \in Times
      BY <1>2, OperandsAre, Zenon
    <3>2. Times \subseteq Nat
      BY OperandsAssumption, Zenon
    <3>3. QED BY <3>1, <3>2, Zenon
  <2>2. outcome' = milliseconds_to_hms_ms(job'.ms)
    BY <1>2
  <2>3. AddsUp(outcome', job'.ms)
    BY <2>1, <2>2, TimeAddsUp, Zenon
  <2>4. QED BY <1>2, <2>3, SMTT(40) DEF AddsUp, SizesAndTimesAreRight, Called
<1>3. QED BY <1>1, <1>2


LEMMA RightPackets ==
  ASSUME job' \in Jobs, job'.for = "packet", NEW p, p = SetPacket(job'.header, job'.size),
         outcome'.p = p, outcome'.null = MakeNULLPID(SetPUSI(p, 1)), outcome'.long = ConvertTo204(ConvertTo188(p))
  PROVE  PacketsAreRight'
<1>1. /\ job'.header.afLength \in Nat /\ job'.header.PID \in Nat
      /\ job'.size \in {Ts188Byte, Ts204Byte}
  <2>1. job'.header \in PacketHeaders /\ job'.size \in {Ts188Byte, Ts204Byte}
    BY OperandsAre
  <2>2. QED BY <2>1, OperandsAssumption
<1>2. /\ p.Payload # 0 =>
           p.Payload + p.payloadSize = IF job'.header.adaptation = 3 THEN job'.size ELSE Ts188Byte
      /\ MakeNULLPID(SetPUSI(p, 1)).PID = NULLPID /\ MakeNULLPID(SetPUSI(p, 1)).PUSI = 0
      /\ job'.header.adaptation = 1 /\ job'.size = Ts188Byte => ~FillsOutside(MakeNULLPID(SetPUSI(p, 1)))
      /\ ConvertTo204(ConvertTo188(p)).packetSize = Ts204Byte
  BY <1>1, PacketFields
<1> DEFINE size == IF job'.header.adaptation = 3 THEN job'.size ELSE Ts188Byte
<1>3. outcome'.p.Payload # 0 => outcome'.p.Payload + outcome'.p.payloadSize = size
  <2>1. p.Payload # 0 => p.Payload + p.payloadSize = size
    BY <1>2
  <2> HIDE DEF size
  <2>2. QED BY <2>1
<1>4. /\ outcome'.null.PID = NULLPID /\ outcome'.null.PUSI = 0
      /\ job'.header.adaptation = 1 /\ job'.size = Ts188Byte => ~FillsOutside(outcome'.null)
      /\ outcome'.long.packetSize = Ts204Byte
  BY <1>2
<1>5. QED BY <1>3, <1>4 DEF PacketsAreRight, Called

LEMMA RightPESHeaders ==
  ASSUME job' \in Jobs, job'.for = "PES", NEW buf,
         buf.startCode = TRUE, buf.stream_id = job'.stream_id, buf.pes_packet_length = job'.length,
         buf.flags = job'.flags, buf.headerLength = job'.headerLength, buf.stamp = StampBytes(job'.PTS),
         outcome'.header = FindPESHeaderAndGetPTS(buf, 189), outcome'.size = GetPESPacketSize(buf),
         outcome'.data = GetPESData(buf, outcome'.size), outcome'.length = GetPESDataLength(buf, outcome'.size)
  PROVE  PacketsAreRight'
<1>1. /\ job'.length \in Nat /\ job'.headerLength \in Nat /\ job'.stream_id \in {189, 192}
      /\ job'.PTS \in SUBSET (0 .. 32)
  <2>1. /\ job'.length \in PESLengths /\ job'.headerLength \in HeaderLengths
        /\ job'.stream_id \in {189, 192} /\ job'.PTS \in Stamps
    BY OperandsAre
  <2>2. PESLengths \subseteq Nat /\ HeaderLengths \subseteq Nat /\ Stamps \subseteq SUBSET (0 .. 32)
    BY OperandsAssumption
  <2>3. \A n \in PESLengths : n \in Nat
    BY <2>2
  <2>4. \A n \in HeaderLengths : n \in Nat
    BY <2>2
  <2>5. \A bits \in Stamps : bits \in SUBSET (0 .. 32)
    BY <2>2
  <2>6. QED BY <2>1, <2>3, <2>4, <2>5, Zenon
<1> DEFINE header == FindPESHeaderAndGetPTS(buf, 189)
           size == GetPESPacketSize(buf)
           data == GetPESData(buf, size)
           len  == GetPESDataLength(buf, size)
<1>2. /\ header.found <=> job'.stream_id = 189
      /\ header.PTS = IF header.found /\ 7 \in job'.flags THEN job'.PTS ELSE {}
      /\ data # 0 => data + len = job'.length + 6
      /\ len < 0 <=> size > 10 /\ job'.length < 3 + job'.headerLength
  <2>1. buf.pes_packet_length \in Nat /\ buf.headerLength \in Nat
    BY <1>1
  <2>2. /\ header.found <=> buf.stream_id = 189
        /\ header.PTS = IF header.found /\ 7 \in buf.flags THEN job'.PTS ELSE {}
        /\ data # 0 => data + len = buf.pes_packet_length + 6
        /\ len < 0 <=> size > 10 /\ buf.pes_packet_length < 3 + buf.headerLength
    BY <1>1, <2>1, PESHeaderIsRead
  <2> HIDE DEF header, size, data, len
  <2>3. QED BY <2>2
<1>3. outcome'.header = header /\ outcome'.size = size /\ outcome'.data = data /\ outcome'.length = len
  OBVIOUS
<1> HIDE DEF header, size, data, len
<1>4. /\ outcome'.header.found <=> job'.stream_id = 189
      /\ outcome'.header.PTS = IF outcome'.header.found /\ 7 \in job'.flags THEN job'.PTS ELSE {}
      /\ outcome'.data # 0 => outcome'.data + outcome'.length = job'.length + 6
      /\ outcome'.length < 0 <=> outcome'.size > 10 /\ job'.length < 3 + job'.headerLength
  BY <1>2, <1>3
<1>5. QED BY <1>4 DEF PacketsAreRight, Called

LEMMA RightSizeOrAddress ==
  ASSUME job' \in Jobs,
         \/ job'.for = "sync" /\ outcome' = [size |-> fgetTSsync(job'.file)]
         \/ /\ job'.for = "address"
            /\ \E a : /\ a = setAddress(ADDRESS_ANY, job'.first)
                      /\ outcome' = [first |-> a, second |-> setAddress(a.mAddress, job'.second)]
  PROVE  PacketsAreRight'
<1>1. CASE job'.for = "sync"
  <2>1. outcome'.size = fgetTSsync(job'.file) /\ job'.file \in Files
    <3>1. outcome'.size = fgetTSsync(job'.file)
      BY <1>1
    <3>2. job'.file \in Files
      BY <1>1, OperandsAre
    <3>3. QED BY <3>1, <3>2
  <2>2. (outcome'.size = job'.file.packet) \/ job'.file.packets < 4
    BY <2>1, SizeIsFound
  <2>3. QED BY <1>1, <2>2 DEF PacketsAreRight, Called
<1>2. CASE job'.for = "address"
  <2>1. PICK a : /\ a = setAddress(ADDRESS_ANY, job'.first)
                 /\ outcome' = [first |-> a, second |-> setAddress(a.mAddress, job'.second)]
    BY <1>2
  <2>2. outcome'.first = a /\ outcome'.second = setAddress(a.mAddress, job'.second)
    BY <2>1
  <2>3. ~outcome'.first.thrown /\ (outcome'.second.thrown <=> job'.first \in {Malformed, INADDR_NONE})
    BY <2>1, <2>2, AddressesAreTaken
  <2>4. QED BY <1>2, <2>3 DEF PacketsAreRight, Called
<1>3. QED BY <1>1, <1>2

LEMMA RightOptions ==
  ASSUME job' \in Jobs, job'.for = "options",
         outcome' = [value |-> GetValue(job'.args, job'.key), at |-> GetValueAt(job'.args, job'.argnum),
                    exists |-> Exists(job'.args, job'.key)]
  PROVE  OptionsAreFound'
<1>1. job'.args \in Seq([text : STRING, number : Int]) \ {<<>>} /\ job'.argnum \in Nat \ {0}
  <2>1. job'.args \in CommandLines /\ job'.argnum \in Positions
    BY OperandsAre
  <2>2. CommandLines \subseteq Seq([text : STRING, number : Int]) \ {<<>>} /\ Positions \subseteq Nat \ {0}
    BY OperandsAssumption, Zenon
  <2>3. QED BY <2>1, <2>2, Zenon
<1>2. /\ outcome'.value = GetValue(job'.args, job'.key) /\ outcome'.at = GetValueAt(job'.args, job'.argnum)
      /\ outcome'.exists = Exists(job'.args, job'.key)
  OBVIOUS
<1> DEFINE n == Len(job'.args)
<1>3. /\ outcome'.value.found => outcome'.exists
      /\ outcome'.exists /\ ~outcome'.value.found =>
           job'.args[n].text = job'.key /\ \A i \in 1 .. n - 1 : job'.args[i].text # job'.key
      /\ \A i \in 1 .. n - 1 :
           job'.args[i].text = job'.key /\ (\A k \in 1 .. i - 1 : job'.args[k].text # job'.key) =>
             outcome'.value.text = job'.args[i + 1].text
      /\ ~outcome'.at.found <=> job'.argnum > n
  <2>1. /\ GetValue(job'.args, job'.key).found => Exists(job'.args, job'.key)
        /\ Exists(job'.args, job'.key) /\ ~GetValue(job'.args, job'.key).found =>
             job'.args[n].text = job'.key /\ \A i \in 1 .. n - 1 : job'.args[i].text # job'.key
        /\ \A i \in 1 .. n - 1 :
             job'.args[i].text = job'.key /\ (\A k \in 1 .. i - 1 : job'.args[k].text # job'.key) =>
               GetValue(job'.args, job'.key).text = job'.args[i + 1].text
        /\ ~GetValueAt(job'.args, job'.argnum).found <=> job'.argnum > n
    BY <1>1, OptionIsFound
  <2>2. QED BY <1>2, <2>1, Zenon
<1>4. QED BY <1>3 DEF OptionsAreFound

(* The calculation that is made, if any, is one of the jobs, and what was    *)
(* returned is right.                                                        *)
CalculationInv ==
  /\ job \in Jobs \cup {[for |-> "nothing"]}
  /\ job \notin Jobs => outcome = NotCalled
  /\ CalculationsAreRight

LEMMA CalculationStarts == ASSUME outcome = NotCalled PROVE CalculationsAreRight
BY DEF CalculationsAreRight, ProductsAreRight, SamplesAreRight, SizesAndTimesAreRight, PacketsAreRight,
       OptionsAreFound, Called

LEMMA CallStep ==
  ASSUME job \in Jobs, NEW for, NEW result, Call(for, result)
  PROVE  job' \in Jobs /\ job' = job /\ job'.for = for /\ outcome' = result
BY DEF Call

LEMMA CalculationStep ==
  ASSUME job \in Jobs, CalculationsNext
  PROVE  CalculationsAreRight'
<1>1. CASE Multiply \/ Multiply32 \/ MultiplyBigInt
  <2>1. ProductsAreRight' /\ job'.for \in {"multiply", "multiply32", "BigInt"}
    <3>1. CASE Multiply
      BY <3>1, CallStep, RightProducts DEF Multiply
    <3>2. CASE Multiply32
      BY <3>2, CallStep, RightProducts DEF Multiply32
    <3>3. CASE MultiplyBigInt
      BY <3>3, CallStep, RightProducts DEF MultiplyBigInt
    <3>4. QED BY <1>1, <3>1, <3>2, <3>3
  <2>2. SamplesAreRight' /\ SizesAndTimesAreRight' /\ PacketsAreRight' /\ OptionsAreFound'
    BY <2>1, OnlySamples, OnlySizesAndTimes, OnlyPackets, OnlyOptions
  <2>3. QED BY <2>1, <2>2 DEF CalculationsAreRight
<1>2. CASE KeepSample
  <2> DEFINE b == put(add(setBitDepth(SampleBuffer, job.depth), 0, job.depth), 0, job.val, job.depth)
  <2>1. /\ job' \in Jobs /\ job' = job /\ job'.for = "sample"
        /\ outcome' = [got |-> get(b, 0), copied |-> get(Copy(b), 0),
                       assigned |-> get(Assign(setBitDepth(SampleBuffer, job.depth), b), 0),
                       moved |-> adjustFixedPoint(adjustFixedPoint(b, job.point), BITS).vect[1]]
    BY <1>2, CallStep DEF KeepSample
  <2>2. SamplesAreRight'
    BY <2>1, RightSamples
  <2>3. ProductsAreRight' /\ SizesAndTimesAreRight' /\ PacketsAreRight' /\ OptionsAreFound'
    BY <2>1, OnlyProducts, OnlySizesAndTimes, OnlyPackets, OnlyOptions
  <2>4. QED BY <2>2, <2>3 DEF CalculationsAreRight
<1>3. CASE WriteWave \/ TellTime
  <2>1. SizesAndTimesAreRight' /\ job'.for \in {"wave", "time"}
    <3>1. CASE WriteWave
      BY <3>1, CallStep, RightSizesAndTimes DEF WriteWave
    <3>2. CASE TellTime
      BY <3>2, CallStep, RightSizesAndTimes DEF TellTime
    <3>3. QED BY <1>3, <3>1, <3>2
  <2>2. ProductsAreRight' /\ SamplesAreRight' /\ PacketsAreRight' /\ OptionsAreFound'
    BY <2>1, OnlyProducts, OnlySamples, OnlyPackets, OnlyOptions
  <2>3. QED BY <2>1, <2>2 DEF CalculationsAreRight
<1>4. CASE SetFields \/ ReadPESHeader \/ FindSize \/ SetAddresses
  <2>1. PacketsAreRight' /\ job'.for \in {"packet", "PES", "sync", "address"}
    <3>1. CASE SetFields
      <4> DEFINE p == SetPacket(job.header, job.size)
      <4>1. /\ job' \in Jobs /\ job' = job /\ job'.for = "packet"
            /\ outcome' = [p |-> p, withPID |-> SetPID(p, job.PID), withCC |-> SetCC(p, CCToSet),
                           null |-> MakeNULLPID(SetPUSI(p, 1)), long |-> ConvertTo204(ConvertTo188(p))]
        BY <3>1, CallStep DEF SetFields
      <4>2. /\ p = SetPacket(job'.header, job'.size)
            /\ outcome'.p = p
            /\ outcome'.null = MakeNULLPID(SetPUSI(p, 1)) /\ outcome'.long = ConvertTo204(ConvertTo188(p))
        BY <4>1
      <4> HIDE DEF p
      <4>3. QED BY <4>1, <4>2, RightPackets
    <3>2. CASE ReadPESHeader
      <4> DEFINE buf == [startCode |-> TRUE, stream_id |-> job.stream_id, pes_packet_length |-> job.length,
                         flags |-> job.flags, headerLength |-> job.headerLength, stamp |-> StampBytes(job.PTS)]
                 size == GetPESPacketSize(buf)
      <4>1. /\ job' \in Jobs /\ job' = job /\ job'.for = "PES"
            /\ outcome' = [header |-> FindPESHeaderAndGetPTS(buf, 189), size |-> size,
                           data |-> GetPESData(buf, size), length |-> GetPESDataLength(buf, size)]
        BY <3>2, CallStep DEF ReadPESHeader
      <4>2. /\ buf.startCode = TRUE /\ buf.stream_id = job'.stream_id /\ buf.pes_packet_length = job'.length
            /\ buf.flags = job'.flags /\ buf.headerLength = job'.headerLength
            /\ buf.stamp = StampBytes(job'.PTS)
        BY <4>1
      <4> HIDE DEF buf
      <4>3. /\ outcome'.header = FindPESHeaderAndGetPTS(buf, 189) /\ outcome'.size = GetPESPacketSize(buf)
            /\ outcome'.data = GetPESData(buf, outcome'.size)
            /\ outcome'.length = GetPESDataLength(buf, outcome'.size)
        BY <4>1
      <4>4. QED BY <4>1, <4>2, <4>3, RightPESHeaders
    <3>3. CASE FindSize
      BY <3>3, CallStep, RightSizeOrAddress DEF FindSize
    <3>4. CASE SetAddresses
      <4> DEFINE a == setAddress(ADDRESS_ANY, job.first)
      <4>1. /\ job' \in Jobs /\ job' = job /\ job'.for = "address"
            /\ outcome' = [first |-> a, second |-> setAddress(a.mAddress, job.second)]
        BY <3>4, CallStep DEF SetAddresses
      <4>2. a = setAddress(ADDRESS_ANY, job'.first)
        BY <4>1
      <4> HIDE DEF a
      <4>3. QED BY <4>1, <4>2, RightSizeOrAddress
    <3>5. QED BY <1>4, <3>1, <3>2, <3>3, <3>4
  <2>2. ProductsAreRight' /\ SamplesAreRight' /\ SizesAndTimesAreRight' /\ OptionsAreFound'
    BY <2>1, OnlyProducts, OnlySamples, OnlySizesAndTimes, OnlyOptions
  <2>3. QED BY <2>1, <2>2 DEF CalculationsAreRight
<1>5. CASE ParseCommandLine
  <2>1. OptionsAreFound' /\ job'.for = "options"
    BY <1>5, CallStep, RightOptions DEF ParseCommandLine
  <2>2. ProductsAreRight' /\ SamplesAreRight' /\ SizesAndTimesAreRight' /\ PacketsAreRight'
    BY <2>1, OnlyProducts, OnlySamples, OnlySizesAndTimes, OnlyPackets
  <2>3. QED BY <2>1, <2>2 DEF CalculationsAreRight
<1>6. CASE ReverseBits \/ CheckMessage \/ ReadAC3 \/ ReadEAC3 \/ ReadDTS
  <2>1. job'.for \in {"reverse", "crc", "ac3", "eac3", "dts"}
    BY <1>6, CallStep DEF ReverseBits, CheckMessage, ReadAC3, ReadEAC3, ReadDTS
  <2>2. /\ ProductsAreRight' /\ SamplesAreRight' /\ SizesAndTimesAreRight' /\ PacketsAreRight'
        /\ OptionsAreFound'
    BY <2>1, OnlyProducts, OnlySamples, OnlySizesAndTimes, OnlyPackets, OnlyOptions
  <2>3. QED BY <2>2 DEF CalculationsAreRight
<1>7. QED BY <1>1, <1>2, <1>3, <1>4, <1>5, <1>6 DEF CalculationsNext

LEMMA CallStays ==
  ASSUME CalculationsNext
  PROVE  job' = job /\ outcome = NotCalled
BY DEF CalculationsNext, Multiply, Multiply32, MultiplyBigInt, ReverseBits, CheckMessage, KeepSample,
       ReadAC3, ReadEAC3, ReadDTS, SetFields, ReadPESHeader, FindSize, WriteWave, TellTime, SetAddresses,
       ParseCommandLine, Call

LEMMA NothingIsNoJob ==
  ASSUME job = [for |-> "nothing"]
  PROVE  ~CalculationsNext
BY DEF CalculationsNext, Multiply, Multiply32, MultiplyBigInt, ReverseBits, CheckMessage, KeepSample,
       ReadAC3, ReadEAC3, ReadDTS, SetFields, ReadPESHeader, FindSize, WriteWave, TellTime, SetAddresses,
       ParseCommandLine, Call

(* CalculationsAreRight: what is returned is right, whatever the operands -   *)
(* how wide a word is, how long packets are, and which calls a program makes. *)
THEOREM CalculationsAreRightHolds == Spec => []CalculationsAreRight
<1>1. Init => CalculationInv
  <2>1. Init => (job \in Jobs \/ job = [for |-> "nothing"]) /\ outcome = NotCalled
    BY DEF Init, CalculationRests, CalculationsInit
  <2>2. QED BY <2>1, CalculationStarts DEF CalculationInv
<1>2. CalculationInv /\ [Next]_libraryVars => CalculationInv'
  <2> SUFFICES ASSUME CalculationInv, [Next]_libraryVars PROVE CalculationInv'
    OBVIOUS
  <2>1. CASE CalculationsNext
    <3>1. job \in Jobs
      BY <2>1, NothingIsNoJob DEF CalculationInv
    <3>2. job' = job
      BY <2>1, CallStays
    <3>3. QED BY <2>1, <3>1, <3>2, CalculationStep DEF CalculationInv
  <2>2. CASE UNCHANGED calculationVars
    <3>1. job' = job /\ outcome' = outcome
      BY <2>2 DEF calculationVars
    <3>2. CalculationsAreRight'
      BY <3>1 DEF CalculationInv, CalculationsAreRight, ProductsAreRight, SamplesAreRight,
                  SizesAndTimesAreRight, PacketsAreRight, OptionsAreFound, Called
    <3>3. QED BY <3>1, <3>2 DEF CalculationInv
  <2>3. QED BY <2>1, <2>2 DEF Next, libraryVars
<1>3. CalculationInv => CalculationsAreRight
  BY DEF CalculationInv
<1>4. QED BY <1>1, <1>2, <1>3, PTL DEF Spec
=============================================================================
