----------------------------- MODULE PTSReport -----------------------------
(***************************************************************************)
(* A program reads a transport stream, hands the packets of the PCR's PID  *)
(* to pcr and those of another PID to a PTSPacketHandler.  The stream      *)
(* comes over a channel that loses packets; the clock of the sender        *)
(* advances by the same amount from each packet it sends to the next.      *)
(***************************************************************************)
EXTENDS PTSPacketHandler, FiniteSets

CONSTANTS
  ClockRates,  (* By how much the sender's clock may advance per packet.    *)
  Offsets,     (* Where it may begin.                                       *)
  MaxPackets,  (* Bounds the packets sent, and                              *)
  MaxLost      (* how many of them are lost.                                *)

ASSUME ReportAssumption == ClockRates \subseteq Nat /\ Offsets \subseteq Nat

VARIABLES
  rate, offset,  (* The sender's clock.                                     *)
  sent,          (* Packets sent.                                           *)
  lost,          (* The numbers of the packets read before each loss.       *)
  packetNumber,  (* The number of the packet read last; -1: none.           *)
  sentCC,        (* The sender's continuity counter.                        *)
  sending,       (* The time stamp of the PES packet being sent.            *)
  inStep,        (* Has all of that PES packet arrived so far?              *)
  lastStart      (* The time stamp of the start the handler took last.      *)

channelVars == <<rate, offset, sent, lost, packetNumber, sentCC, sending, inStep, lastStart>>
reportVars == <<clockVars, handlerVars, channelVars>>

(* The sender's clock when it sends its k-th packet. *)
TrueClock(k) == (offset + rate * k) % ClockModulus

ReportInit ==
  /\ ClockInit /\ HandlerInit
  /\ rate \in ClockRates /\ offset \in Offsets
  /\ sent = 0 /\ lost = {} /\ packetNumber \in {-1, 0}
  /\ sentCC \in 0 .. CCModulus - 1
  /\ sending = NoPTS /\ inStep = FALSE
  /\ lastStart = NoPTS

CanLose == Cardinality(lost) < MaxLost

(* The next packet arrives, or is lost. *)
Arrive == packetNumber' = packetNumber + 1 /\ UNCHANGED lost
Lose   == CanLose /\ lost' = lost \cup {packetNumber} /\ UNCHANGED packetNumber

(* A packet of the PCR's PID, with a reference or without. *)
ClockPID ==
  /\ sent < MaxPackets /\ sent' = sent + 1
  /\ \E length \in {0, 7}, flag \in BOOLEAN :
       LET ts == [adaptation_field_length |-> length, PCR_flag |-> flag,
                  base |-> TrueClock(sent')]
       IN  \/ Arrive /\ ClockPacket(ts, packetNumber')
           \/ Lose /\ UNCHANGED clockVars
  /\ UNCHANGED <<handlerVars, rate, offset, sentCC, sending, inStep, lastStart>>

(* A start of a PES packet that is handled, not just remarked on.            *)
TakesStart(ts) == ts.pusi /\ ~CheckCCError(ts)

(* A packet of the handler's PID: the start of a PES packet of this stream   *)
(* (pts), which may have no time stamp (0), or of another (NoPTS), more of   *)
(* it, or an adaptation field alone.                                         *)
HandlerPID ==
  /\ sent < MaxPackets /\ sent' = sent + 1
  /\ \E pusi, payload \in BOOLEAN, pts \in HeaderPTSs \cup {NoPTS} :
       LET ts == [payloadPresent |-> payload, pusi |-> pusi, pts |-> pts, cc |-> sentCC']
       IN  /\ pusi => payload
           /\ pts # NoPTS => pusi
           /\ sentCC' = IF payload THEN (sentCC + 1) % CCModulus ELSE sentCC
           /\ sending' = IF pusi THEN pts ELSE sending
           /\ \/ /\ Arrive /\ NextPacket(ts, packetNumber')
                 /\ inStep' = (inStep \/ TakesStart(ts))
                 /\ lastStart' = IF TakesStart(ts) THEN pts ELSE lastStart
              \/ /\ Lose /\ UNCHANGED <<handlerVars, lastStart>>
                 /\ inStep' = (inStep /\ ~payload)
  /\ UNCHANGED <<clockVars, rate, offset>>

(* Any other PID's. *)
OtherPID ==
  /\ sent < MaxPackets /\ sent' = sent + 1
  /\ Arrive \/ Lose
  /\ UNCHANGED <<clockVars, handlerVars, rate, offset, sentCC, sending, inStep, lastStart>>

ReportNext == ClockPID \/ HandlerPID \/ OtherPID

-----------------------------------------------------------------------------
(* Every row shows the time stamp of the start that the handler took last,   *)
(* whatever was lost since and whatever the queue has kept; and when nothing *)
(* of that PID was lost since, that is the stamp of the PES packet that the  *)
(* row's packet belongs to.  After a loss it need not be: the comment that a *)
(* continuity error throws the last packet away is not what the code does,   *)
(* and its stamp sticks until another start is taken.                        *)
RowsAreRight ==
  row.comment = "" => row.pts = lastStart /\ (inStep => row.pts = sending)

(* No packet was lost since the oldest reference, and the clock did not wrap *)
(* between it and the last, neither to less than it was nor all the way      *)
(* round (a stream has a reference in every 26 hours).                       *)
SteadyReferences ==
  /\ \A n \in lost : n < PCRPacketNumber[1]
  /\ PCRHistory[1] <= PCRHistory[3]
  /\ rate * (PCRPacketNumber[3] - PCRPacketNumber[1]) < ClockModulus

(* Every reference is read as odd, and the average is rounded down.  Still   *)
(* the clock is never more than one tick ahead of the sender's, and behind   *)
(* it by at most one tick per packet since the last reference; it is so      *)
(* again three references after a loss or a wrap.                            *)
ClockFollowsSender ==
  ready /\ SteadyReferences =>
    \A n \in PCRPacketNumber[3] .. packetNumber :
      LET true == TrueClock(n + sent - packetNumber)
      IN  \/ (getPCR(n) - true) % ClockModulus <= 1
          \/ (true - getPCR(n)) % ClockModulus <= n - PCRPacketNumber[3]
=============================================================================
