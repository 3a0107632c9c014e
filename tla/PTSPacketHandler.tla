-------------------------- MODULE PTSPacketHandler --------------------------
(***************************************************************************)
(* PTSPacketHandler prints one row per transport packet of a PID: the      *)
(* program clock at that packet and the time stamp of the PES packet it    *)
(* belongs to.  It replaces NextPacket of TSPacketHandler and keeps no     *)
(* payload, so no PES packet in its queue ever becomes complete.           *)
(***************************************************************************)
EXTENDS ProgramClock, SequencesExt

CONSTANTS
  CCModulus,  (* 16: continuity counters. *)
  PTSs,       (* Time stamps.             *)
  NoPTS       (* Nothing is printed where there should be a time stamp. *)

(* What FindPESHeaderAndGetPTS reads from a header: 0 when its flags say     *)
(* that there is no time stamp.                                              *)
HeaderPTSs == PTSs \cup {0}

ASSUME CCAssumption == CCModulus \in Nat \ {0} /\ NoPTS \notin HeaderPTSs

VARIABLES
  CurrentState,     (* What is expected next.                               *)
  PESdata,          (* The queue of PES packets found so far.               *)
  ContinuityCount,  (* The last continuity counter.                         *)
  doubleCC,         (* Has a continuity error been tolerated already?       *)
  row               (* The row printed last.                                *)

handlerVars == <<CurrentState, PESdata, ContinuityCount, doubleCC, row>>

WaitForPesStart == "WaitForPesStart"
WaitForPESData  == "WaitForPESData"

PESPacket_t == [PTS : HeaderPTSs, Started : BOOLEAN]

NoRow == [pcr |-> 0, pts |-> NoPTS, comment |-> ""]

HandlerInit ==
  /\ CurrentState = WaitForPesStart
  /\ PESdata = <<>>
  /\ ContinuityCount = 255
  /\ doubleCC = FALSE
  /\ row = NoRow

CCMismatch(ts) == ts.cc # (ContinuityCount + 1) % CCModulus

CheckCCError(ts) == CCMismatch(ts) /\ doubleCC

(* The header of a PES packet of this stream: pts is NoPTS for another      *)
(* stream's, of which nothing is printed.                                   *)
HeaderFound(ts) == ts.pts # NoPTS

Row(packetNumber, pts, comment) ==
  [pcr |-> getPCR(packetNumber), pts |-> pts, comment |-> comment]

NewPESPacket(ts) == [PTS |-> ts.pts, Started |-> TRUE]

(* Without payload: only the clock and the adaptation flags are printed. *)
AdaptationRow(ts, packetNumber) ==
  /\ ~ts.payloadPresent
  /\ row' = Row(packetNumber, NoPTS, "Adaptation flags")
  /\ UNCHANGED <<CurrentState, PESdata, ContinuityCount, doubleCC>>

(* A continuity error only prints a remark: the state stays, and the packet  *)
(* at the back of the queue with it.                                         *)
CCErrorRow(ts, packetNumber) ==
  /\ CheckCCError(ts)
  /\ row' = Row(packetNumber, NoPTS, "CCError")
  /\ UNCHANGED <<CurrentState, PESdata>>

(* WaitForPesStart *)
StartPES(ts, packetNumber) ==
  /\ CurrentState = WaitForPesStart /\ ts.pusi /\ HeaderFound(ts)
  /\ PESdata' = Append(PESdata, NewPESPacket(ts))
  /\ CurrentState' = WaitForPESData
  /\ row' = Row(packetNumber, ts.pts, "")

SkipPayload(ts, packetNumber) ==
  /\ CurrentState = WaitForPesStart /\ ~(ts.pusi /\ HeaderFound(ts))
  /\ row' = Row(packetNumber, NoPTS, "")
  /\ UNCHANGED <<CurrentState, PESdata>>

(* Slip: the restarted packet keeps its time stamp. *)
RestartPESInPlace(ts, packetNumber) ==
  /\ CurrentState = WaitForPESData /\ ts.pusi
  /\ PESdata' = [PESdata EXCEPT ![Len(PESdata)].Started = HeaderFound(ts)]
  /\ CurrentState' = IF HeaderFound(ts) THEN WaitForPESData ELSE WaitForPesStart
  /\ row' = Row(packetNumber, ts.pts, "")

(* Slip: a packet without header stays started. *)
RestartPESStarted(ts, packetNumber) ==
  /\ CurrentState = WaitForPESData /\ ts.pusi
  /\ PESdata' = IF HeaderFound(ts) THEN Append(Front(PESdata), NewPESPacket(ts)) ELSE PESdata
  /\ CurrentState' = IF HeaderFound(ts) THEN WaitForPESData ELSE WaitForPesStart
  /\ row' = Row(packetNumber, ts.pts, "")

(* WaitForPESData: every start overwrites the packet at the back of the      *)
(* queue, as it has no payload.  Without a header it is left there for good. *)
RestartPES(ts, packetNumber) ==
  /\ CurrentState = WaitForPESData /\ ts.pusi
  /\ PESdata' = IF HeaderFound(ts)
                THEN Append(Front(PESdata), NewPESPacket(ts))
                ELSE [PESdata EXCEPT ![Len(PESdata)].Started = FALSE]
  /\ CurrentState' = IF HeaderFound(ts) THEN WaitForPESData ELSE WaitForPesStart
  /\ row' = Row(packetNumber, ts.pts, "")

ContinueLastPESPacket(ts, packetNumber) ==
  /\ CurrentState = WaitForPESData /\ ~ts.pusi
  /\ row' = Row(packetNumber, Last(PESdata).PTS, "")
  /\ UNCHANGED <<CurrentState, PESdata>>

NextPacket(ts, packetNumber) ==
  \/ AdaptationRow(ts, packetNumber)
  \/ /\ ts.payloadPresent
     /\ doubleCC' = (doubleCC \/ CCMismatch(ts))
     /\ ContinuityCount' = ts.cc
     /\ \/ CCErrorRow(ts, packetNumber)
        \/ /\ ~CheckCCError(ts)
           /\ \/ StartPES(ts, packetNumber)
              \/ SkipPayload(ts, packetNumber)
              \/ RestartPES(ts, packetNumber)
              \/ ContinueLastPESPacket(ts, packetNumber)

-----------------------------------------------------------------------------
(* The handler waits for data exactly while the packet at the back of its    *)
(* queue is started, and no other packet is: so back() of NextPacket is      *)
(* never called on an empty queue.  (Packets that are not the last one stay  *)
(* forever.)                                                                 *)
OnlyLastIsStarted ==
  /\ \A i \in 1 .. Len(PESdata) - 1 : ~PESdata[i].Started
  /\ CurrentState = WaitForPESData <=> PESdata # <<>> /\ Last(PESdata).Started
=============================================================================
