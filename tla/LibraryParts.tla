---------------------------- MODULE LibraryParts ----------------------------
(***************************************************************************)
(* The parts of the library that share nothing with each other: the packet *)
(* handlers that write files, the teletext decoder, the report of time     *)
(* stamps, and the calculations.                                           *)
(* A program uses one of them (part); the others rest where they start.    *)
(* So one run explores the behaviours of each, and never their product.    *)
(***************************************************************************)
EXTENDS ElementaryOutput, TeletextDecode, PTSReport, Calculations

VARIABLE part

libraryVars == <<outputVars, teletextVars, reportVars, calculationVars, part>>

(* A program that uses another part creates no handler, decodes no teletext, *)
(* reads no stream, or calls nothing: one initial state stands for all of    *)
(* them.                                                                     *)
OutputRests   == OutputInit /\ kind = "es" /\ ~DebugOn
TeletextRests ==
  /\ TeletextInit /\ lang = "default"
  /\ subtPage = (CHOOSE page \in Pages : TRUE) /\ ttx_sub_mag = (CHOOSE mag \in Magazines : TRUE)
ReportRests ==
  /\ ReportInit /\ packetNumber = 0 /\ sentCC = 0
  /\ rate = (CHOOSE r \in ClockRates : TRUE) /\ offset = (CHOOSE o \in Offsets : TRUE)
CalculationRests == job = [for |-> "nothing"] /\ outcome = NotCalled

Init ==
  \/ part = "output"      /\ OutputInit  /\ TeletextRests /\ ReportRests /\ CalculationRests
  \/ part = "teletext"    /\ OutputRests /\ TeletextInit  /\ ReportRests /\ CalculationRests
  \/ part = "report"      /\ OutputRests /\ TeletextRests /\ ReportInit  /\ CalculationRests
  \/ part = "calculation" /\ OutputRests /\ TeletextRests /\ ReportRests /\ CalculationsInit

Next ==
  \/ part = "output" /\ OutputNext /\ UNCHANGED <<teletextVars, reportVars, calculationVars, part>>
  \/ part = "teletext" /\ TeletextNext /\ UNCHANGED <<outputVars, reportVars, calculationVars, part>>
  \/ part = "report" /\ ReportNext /\ UNCHANGED <<outputVars, teletextVars, calculationVars, part>>
  \/ part = "calculation" /\ CalculationsNext /\ UNCHANGED <<outputVars, teletextVars, reportVars, part>>

Spec == Init /\ [][Next]_libraryVars
=============================================================================
