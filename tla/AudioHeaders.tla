---------------------------- MODULE AudioHeaders ----------------------------
(***************************************************************************)
(* The headers of audio frames: fields of bits, many of which are there    *)
(* only when an earlier field says so.  A layout lists them in the order   *)
(* in which they are read: name, bits, and what they need.                 *)
(***************************************************************************)
EXTENDS BitOperations

AC3Layout ==
  << <<"fscod", 2, "always">>, <<"frmsizcod", 6, "always">>, <<"bsid", 5, "always">>,
     <<"bsmod", 3, "always">>, <<"acmod", 3, "always">>, <<"cmixlev", 2, "centre">>,
     <<"surmixlev", 2, "surround">>, <<"dsurmod", 2, "stereo">>, <<"lfeon", 1, "always">>,
     <<"dialnorm", 5, "always">>, <<"compre", 1, "always">>, <<"compr", 8, "compre">>,
     <<"langcode", 1, "always">>, <<"langcod", 8, "langcode">>, <<"audprodie", 1, "always">>,
     <<"mixlevel", 5, "audprodie">>, <<"roomtyp", 2, "audprodie">>, <<"dialnorm2", 5, "dual">>,
     <<"compr2e", 1, "dual">>, <<"compr2", 8, "compr2e">>, <<"langcod2e", 1, "dual">>,
     <<"langcod2", 8, "langcod2e">>, <<"audprodi2e", 1, "dual">>, <<"mixlevel2", 5, "audprodi2e">>,
     <<"roomtyp2", 2, "audprodi2e">>, <<"copyrightb", 1, "always">>, <<"origbs", 1, "always">>,
     <<"xbsi1e", 1, "always">>, <<"dmixmod", 2, "xbsi1e">>, <<"ltrtcmixlev", 3, "xbsi1e">>,
     <<"ltrtsurmixlev", 3, "xbsi1e">>, <<"lorocmixlev", 3, "xbsi1e">>,
     <<"lorosurmixlev", 3, "xbsi1e">>, <<"xbsi2e", 1, "always">>, <<"dsurexmod", 2, "xbsi2e">>,
     <<"dheadphonmod", 2, "xbsi2e">>, <<"adconvtyp", 1, "xbsi2e">>, <<"xbsi2", 8, "xbsi2e">>,
     <<"encinfo", 1, "xbsi2e">>, <<"addbsie", 1, "always">>, <<"addbsil", 6, "addbsie">> >>

EAC3Layout ==
  << <<"strmtyp", 2, "always">>, <<"substreamid", 3, "always">>, <<"frmsiz", 11, "always">>,
     <<"fscod", 2, "always">>, <<"nblkscod", 2, "known rate">> >>

(* The code masks and shifts bytes; what it takes are these bits.  "_" is    *)
(* not taken.                                                                *)
DTSLayout ==
  << <<"SYNCWORD", 32, "always">>, <<"FTYPE", 1, "always">>, <<"_", 6, "always">>,
     <<"NBLKS", 7, "always">>, <<"FSIZE", 14, "always">>, <<"AMODE", 6, "always">>,
     <<"SFREQ", 4, "always">>, <<"RATE", 5, "always">>, <<"MIX", 1, "always">>,
     <<"DYNF", 1, "always">>, <<"TIMEF", 1, "always">>, <<"AUXF", 1, "always">>,
     <<"HDCD", 1, "always">>, <<"EXT_AUDIO_ID", 3, "always">>, <<"EXT_AUDIO", 1, "always">>,
     <<"ASPF", 1, "always">>, <<"LFF", 2, "always">>, <<"HFLAG", 1, "always">>,
     <<"HCRC", 16, "always">>, <<"FILTS", 1, "always">>, <<"VERNUM", 4, "always">>,
     <<"CHIST", 2, "always">>, <<"PCMR", 3, "always">>, <<"SUMF", 1, "always">>,
     <<"SUMS", 1, "always">>, <<"DIALNORM", 4, "always">> >>

AuxLayout ==
  << <<"AUXTimeStampFlag", 1, "always">>, <<"_", 18, "AUXTimeStampFlag">>,
     <<"_", 18, "AUXTimeStampFlag">>, <<"AUXDynamCoeffFlag", 1, "always">>,
     <<"PrmChDownMixType", 3, "AUXDynamCoeffFlag">> >>

-----------------------------------------------------------------------------
(* Slip: a single centre channel has a mix level. *)
PresentCentre(f, need) ==
  CASE need = "always"     -> TRUE
    [] need = "centre"     -> f["acmod"] % 2 = 1
    [] need = "surround"   -> f["acmod"] \div 4 = 1
    [] need = "stereo"     -> f["acmod"] = 2
    [] need = "dual"       -> f["acmod"] = 0
    [] need = "known rate" -> f["fscod"] # 3
    [] OTHER               -> f[need] = 1

(* Other needs are the flags of that name. *)
Present(f, need) ==
  CASE need = "always"     -> TRUE
    [] need = "centre"     -> f["acmod"] % 2 = 1 /\ f["acmod"] # 1
    [] need = "surround"   -> f["acmod"] \div 4 = 1
    [] need = "stereo"     -> f["acmod"] = 2
    [] need = "dual"       -> f["acmod"] = 0
    [] need = "known rate" -> f["fscod"] # 3
    [] OTHER               -> f[need] = 1

Names(layout) == {layout[i][1] : i \in DOMAIN layout}

(* A field that cannot be read keeps its value: nobody looks at the result.  *)
ReadField(s, row) ==
  IF Present(s.fields, row[3]) /\ CanGet(s.reader, row[2])
  THEN [fields |-> [s.fields EXCEPT ![row[1]] = GetXBits(s.reader, row[2])],
        reader |-> AfterGet(s.reader, row[2])]
  ELSE s

ReadFields(layout, reader) ==
  LET read[i \in 0 .. Len(layout)] ==
        IF i = 0 THEN [fields |-> [n \in Names(layout) |-> 0], reader |-> reader]
        ELSE ReadField(read[i - 1], layout[i])
  IN  read[Len(layout)]

(* n fields of bits that are not kept. *)
SkipField(reader, bits) == IF CanGet(reader, bits) THEN AfterGet(reader, bits) ELSE reader

Skip(reader, n, bits) ==
  LET behind[i \in 0 .. n] == IF i = 0 THEN reader ELSE SkipField(behind[i - 1], bits)
  IN  behind[n]

(* AC-3: the reader starts behind the sync word and the check, but is told   *)
(* the length of all of the data.  The additional information follows.       *)
InterpretFrame(source, data_length) ==
  LET s == ReadFields(AC3Layout, NewReader(source, data_length))
  IN  [s EXCEPT !.reader = IF s.fields["addbsie"] = 1 THEN Skip(@, s.fields["addbsil"] + 1, 8) ELSE @]

(* E-AC-3: a frame that is too long is given up before its blocks are known; *)
(* at half the sampling rate there are always six, code 3.                   *)
preProcessHeader(source, data_length, MAX_FRAME_LEN) ==
  LET s == ReadFields(EAC3Layout, NewReader(source, data_length)).fields
  IN  [s EXCEPT !["nblkscod"] = CASE 2 * (s["frmsiz"] + 1) > MAX_FRAME_LEN -> 0
                                  [] 2 * (s["frmsiz"] + 1) <= MAX_FRAME_LEN /\ s["fscod"] = 3 -> 3
                                  [] OTHER -> @]

-----------------------------------------------------------------------------
(* What the reports of a frame print. *)
PrintedWhen(f, need) ==
  CASE need = "centre"   -> f["acmod"] % 2 = 1
    [] need = "surround" -> f["acmod"] \div 4 = 1 /\ f["acmod"] % 2 = 0
    [] OTHER             -> Present(f, need)

write(f) == {AC3Layout[i][1] : i \in {j \in DOMAIN AC3Layout : PrintedWhen(f, AC3Layout[j][3])}}

write_csv ==
  {"fscod", "frmsizcod", "bsid", "bsmod", "acmod", "lfeon", "dialnorm", "compre", "langcode",
   "audprodie"}

(* Of a frame of E-AC-3 the same is printed as of one of AC-3, with the      *)
(* frame size in place of its code: but only the size was read, and the      *)
(* other fields are zero.                                                    *)
write_csvEAC3 == (write_csv \ {"fscod", "frmsizcod"}) \cup {"frmsiz"}

writeEAC3 ==
  (write([n \in Names(AC3Layout) |-> 0]) \ {"fscod", "frmsizcod"}) \cup {"frmsiz"}

-----------------------------------------------------------------------------
(* DTS: the auxiliary data is searched from the end of the frame backwards;  *)
(* marks are the bytes at which its sync word is.                            *)
DTSMetadata(source) == ReadFields(DTSLayout, NewReader(source, Len(source) \div 8)).fields

AuxPtr(marks, FSIZE) ==
  {at \in marks \cap 1 .. FSIZE : \A other \in marks \cap 1 .. FSIZE : other <= at}

(* Larger than any length: what a negative length is, unsigned. *)
Unlimited == 1000000

AuxLength(at, FSIZE) == IF FSIZE < at + 4 THEN Unlimited ELSE FSIZE - at - 4

AMODE_CHANNELS == <<1, 2, 2, 2, 2, 3, 3, 4, 4, 5, 6, 6, 6, 7, 8, 8>>

(* Channels of the down mix: 1 for 1_0, 2 for LoRo and LtRt, 3 for 3_0 and   *)
(* 2_1, 4 for 2_2 and 3_1.  An AMODE above 15 is read outside of the table.  *)
NumChPrevHierChSet(type) == IF type > 6 THEN 0 ELSE <<1, 2, 2, 3, 3, 4, 4>>[type + 1]

DeriveNumDwnMixCodeCoeffs(AMODE, LFF, type) ==
  NumChPrevHierChSet(type) * (AMODE_CHANNELS[AMODE + 1] + IF LFF > 0 THEN 1 ELSE 0)

(* source is what is behind the sync word.  A byte is lost when the fields   *)
(* end with a byte; the check that follows is not used.                      *)
SearchForAuxData(source, length, AMODE, LFF) ==
  LET s == ReadFields(AuxLayout, NewReader(source, length))
      coeffs == DeriveNumDwnMixCodeCoeffs(AMODE, LFF, s.fields["PrmChDownMixType"])
      behind == IF s.fields["AUXDynamCoeffFlag"] = 1 THEN Skip(s.reader, coeffs, 9) ELSE s.reader
  IN  [s EXCEPT !.reader = Skip(JumpToNextByteBoundary(behind), 1, 16)]
=============================================================================
