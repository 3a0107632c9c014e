--------------------------- MODULE TeletextDecode ---------------------------
(***************************************************************************)
(* TeletextPacketHandler takes the data units of a PES packet apart, and   *)
(* TtxSubtitlingTask looks for subtitles in them.                          *)
(*                                                                         *)
(* The handler's field begins behind the unit's id and length, while the   *)
(* task counts both in: so the task reads the page two bytes behind where  *)
(* it is, and the subtitle another eight bytes further on.  A unit here is *)
(* what the handler reads of it, and within it inner, what the task reads  *)
(* from there on as another unit; Hamming bytes are decoded.               *)
(***************************************************************************)
EXTENDS Integers, SequencesExt

CONSTANTS
  Pages,         (* The pages that may be wanted.                           *)
  Magazines,     (* What the member ttx_sub_mag may hold.                   *)
  Columns,       (* 40: characters of a row.                                *)
  Packets,       (* The PES packets that may come: sequences of data units. *)
  MaxUnits       (* Bounds the units that come.                             *)

ILLEGAL_TTX_SUB_PAGE == 999
ALL_PAGES == 1000

VARIABLES
  subtPage,     (* The wanted page.                                         *)
  ttx_sub_mag,  (* The magazine of the task.                                *)
  match,        (* Has a page header matched yet?                           *)
  lang,         (* The language of the last header.                         *)
  dTrip,        (* The triplets of the last row 26.                         *)
  lines,        (* The lines made.                                          *)
  units,        (* The buffer: the units of the packet not decoded yet.     *)
  taken         (* How many units have come.                                *)

teletextVars == <<subtPage, ttx_sub_mag, match, lang, dTrip, lines, units, taken>>

(* The constructor computes the magazine into a variable of its own: the     *)
(* member keeps any value, and so does the language.                         *)
TeletextInit ==
  /\ subtPage \in Pages /\ ttx_sub_mag \in Magazines
  /\ lang \in {"default", "english"}
  /\ match = FALSE
  /\ dTrip = <<>> /\ lines = <<>> /\ units = <<>> /\ taken = 0

-----------------------------------------------------------------------------
(* Addresses: a nibble that cannot be corrected reads as HammError. *)
HammError == 128

NoAddress == [magazine |-> 127, row |-> 255]

TtxtGetPage(u) ==
  IF HammError \in {u.h4, u.h5} THEN NoAddress
  ELSE [magazine |-> u.h4 % 8, row |-> u.h4 \div 8 + 2 * u.h5]

_GetSubtPage(u, magazine) ==
  IF u.h6 < 10 /\ u.h7 < 10
  THEN u.h6 + 10 * u.h7 + 100 * (IF magazine = 0 THEN 8 ELSE magazine)
  ELSE 65535

Wanted(page) == page = subtPage \/ subtPage = ALL_PAGES

(* A header matches whatever its page, and stays matched. *)
IsOurMagazine(u) ==
  TtxtGetPage(u).magazine = ttx_sub_mag \/ subtPage = ALL_PAGES

MatchAfter(u) ==
  \/ IsOurMagazine(u) /\ TtxtGetPage(u).row = 0
  \/ match /\ ttx_sub_mag # 255

Check_subtitling_field(u) == IsOurMagazine(u) /\ MatchAfter(u)

-----------------------------------------------------------------------------
(* Text: control characters are named, others are themselves.  Two START_BOX *)
(* in a row open a box, END_BOX closes it.  The colours of the characters    *)
(* are not used any further, and left out.                                   *)
START_BOX     == "START_BOX"
END_BOX       == "END_BOX"
DOUBLE_HEIGHT == "DOUBLE_HEIGHT"
COLOUR        == "COLOUR"

Shown(ch) == IF ch \in {START_BOX, END_BOX, DOUBLE_HEIGHT, COLOUR} THEN " " ELSE ch

(* What the caller's buffer held before: no character of a row. *)
Uninitialised == "?"

DataUnits == UNION {Range(packet) : packet \in Packets}

ASSUME TeletextAssumption ==
  /\ Columns \in Nat
  /\ Packets \subseteq Seq(DataUnits)
  /\ \A u \in DataUnits :
       /\ DOMAIN u.inner.text = 1 .. Columns
       /\ \A k \in 1 .. Columns : u.inner.text[k] # Uninitialised

(* n characters are done; got_block counts the START_BOX in a row. *)
TextStart ==
  [n |-> 0, got_block |-> 0, start_pos |-> 0, terminator |-> 0,
   bff |-> [i \in 1 .. Columns |-> Uninitialised], double_height |-> FALSE]

(* Slip: a START_BOX counts however far the last one is back. *)
OpenedEver(s, ch) == IF ch = START_BOX THEN s.got_block + 1 ELSE s.got_block

Opened(s, ch) ==
  CASE ch = START_BOX                    -> s.got_block + 1
    [] ch # START_BOX /\ s.got_block = 1 -> 0
    [] OTHER                             -> s.got_block

NextCharacter(s, ch) ==
  LET got   == Opened(s, ch)
      opens == ch = START_BOX /\ got = 2
      ends  == ch = END_BOX /\ got > 1
  IN  [n |-> s.n + 1,
       got_block |-> IF ch = END_BOX THEN 0 ELSE got,
       start_pos |-> IF opens /\ s.start_pos = 0 THEN s.n ELSE s.start_pos,
       terminator |-> CASE opens -> Columns [] ends -> s.n + 1 [] OTHER -> s.terminator,
       bff |-> IF got > 1 THEN [s.bff EXCEPT ![s.n + 1] = Shown(ch)] ELSE s.bff,
       double_height |-> s.double_height \/ ch = DOUBLE_HEIGHT]

(* The loop, after n characters. *)
Printed(text) ==
  LET s[n \in 0 .. Columns] == IF n = 0 THEN TextStart ELSE NextCharacter(s[n - 1], text[n]) IN s

print_ttx(text) == Printed(text)[Columns]

(* The string that begins at start_pos, up to the zero. *)
ShownText(s) == SubSeq(s.bff, s.start_pos + 1, s.terminator)

-----------------------------------------------------------------------------
(* Rows *)
Languages == <<"english", "french", "swedish", "default", "german", "spanish", "italian", "default">>

FontOf(language) ==
  IF language \in {"swedish", "german", "italian", "french", "spanish"} THEN language ELSE "english"

(* A triplet below column 40 is kept, for the line of the last triplet of    *)
(* mode 4; another is overwritten by the next, unless it ends the row.       *)
NextTriplet(s, t) ==
  CASE s.ended       -> s
    [] ~s.ended /\ t.address <= 39 ->
         [s EXCEPT !.kept = Append(@, [address |-> t.address, line_num |-> s.line, update |-> -1])]
    [] OTHER ->
         [s EXCEPT !.line = IF t.mode = 4 THEN t.address - 40 ELSE @,
                   !.ended = t.address = 63 \/ t.mode = 31]

DecodeTriplets(triplets) ==
  FoldLeft(NextTriplet, [kept |-> <<>>, line |-> 0, ended |-> FALSE], triplets).kept

(* Text that shows anything has the selected colours.  of is the row the     *)
(* line was made from: a history.                                            *)
SubtitleLine(row, s, text) ==
  [row |-> row, text |-> ShownText(s), dblSize |-> s.double_height, font |-> FontOf(lang),
   coloured |-> \E i \in DOMAIN s.bff : s.bff[i] \notin {" ", "#", Uninitialised}, of |-> text]

(* Nothing is shown of a row without a box: its string begins at 0. *)
HasText(s) == s.start_pos # 0

(* With an address that cannot be corrected in its first half, the second    *)
(* half is taken for the row, times 16.                                      *)
RowToFilter(u) ==
  CASE u.h5 = HammError                     -> 65535
    [] u.h5 # HammError /\ u.h4 = HammError -> 16 * u.h5
    [] OTHER                                -> TtxtGetPage(u).row

filter_text(u) ==
  LET row == RowToFilter(u)
      s   == print_ttx(u.text)
  IN  CASE row = 0 /\ u.isUnit ->
             /\ lang' = IF u.h13 = HammError THEN lang ELSE Languages[u.h13 \div 2 + 1]
             /\ UNCHANGED <<dTrip, lines>>
        [] row \in 1 .. 23 /\ u.isUnit /\ HasText(s) ->
             /\ dTrip' = [i \in DOMAIN dTrip |->
                  IF dTrip[i].line_num = row
                  THEN [dTrip[i] EXCEPT !.update = dTrip[i].address - s.start_pos] ELSE dTrip[i]]
             /\ lines' = Append(lines, SubtitleLine(row, s, u.text))
             /\ UNCHANGED lang
        [] row = 26 /\ u.isUnit ->
             dTrip' = DecodeTriplets(u.triplets) /\ UNCHANGED <<lang, lines>>
        [] OTHER -> UNCHANGED <<lang, dTrip, lines>>

ParseTtxData(u) ==
  IF (subtPage < ILLEGAL_TTX_SUB_PAGE \/ subtPage = ALL_PAGES) /\ u.framing
  THEN /\ match' = MatchAfter(u)
       /\ IF Check_subtitling_field(u) THEN filter_text(u) ELSE UNCHANGED <<lang, dTrip, lines>>
  ELSE UNCHANGED <<match, lang, dTrip, lines>>

Decode_data_block(u) ==
  LET address == TtxtGetPage(u)
  IN  IF address.magazine # 127 /\ address.row = 0 /\ Wanted(_GetSubtPage(u, address.magazine))
      THEN ParseTtxData(u.inner)
      ELSE UNCHANGED <<match, lang, dTrip, lines>>

-----------------------------------------------------------------------------
(* The packet handler *)

(* The id of a unit is never wrong (the test asks for two ids at once): only *)
(* its length, and the framing code, are.  Then the rest of the packet is    *)
(* given up, as it is when less than a unit is left.                         *)
IsDecodable(u) == u.whole /\ u.length /\ u.framing

TeletextPESDecode ==
  /\ units = <<>>
  /\ units' \in {packet \in Packets : taken + Len(packet) <= MaxUnits}
  /\ taken' = taken + Len(units')
  /\ UNCHANGED <<subtPage, ttx_sub_mag, match, lang, dTrip, lines>>

TeletextDecodeFrame ==
  /\ units # <<>>
  /\ IF IsDecodable(Head(units))
     THEN Decode_data_block(Head(units)) /\ units' = Tail(units)
     ELSE units' = <<>> /\ UNCHANGED <<match, lang, dTrip, lines>>
  /\ UNCHANGED <<subtPage, ttx_sub_mag, taken>>

(* The magazine stays as it was. *)
SetPage ==
  /\ units = <<>>
  /\ subtPage' \in Pages \ {subtPage}
  /\ UNCHANGED <<ttx_sub_mag, match, lang, dTrip, lines, units, taken>>

TeletextNext == TeletextPESDecode \/ TeletextDecodeFrame \/ SetPage

-----------------------------------------------------------------------------
(* Where the boxes of a row open: at the second START_BOX in a row, outside  *)
(* of a box.                                                                 *)
BoxOpens(text, n) ==
  /\ n > 1 /\ text[n] = START_BOX /\ text[n - 1] = START_BOX
  /\ \A m \in 2 .. n - 1 : text[m] = START_BOX /\ text[m - 1] = START_BOX =>
       \E e \in m .. n - 1 : text[e] = END_BOX

(* A line shows the box of its row and nothing else, character for           *)
(* character, up to its END_BOX or the end of the row.  Only between two     *)
(* boxes of a row does it show what was in the buffer before.                *)
LinesShowTheirBox ==
  \A i \in DOMAIN lines :
    LET text  == lines[i].of
        boxes == {n \in 1 .. Columns : BoxOpens(text, n)}
        first == CHOOSE n \in boxes : \A m \in boxes : n <= m
        ends  == {n \in first .. Columns : text[n] = END_BOX}
        last  == IF ends = {} THEN Columns ELSE CHOOSE n \in ends : \A m \in ends : n <= m
    IN  /\ boxes # {}
        /\ Uninitialised \in {lines[i].text[k] : k \in DOMAIN lines[i].text} => boxes # {first}
        /\ boxes = {first} =>
             lines[i].text = [k \in 1 .. last - first + 1 |-> Shown(text[first + k - 1])]
=============================================================================
