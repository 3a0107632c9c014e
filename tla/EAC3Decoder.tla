----------------------------- MODULE EAC3Decoder -----------------------------
(***************************************************************************)
(* EAC3Decoder assembles E-AC-3 access units.  PESDecode of                *)
(* EAC3PacketHandler queues the data of one PES packet and then calls      *)
(* DecodeFrame_PassThru until it returns null; each call assembles one     *)
(* access unit from the syncframes at the front of the queue.  An access   *)
(* unit holds six audio blocks of the first independent substream (I0) and *)
(* the syncframes of the other substreams that go with them; it never      *)
(* spans two PES packets.                                                  *)
(*                                                                         *)
(* The data of a PES packet is a sequence of items: whole syncframes, data *)
(* FindSyncWord finds no syncframe in ("junk"), and at the end perhaps     *)
(* more than six bytes of the beginning of a syncframe ("part").  Just six *)
(* bytes of a syncframe at the end are junk as well, because FindSyncWord  *)
(* wants a seventh.  Fewer than six bytes at the end are a "stub".         *)
(***************************************************************************)
EXTENDS Integers, Sequences, FiniteSetsExt, Sums

CONSTANTS
  MaxSubstreamIds,  (* MAX_NUM_SUBSTREAM_IDS.                                *)
  PESData           (* The data a PES packet can carry.                      *)

BlocksPerAU == 6

SubstreamIds == 0 .. MaxSubstreamIds - 1

(* long: longer than MAX_FRAME_LEN, although the format allows it. *)
Syncframe ==
  [kind : {"whole", "part"}, independent : BOOLEAN, id : SubstreamIds,
   blocks : {1, 2, 3, 6}, long : BOOLEAN]
Item == Syncframe \cup [kind : {"junk", "stub"}]

ASSUME EAC3Assumption ==
  /\ MaxSubstreamIds \in Nat \ {0}
  /\ PESData \subseteq Seq(Item) \ {<<>>}
  /\ \A data \in PESData : \A j \in DOMAIN data : data[j].kind = "stub" => j = Len(data)

VARIABLES
  PESQueue,                 (* The queued data, and how many items of each   *)
                            (* were removed from its front.                  *)
  draining,                 (* Is PESDecode in its loop?                     *)
  au,                       (* DecodeFrame_PassThru's output so far: where   *)
                            (* in the data its syncframes were.              *)
  substreamsBlksFound,      (* Its count of blocks.  Slot 0 of a row is for  *)
                            (* the independent substream, slot k + 1 for its *)
                            (* dependent substream k.                        *)
  currentIndependentStream,
  strayWrite,               (* Has it written outside of that table?         *)
  pes,                      (* The data of the last PES packet, and          *)
  units                     (* the access units returned for it.             *)

locals == <<au, substreamsBlksFound, currentIndependentStream>>
vars == <<PESQueue, draining, locals, strayWrite, pes, units>>

IsHeader(item) == item.kind \in {"whole", "part"}

-----------------------------------------------------------------------------
esBuffer == Head(PESQueue)

(* Fewer than six bytes are left once the first n items are gone. *)
UsedUp(n) ==
  LET items == esBuffer.items
  IN  n = Len(items) \/ (n + 1 = Len(items) /\ items[n + 1].kind = "stub")

(* The syncframes FindSyncWord can stop at.  It skips what precedes the next *)
(* syncword and then tests bsid, but at a place as far beyond it as there    *)
(* was to skip, so that what it reads decides nothing.  A syncframe whose    *)
(* bsid seems wrong is data to skip, too.                                    *)
FindSyncWord ==
  LET items == esBuffer.items
      next == esBuffer.gone + 1
  IN  IF next \in DOMAIN items /\ IsHeader(items[next])
      THEN {next}
      ELSE {j \in DOMAIN items : j > next /\ IsHeader(items[j])}

(* It can also come to the end of the data, or to its last six bytes or      *)
(* fewer: SYNC_NOT_FOUND and SYNC_INCOMPLETE are the same to the caller.     *)
NothingFound ==
  LET next == esBuffer.gone + 1
  IN  next \notin DOMAIN esBuffer.items \/ ~IsHeader(esBuffer.items[next])

(* preProcessHeader gives up on a long syncframe before it has read the      *)
(* number of blocks, and nobody looks at its result.                         *)
NumAudioBlocks(frame) == IF frame.long THEN 1 ELSE frame.blocks

(* Slip: any independent substream starts an access unit. *)
StartsNextAUAny(frame) ==
  frame.independent /\ substreamsBlksFound[0][0] >= BlocksPerAU

StartsNextAU(frame) ==
  frame.independent /\ frame.id = 0 /\ substreamsBlksFound[0][0] >= BlocksPerAU

(* A dependent substream before any independent one is counted at row -1. *)
CountsOutside(frame) == ~frame.independent /\ currentIndependentStream = -1

StreamAfter(frame) == IF frame.independent THEN frame.id ELSE currentIndependentStream

Counted(frame) ==
  [substreamsBlksFound EXCEPT ![StreamAfter(frame)][IF frame.independent THEN 0 ELSE frame.id + 1] =
     @ + NumAudioBlocks(frame)]

(* Slip: only the independent substreams are compared. *)
BlocksMatchIndependent(count) ==
  \A i \in SubstreamIds :
    (\A h \in 0 .. i : count[h][0] # 0) => count[i][0] = count[0][0]

(* The check at the end of an access unit: every substream up to the first   *)
(* independent one that is missing has as many blocks as I0.                 *)
BlocksMatch(count) ==
  \A i \in SubstreamIds :
    (\A h \in 0 .. i : count[h][0] # 0) =>
      \A k \in 0 .. MaxSubstreamIds : count[i][k] \in {0, count[0][0]}

-----------------------------------------------------------------------------
NoBlocks == [i \in SubstreamIds |-> [k \in 0 .. MaxSubstreamIds |-> 0]]

(* The next call of DecodeFrame_PassThru starts afresh. *)
NewCall ==
  /\ au' = <<>> /\ substreamsBlksFound' = NoBlocks /\ currentIndependentStream' = -1

Init ==
  /\ PESQueue = <<>> /\ draining = FALSE
  /\ au = <<>> /\ substreamsBlksFound = NoBlocks /\ currentIndependentStream = -1
  /\ strayWrite = FALSE
  /\ pes = <<>> /\ units = <<>>

(* PESDecode up to its loop. *)
AddData(data) ==
  /\ ~draining
  /\ PESQueue' = Append(PESQueue, [items |-> data, gone |-> 0])
  /\ draining' = TRUE
  /\ pes' = data /\ units' = <<>>
  /\ UNCHANGED <<locals, strayWrite>>

(* Slip: the data stays in the buffer. *)
RemoveNothing(n) == PESQueue' = PESQueue

RemoveItems(n) == PESQueue' = [PESQueue EXCEPT ![1].gone = n]

Pop == PESQueue' = Tail(PESQueue)

(* DecodeFrame_PassThru returns null, which ends PESDecode's loop. *)
ReturnNull == draining' = FALSE /\ units' = units

ReturnUnit(unit) == draining' = draining /\ units' = Append(units, unit)

(* DecodeFrame_PassThru is called with an empty queue. *)
NothingQueued ==
  /\ PESQueue = <<>>
  /\ ReturnNull
  /\ UNCHANGED <<PESQueue, locals>>

(* A syncframe is copied to the output, and there is more data. *)
TakeFrame(j) ==
  LET frame == esBuffer.items[j]
  IN  /\ ~StartsNextAU(frame) /\ frame.kind = "whole" /\ ~UsedUp(j)
      /\ RemoveItems(j)
      /\ au' = Append(au, j)
      /\ substreamsBlksFound' = Counted(frame)
      /\ currentIndependentStream' = StreamAfter(frame)
      /\ UNCHANGED <<draining, units>>

(* It is copied, and was the last of the PES packet. *)
TakeLastFrame(j) ==
  LET frame == esBuffer.items[j]
  IN  /\ ~StartsNextAU(frame) /\ frame.kind = "whole" /\ UsedUp(j)
      /\ Pop
      /\ IF BlocksMatch(Counted(frame)) THEN ReturnUnit(Append(au, j)) ELSE ReturnNull
      /\ NewCall

(* Slip: a wrong access unit leaves the PES packet where it is. *)
EndUnitKeeping(j) ==
  /\ StartsNextAU(esBuffer.items[j])
  /\ RemoveItems(j - 1)
  /\ IF BlocksMatch(substreamsBlksFound) THEN ReturnUnit(au) ELSE ReturnNull
  /\ NewCall

(* Slip: the syncframe that ends the access unit goes with it. *)
EndUnitWithNext(j) ==
  /\ StartsNextAU(esBuffer.items[j])
  /\ IF BlocksMatch(substreamsBlksFound)
     THEN IF UsedUp(j) THEN Pop /\ ReturnUnit(au) ELSE RemoveItems(j) /\ ReturnUnit(au)
     ELSE Pop /\ ReturnNull
  /\ NewCall

(* The syncframe belongs to the next access unit. *)
EndUnit(j) ==
  /\ StartsNextAU(esBuffer.items[j])
  /\ IF BlocksMatch(substreamsBlksFound)
     THEN RemoveItems(j - 1) /\ ReturnUnit(au)
     ELSE Pop /\ ReturnNull
  /\ NewCall

(* Not all of the syncframe is there. *)
CutShort(j) == ~StartsNextAU(esBuffer.items[j]) /\ esBuffer.items[j].kind = "part"

(* Slip: the loop does not end. *)
FailAndGoOn == UNCHANGED <<PESQueue, draining, units, locals>>

(* The PES packet is thrown away, and the access unit with it. *)
Fail == Pop /\ ReturnNull /\ NewCall

DecodeFrame_PassThru ==
  /\ draining /\ UNCHANGED pes
  /\ \/ NothingQueued /\ UNCHANGED strayWrite
     \/ /\ PESQueue # <<>>
        /\ \/ NothingFound /\ Fail /\ UNCHANGED strayWrite
           \/ \E j \in FindSyncWord :
                IF CountsOutside(esBuffer.items[j])
                THEN strayWrite' = TRUE /\ UNCHANGED <<PESQueue, draining, locals, units>>
                ELSE /\ \/ TakeFrame(j)
                        \/ TakeLastFrame(j)
                        \/ EndUnit(j)
                        \/ CutShort(j) /\ Fail
                     /\ UNCHANGED strayWrite

(* After a stray write nothing is known of the program. *)
Next ==
  ~strayWrite /\ (DecodeFrame_PassThru \/ \E data \in PESData : AddData(data))

Spec == Init /\ [][Next]_vars /\ WF_vars(~strayWrite /\ DecodeFrame_PassThru)

-----------------------------------------------------------------------------
TypeOK ==
  /\ PESQueue \in Seq([items : PESData, gone : Nat])
  /\ draining \in BOOLEAN /\ strayWrite \in BOOLEAN
  /\ au \in Seq(Nat) /\ units \in Seq(Seq(Nat))
  /\ substreamsBlksFound \in [SubstreamIds -> [0 .. MaxSubstreamIds -> Nat]]
  /\ currentIndependentStream \in SubstreamIds \cup {-1}
  (* I0 may get more than the blocks of an access unit, but not twice as many. *)
  /\ substreamsBlksFound[0][0] < 2 * BlocksPerAU

(* The queue is one in name only: it holds the PES packet PESDecode is       *)
(* working on and is empty when PESDecode returns, whatever the data was and *)
(* whichever error ended the loop.  So no access unit is assembled from the  *)
(* data of two PES packets, nor returned for the wrong one.                  *)
QueueDiscipline ==
  /\ Len(PESQueue) <= 1
  /\ ~draining => PESQueue = <<>>
  /\ PESQueue # <<>> => esBuffer.items = pes /\ esBuffer.gone < Len(pes)

(* Every syncframe of every access unit is a whole syncframe of this PES     *)
(* packet, and the access units have them in the order of the PES packet,    *)
(* each at most once.                                                        *)
InOrder(unit) ==
  /\ \A k \in DOMAIN unit : unit[k] \in DOMAIN pes /\ pes[unit[k]].kind = "whole"
  /\ \A k, l \in DOMAIN unit : k < l => unit[k] < unit[l]

Precedes(unit, next) == \A k \in DOMAIN unit, l \in DOMAIN next : unit[k] < next[l]

UnitsInOrder ==
  /\ InOrder(au)
  /\ \A m \in DOMAIN units : InOrder(units[m]) /\ Precedes(units[m], au)
  /\ \A m, n \in DOMAIN units : m < n => Precedes(units[m], units[n])

(* Does the PES packet begin with an independent substream? *)
FrontIsIndependent == pes # <<>> /\ IsHeader(pes[1]) /\ pes[1].independent

(* However a PES packet goes on behind an independent substream, nothing is  *)
(* counted outside of the table: a call of DecodeFrame_PassThru after one    *)
(* that returned an access unit begins with the independent syncframe that   *)
(* ended it, and after one that failed there is no data.  A stray write can  *)
(* so only happen in the first call for a PES packet.                        *)
CountsInTable == strayWrite => ~FrontIsIndependent /\ au = <<>> /\ units = <<>>

(* Whatever the data is, PESDecode comes to the end of its loop. *)
PESDecodeReturns == draining ~> ~draining \/ strayWrite

-----------------------------------------------------------------------------
(* What the access units returned have to do with those that were put into   *)
(* the PES packet.                                                           *)

Headers == {j \in DOMAIN pes : IsHeader(pes[j])}
FirstStream == {j \in Headers : pes[j].independent /\ pes[j].id = 0}

(* The audio blocks of syncframes, and those that the decoder counts. *)
Blocks(S) == SumAt([j \in DOMAIN pes |-> IF j \in Headers THEN pes[j].blocks ELSE 0], S)

BlocksCounted(S) ==
  SumAt([j \in DOMAIN pes |-> IF j \in Headers THEN NumAudioBlocks(pes[j]) ELSE 0], S)

(* An access unit begins where the first independent substream has completed *)
(* the six blocks of the one before.                                         *)
Starts ==
  {j \in FirstStream : Blocks({k \in FirstStream : k < j}) % BlocksPerAU = 0}

(* The access unit that begins at s: everything before the next one, and     *)
(* before the few bytes at the end.                                          *)
UnitFrom(s) ==
  {j \in DOMAIN pes : j >= s /\ pes[j].kind # "stub" /\ \A t \in Starts : t > s => j < t}

(* The substream of a syncframe in an access unit: the independent one, and  *)
(* the slot in its row.                                                      *)
Substream(unit, j) ==
  <<pes[Max({k \in unit : k <= j /\ pes[k].independent})].id,
    IF pes[j].independent THEN 0 ELSE pes[j].id + 1>>

OfSubstream(unit, slot) == {j \in unit : Substream(unit, j) = slot}

(* An access unit as the comment on substreamsBlksFound describes it. *)
Legal(unit) ==
  /\ \A j \in unit : pes[j].kind = "whole" /\ ~pes[j].long
  /\ \A j \in unit : Blocks(OfSubstream(unit, Substream(unit, j))) = BlocksPerAU

(* The access units at the front of the PES packet. *)
LegalUpTo(s) == \A t \in Starts : t <= s => Legal(UnitFrom(t))

Frames(unit) == {unit[k] : k \in DOMAIN unit}

JunkAtEnd == pes # <<>> /\ pes[Len(pes)].kind = "junk"

Returned(s) == \E m \in DOMAIN units : Frames(units[m]) = UnitFrom(s)

(* A PES packet that begins with legal access units gets them all returned,  *)
(* in their order and undivided, however many syncframes each of them has    *)
(* and however its blocks are spread over them.  What may follow the last of *)
(* them is the end of the data, fewer than six bytes, or more than six of a  *)
(* syncframe of the first substream, whole or not.  Data FindSyncWord finds  *)
(* nothing in, six bytes of a syncframe among it, always costs the access    *)
(* unit before it.                                                           *)
LegalUnitsAreReturned ==
  /\ (~draining /\ 1 \in Starts) => \A s \in Starts : LegalUpTo(s) => Returned(s)
  /\ JunkAtEnd => \A m \in DOMAIN units : Len(pes) - 1 \notin Frames(units[m])

(* No access unit gets out whose substreams disagree about the number of     *)
(* blocks, as long as no independent substream is left out before them; and  *)
(* the count is that of the access unit's own syncframes, whatever was       *)
(* counted or skipped before.                                                *)
UnitsAgree ==
  \A m \in DOMAIN units :
    LET unit == Frames(units[m])
        Count(slot) == BlocksCounted(OfSubstream(unit, slot))
        Independent(i) == Count(<<i, 0>>)
    IN  \A i \in SubstreamIds :
          (\A h \in 0 .. i : Independent(h) # 0) =>
            /\ Independent(i) = Independent(0)
            /\ \A k \in SubstreamIds : Count(<<i, k + 1>>) \in {0, Independent(0)}

(* Data before the first access unit does not cost it. *)
UnitAfterJunkIsReturned ==
  (~draining /\ pes # <<>> /\ pes[1].kind = "junk" /\ 2 \in Starts /\ LegalUpTo(2))
    => Returned(2)
=============================================================================
