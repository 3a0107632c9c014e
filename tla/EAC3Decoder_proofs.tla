------------------------- MODULE EAC3Decoder_proofs --------------------------
(***************************************************************************)
(* Proofs about EAC3Decoder.  What carries them is that every syncframe    *)
(* taken so far, into the access unit being assembled or into one already  *)
(* returned, is gone from the buffer (TakenIsGone), and that a syncframe   *)
(* FindSyncWord stops at is not.                                           *)
(***************************************************************************)
EXTENDS EAC3Decoder, Sums_proofs

Gone(unit) == \A k \in DOMAIN unit : unit[k] <= esBuffer.gone

TakenIsGone ==
  /\ PESQueue # <<>> => Gone(au) /\ \A m \in DOMAIN units : Gone(units[m])
  /\ PESQueue = <<>> => au = <<>>

IInv == TypeOK /\ QueueDiscipline /\ UnitsInOrder /\ TakenIsGone

-----------------------------------------------------------------------------
LEMMA OneElement ==
  ASSUME NEW S, NEW s \in Seq(S), s # <<>>, Len(s) <= 1
  PROVE  Len(s) = 1 /\ Head(s) = s[1] /\ Head(s) \in S /\ Tail(s) = <<>>
<1>1. Len(s) = 1
  <2>1. Len(s) \in Nat
    BY LenProperties
  <2>2. Len(s) # 0
    BY EmptySeq
  <2>3. QED BY <2>1, <2>2
<1>2. Head(s) = s[1] /\ Head(s) \in S
  BY <1>1
<1>3. Tail(s) \in Seq(S) /\ Len(Tail(s)) = 0
  BY <1>1, HeadTailProperties
<1>4. QED BY <1>1, <1>2, <1>3, EmptySeq

LEMMA BufferFacts ==
  ASSUME TypeOK, QueueDiscipline, PESQueue # <<>>
  PROVE  /\ esBuffer.items = pes /\ esBuffer.gone \in Nat
         /\ esBuffer \in [items : PESData, gone : Nat]
         /\ pes \in Seq(Item) /\ pes \in PESData
         /\ Len(PESQueue) = 1 /\ PESQueue[1] = esBuffer
         /\ Tail(PESQueue) = <<>>
<1>1. PESQueue \in Seq([items : PESData, gone : Nat]) /\ Len(PESQueue) <= 1
  BY DEF TypeOK, QueueDiscipline
<1>2. /\ Len(PESQueue) = 1 /\ Head(PESQueue) = PESQueue[1]
      /\ Head(PESQueue) \in [items : PESData, gone : Nat] /\ Tail(PESQueue) = <<>>
  BY <1>1, OneElement, Zenon
<1>3. esBuffer \in [items : PESData, gone : Nat] /\ PESQueue[1] = esBuffer
  BY <1>2, Zenon DEF esBuffer
<1>4. Tail(PESQueue) = <<>>
  BY <1>2
<1>5. esBuffer.items = pes
  BY DEF QueueDiscipline
<1>6. QED BY <1>2, <1>3, <1>4, <1>5, EAC3Assumption

(* What FindSyncWord stops at is a syncframe that is still in the buffer. *)
LEMMA FoundFacts ==
  ASSUME TypeOK, QueueDiscipline, PESQueue # <<>>, NEW j \in FindSyncWord
  PROVE  /\ j \in DOMAIN pes /\ j \in Nat /\ j > esBuffer.gone /\ j <= Len(pes)
         /\ pes[j] \in Syncframe
         /\ esBuffer.items[j] = pes[j]
<1>1. /\ esBuffer.items = pes /\ esBuffer.gone \in Nat
      /\ pes \in Seq(Item)
  BY BufferFacts
<1>2. j \in DOMAIN pes /\ j > esBuffer.gone /\ IsHeader(pes[j])
  BY <1>1 DEF FindSyncWord
<1>3. DOMAIN pes = 1 .. Len(pes) /\ Len(pes) \in Nat
  BY <1>1, LenProperties
<1>4. pes[j] \in Item
  BY <1>1, <1>2, <1>3
<1>5. pes[j] \in Syncframe
  BY <1>2, <1>4 DEF IsHeader, Item
<1>6. QED BY <1>1, <1>2, <1>3, <1>5

LEMMA NoBlocksType ==
  /\ NoBlocks \in [SubstreamIds -> [0 .. MaxSubstreamIds -> Nat]]
  /\ NoBlocks[0][0] = 0
<1>1. 0 \in SubstreamIds /\ 0 \in 0 .. MaxSubstreamIds
  BY EAC3Assumption DEF SubstreamIds
<1>2. QED BY <1>1 DEF NoBlocks

LEMMA AudioBlocks ==
  ASSUME NEW frame \in Syncframe
  PROVE  NumAudioBlocks(frame) \in Nat /\ NumAudioBlocks(frame) <= BlocksPerAU
BY DEF Syncframe, NumAudioBlocks, BlocksPerAU

(* The count stays a table of the same size, and the first substream's stays *)
(* below twice the blocks of an access unit.                                 *)
LEMMA CountedType ==
  ASSUME TypeOK, NEW frame \in Syncframe, ~CountsOutside(frame), ~StartsNextAU(frame)
  PROVE  /\ StreamAfter(frame) \in SubstreamIds
         /\ Counted(frame) \in [SubstreamIds -> [0 .. MaxSubstreamIds -> Nat]]
         /\ Counted(frame)[0][0] < 2 * BlocksPerAU
<1> DEFINE t == substreamsBlksFound
           s == StreamAfter(frame)
           k == IF frame.independent THEN 0 ELSE frame.id + 1
           n == NumAudioBlocks(frame)
<1>1. frame.id \in SubstreamIds /\ frame.independent \in BOOLEAN
  BY DEF Syncframe
<1>2. s \in SubstreamIds
  BY <1>1 DEF StreamAfter, CountsOutside, TypeOK
<1>3. k \in 0 .. MaxSubstreamIds
  BY <1>1, EAC3Assumption DEF SubstreamIds
<1>4. n \in Nat /\ n <= 6
  BY AudioBlocks DEF BlocksPerAU
<1>5. /\ t \in [SubstreamIds -> [0 .. MaxSubstreamIds -> Nat]]
      /\ t[0][0] < 12
  BY DEF TypeOK, BlocksPerAU
<1>6. 0 \in SubstreamIds /\ 0 \in 0 .. MaxSubstreamIds
  BY EAC3Assumption DEF SubstreamIds
<1>7. Counted(frame) = [t EXCEPT ![s][k] = @ + n]
  BY DEF Counted
<1>8. t[s] \in [0 .. MaxSubstreamIds -> Nat] /\ t[s][k] + n \in Nat /\ t[0][0] \in Nat
  <2> HIDE DEF s, k, n, t
  <2>1. t[s] \in [0 .. MaxSubstreamIds -> Nat] /\ t[0] \in [0 .. MaxSubstreamIds -> Nat]
    BY <1>2, <1>5, <1>6
  <2>2. t[s][k] \in Nat /\ t[0][0] \in Nat
    BY <2>1, <1>3, <1>6
  <2>3. QED BY <2>1, <2>2, <1>4
<1>9. /\ [t EXCEPT ![s][k] = @ + n] \in [SubstreamIds -> [0 .. MaxSubstreamIds -> Nat]]
      /\ [t EXCEPT ![s][k] = @ + n][0][0] = IF s = 0 /\ k = 0 THEN t[0][0] + n ELSE t[0][0]
  <2> HIDE DEF s, k, n, t
  <2>1. QED BY <1>2, <1>3, <1>5, <1>6, <1>8
<1>10. s = 0 /\ k = 0 => t[0][0] < 6
  <2>1. SUFFICES ASSUME s = 0, k = 0 PROVE t[0][0] < 6
    OBVIOUS
  <2>2. frame.independent
    BY <2>1, <1>1, EAC3Assumption DEF SubstreamIds
  <2>3. frame.id = 0
    BY <2>1, <2>2 DEF StreamAfter
  <2>4. ~(t[0][0] >= 6)
    BY <2>2, <2>3 DEF StartsNextAU, BlocksPerAU
  <2>5. QED BY <2>4, <1>8
<1>11. Counted(frame)[0][0] < 12
  <2> HIDE DEF s, k, n, t
  <2>1. QED BY <1>4, <1>5, <1>7, <1>8, <1>9, <1>10
<1>12. QED BY <1>2, <1>7, <1>9, <1>11 DEF BlocksPerAU

-----------------------------------------------------------------------------
(* The kinds of steps.  NewCall leaves nothing assembled. *)

LEMMA NewCallType ==
  ASSUME NewCall
  PROVE  /\ au' = <<>> /\ au' \in Seq(Nat)
         /\ substreamsBlksFound' \in [SubstreamIds -> [0 .. MaxSubstreamIds -> Nat]]
         /\ currentIndependentStream' \in SubstreamIds \cup {-1}
         /\ substreamsBlksFound'[0][0] < 2 * BlocksPerAU
BY NoBlocksType DEF NewCall, BlocksPerAU

(* Access units in order, and one more behind them. *)
Ordered(us) ==
  /\ \A m \in DOMAIN us : InOrder(us[m])
  /\ \A m, n \in DOMAIN us : m < n => Precedes(us[m], us[n])

LEMMA AppendOrdered ==
  ASSUME NEW us \in Seq(Seq(Nat)), NEW unit \in Seq(Nat),
         Ordered(us), InOrder(unit), \A m \in DOMAIN us : Precedes(us[m], unit)
  PROVE  Append(us, unit) \in Seq(Seq(Nat)) /\ Ordered(Append(us, unit))
<1> DEFINE more == Append(us, unit)
<1>1. /\ more \in Seq(Seq(Nat))
      /\ Len(us) \in Nat /\ DOMAIN us = 1 .. Len(us) /\ DOMAIN more = 1 .. Len(us) + 1
      /\ \A m \in 1 .. Len(us) : more[m] = us[m]
      /\ more[Len(us) + 1] = unit
  BY AppendProperties, LenProperties
<1> HIDE DEF more
<1>2. ASSUME NEW m \in DOMAIN more PROVE InOrder(more[m])
  <2>1. CASE m = Len(us) + 1
    BY <1>1, <2>1
  <2>2. CASE m # Len(us) + 1
    <3>1. m \in DOMAIN us
      BY <1>1, <2>2
    <3>2. QED BY <1>1, <3>1 DEF Ordered
  <2>3. QED BY <2>1, <2>2
<1>3. ASSUME NEW m \in DOMAIN more, NEW n \in DOMAIN more, m < n
      PROVE  Precedes(more[m], more[n])
  <2>1. m \in DOMAIN us /\ more[m] = us[m]
    BY <1>1, <1>3
  <2>2. CASE n = Len(us) + 1
    BY <1>1, <2>1, <2>2
  <2>3. CASE n # Len(us) + 1
    <3>1. n \in DOMAIN us /\ more[n] = us[n]
      BY <1>1, <2>3
    <3>2. QED BY <1>3, <2>1, <3>1 DEF Ordered
  <2>4. QED BY <2>2, <2>3
<1>4. more \in Seq(Seq(Nat)) /\ Ordered(more)
  BY <1>1, <1>2, <1>3 DEF Ordered
<1>5. QED BY <1>4 DEF more

LEMMA InitIInv == Init => IInv
<1> SUFFICES ASSUME Init PROVE IInv
  OBVIOUS
<1>1. TypeOK
  <2>1. draining \in BOOLEAN /\ strayWrite \in BOOLEAN
    BY DEF Init
  <2>2. /\ PESQueue \in Seq([items : PESData, gone : Nat])
        /\ au \in Seq(Nat) /\ units \in Seq(Seq(Nat))
    BY DEF Init
  <2>3. /\ substreamsBlksFound \in [SubstreamIds -> [0 .. MaxSubstreamIds -> Nat]]
        /\ substreamsBlksFound[0][0] < 2 * BlocksPerAU
        /\ currentIndependentStream \in SubstreamIds \cup {-1}
    BY NoBlocksType DEF Init, BlocksPerAU
  <2>4. QED BY <2>1, <2>2, <2>3 DEF TypeOK
<1>2. QueueDiscipline
  BY DEF Init, QueueDiscipline
<1>3. UnitsInOrder
  BY DEF Init, UnitsInOrder, InOrder
<1>4. TakenIsGone
  BY DEF Init, TakenIsGone
<1>5. QED BY <1>1, <1>2, <1>3, <1>4 DEF IInv

LEMMA AddDataStep ==
  ASSUME IInv, NEW data \in PESData, AddData(data)
  PROVE  IInv'
<1>1. PESQueue = <<>> /\ au = <<>>
  BY DEF IInv, AddData, QueueDiscipline, TakenIsGone
<1>2. /\ PESQueue' = <<[items |-> data, gone |-> 0]>>
      /\ draining' = TRUE /\ pes' = data /\ units' = <<>> /\ au' = <<>>
      /\ UNCHANGED <<substreamsBlksFound, currentIndependentStream, strayWrite>>
  BY <1>1 DEF AddData, locals
<1>3. Len(data) > 0
  <2>1. data \in Seq(Item) /\ data # <<>>
    BY EAC3Assumption
  <2>2. QED BY <2>1, EmptySeq, LenProperties
<1>4. TypeOK'
  BY <1>2 DEF IInv, TypeOK
<1>5. QueueDiscipline'
  BY <1>2, <1>3 DEF QueueDiscipline, esBuffer
<1>6. UnitsInOrder'
  BY <1>2 DEF UnitsInOrder, InOrder
<1>7. TakenIsGone'
  BY <1>2 DEF TakenIsGone, Gone
<1>8. QED BY <1>4, <1>5, <1>6, <1>7 DEF IInv

(* Nothing returned, or one more access unit. *)
LEMMA ReturnOrdered ==
  ASSUME IInv, UNCHANGED pes,
         NEW unit \in Seq(Nat), InOrder(unit),
         \A m \in DOMAIN units : Precedes(units[m], unit),
         units' = units \/ units' = Append(units, unit)
  PROVE  units' \in Seq(Seq(Nat)) /\ Ordered(units)'
<1>1. units \in Seq(Seq(Nat)) /\ Ordered(units)
  BY DEF IInv, TypeOK, UnitsInOrder, Ordered
<1>2. /\ Append(units, unit) \in Seq(Seq(Nat)) /\ Ordered(Append(units, unit))
  BY <1>1, AppendOrdered
<1>3. PICK us \in Seq(Seq(Nat)) : us = units' /\ Ordered(us)
  BY <1>1, <1>2
<1>4. Ordered(units)'
  BY <1>3 DEF Ordered, InOrder, Precedes
<1>5. QED BY <1>3, <1>4

(* Steps that empty the queue. *)
LEMMA PopStep ==
  ASSUME IInv, UNCHANGED pes, PESQueue' = <<>>, NewCall,
         draining' \in BOOLEAN, strayWrite' \in BOOLEAN,
         units' \in Seq(Seq(Nat)), Ordered(units)'
  PROVE  IInv'
<1>1. TypeOK'
  <2>1. PESQueue' \in Seq([items : PESData, gone : Nat])
    OBVIOUS
  <2>2. QED BY <2>1, NewCallType DEF TypeOK
<1>2. QueueDiscipline'
  BY DEF QueueDiscipline
<1>3. UnitsInOrder'
  BY NewCallType DEF UnitsInOrder, InOrder, Precedes, Ordered
<1>4. TakenIsGone'
  BY DEF TakenIsGone, NewCall
<1>5. QED BY <1>1, <1>2, <1>3, <1>4 DEF IInv

(* Steps that remove the first n items of the buffer. *)
LEMMA RemoveFacts ==
  ASSUME IInv, UNCHANGED pes, UNCHANGED draining, draining,
         PESQueue # <<>>, NEW n \in Nat, n < Len(pes), RemoveItems(n)
  PROVE  /\ PESQueue' \in Seq([items : PESData, gone : Nat])
         /\ PESQueue' # <<>>
         /\ esBuffer'.gone = n
         /\ QueueDiscipline'
<1>1. /\ Len(PESQueue) = 1 /\ PESQueue[1] = esBuffer
      /\ esBuffer \in [items : PESData, gone : Nat] /\ esBuffer.items = pes
  BY BufferFacts DEF IInv
<1>2. PESQueue \in Seq([items : PESData, gone : Nat])
  BY DEF IInv, TypeOK
<1> DEFINE left == [esBuffer EXCEPT !.gone = n]
<1>3. left \in [items : PESData, gone : Nat] /\ left.gone = n /\ left.items = pes
  BY <1>1
<1>4. PESQueue' = <<left>>
  <2>1. PESQueue = <<esBuffer>>
    BY <1>1, <1>2
  <2>2. QED BY <2>1 DEF RemoveItems
<1> HIDE DEF left
<1>5. /\ PESQueue' \in Seq([items : PESData, gone : Nat]) /\ PESQueue' # <<>>
      /\ Len(PESQueue') = 1 /\ Head(PESQueue') = left
  BY <1>3, <1>4
<1>6. esBuffer' = left
  BY <1>5 DEF esBuffer
<1>7. QueueDiscipline'
  BY <1>3, <1>5, <1>6 DEF QueueDiscipline
<1>8. QED BY <1>3, <1>5, <1>6, <1>7

(* The syncframe at j goes to the end of the access unit. *)
LEMMA AppendFrame ==
  ASSUME IInv, PESQueue # <<>>, NEW j \in FindSyncWord, pes[j].kind = "whole"
  PROVE  /\ Append(au, j) \in Seq(Nat) /\ InOrder(Append(au, j))
         /\ \A m \in DOMAIN units : Precedes(units[m], Append(au, j))
         /\ \A k \in DOMAIN Append(au, j) : Append(au, j)[k] <= j
<1> DEFINE more == Append(au, j)
<1>1. /\ j \in DOMAIN pes /\ j \in Nat /\ j > esBuffer.gone
      /\ esBuffer.gone \in Nat
  BY FoundFacts, BufferFacts DEF IInv
<1>2. /\ au \in Seq(Nat) /\ units \in Seq(Seq(Nat))
      /\ InOrder(au) /\ \A m \in DOMAIN units : Precedes(units[m], au)
      /\ Gone(au) /\ \A m \in DOMAIN units : Gone(units[m])
  BY DEF IInv, TypeOK, UnitsInOrder, TakenIsGone
<1>3. /\ more \in Seq(Nat)
      /\ Len(au) \in Nat /\ DOMAIN au = 1 .. Len(au) /\ DOMAIN more = 1 .. Len(au) + 1
      /\ \A k \in 1 .. Len(au) : more[k] = au[k]
      /\ more[Len(au) + 1] = j
  BY <1>1, <1>2, AppendProperties, LenProperties
<1> HIDE DEF more
<1>4. ASSUME NEW k \in DOMAIN more
      PROVE  /\ k \in 1 .. Len(au) => more[k] = au[k] /\ au[k] \in Nat /\ au[k] < j
             /\ k \notin 1 .. Len(au) => k = Len(au) + 1 /\ more[k] = j
  <2>1. CASE k \in 1 .. Len(au)
    <3>1. au[k] \in Nat /\ au[k] <= esBuffer.gone
      BY <1>2, <1>3, <2>1 DEF Gone
    <3>2. QED BY <1>1, <1>3, <2>1, <3>1
  <2>2. CASE k \notin 1 .. Len(au)
    BY <1>3, <2>2
  <2>3. QED BY <2>1, <2>2
<1>5. ASSUME NEW k \in DOMAIN more
      PROVE  more[k] \in DOMAIN pes /\ pes[more[k]].kind = "whole" /\ more[k] <= j
  BY <1>1, <1>2, <1>3, <1>4, SMTT(40) DEF InOrder
<1>6. ASSUME NEW k \in DOMAIN more, NEW l \in DOMAIN more, k < l
      PROVE  more[k] < more[l]
  <2>1. k \in 1 .. Len(au)
    BY <1>3, <1>6
  <2>2. CASE l \in 1 .. Len(au)
    BY <1>2, <1>3, <1>6, <2>1, <2>2 DEF InOrder
  <2>3. CASE l \notin 1 .. Len(au)
    BY <1>4, <2>1, <2>3
  <2>4. QED BY <2>2, <2>3
<1>7. ASSUME NEW m \in DOMAIN units
      PROVE  Precedes(units[m], more)
  <2> SUFFICES ASSUME NEW k \in DOMAIN units[m], NEW l \in DOMAIN more
               PROVE  units[m][k] < more[l]
    BY DEF Precedes
  <2>1. CASE l \in 1 .. Len(au)
    BY <1>2, <1>3, <2>1 DEF Precedes
  <2>2. CASE l \notin 1 .. Len(au)
    <3>1. units[m] \in Seq(Nat)
      BY <1>2, LenProperties
    <3>2. units[m][k] \in Nat
      BY <3>1, LenProperties
    <3>3. units[m][k] <= esBuffer.gone
      BY <1>2 DEF Gone
    <3>4. more[l] = j
      BY <1>4, <2>2
    <3>5. QED BY <1>1, <3>2, <3>3, <3>4
  <2>3. QED BY <2>1, <2>2
<1>8. InOrder(more)
  BY <1>5, <1>6 DEF InOrder
<1>9. QED BY <1>3, <1>5, <1>7, <1>8 DEF more

LEMMA TakeFrameStep ==
  ASSUME IInv, UNCHANGED <<pes, strayWrite>>, draining, PESQueue # <<>>,
         NEW j \in FindSyncWord, ~CountsOutside(esBuffer.items[j]), TakeFrame(j)
  PROVE  IInv'
<1>1. /\ j \in Nat /\ j > esBuffer.gone /\ j <= Len(pes) /\ Len(pes) \in Nat
      /\ esBuffer.gone \in Nat
      /\ esBuffer.items = pes /\ esBuffer.items[j] = pes[j] /\ pes[j] \in Syncframe
  BY FoundFacts, BufferFacts, LenProperties DEF IInv
<1>2. j < Len(pes)
  <2>1. j # Len(pes)
    BY <1>1 DEF TakeFrame, UsedUp
  <2>2. QED BY <1>1, <2>1
<1>3. /\ PESQueue' \in Seq([items : PESData, gone : Nat]) /\ PESQueue' # <<>>
      /\ esBuffer'.gone = j /\ QueueDiscipline'
  BY <1>1, <1>2, RemoveFacts DEF TakeFrame
<1>4. /\ au' = Append(au, j) /\ units' = units /\ draining' = draining
      /\ substreamsBlksFound' = Counted(pes[j])
      /\ currentIndependentStream' = StreamAfter(pes[j])
      /\ ~StartsNextAU(pes[j]) /\ pes[j].kind = "whole"
  BY <1>1 DEF TakeFrame
<1>5. /\ au' \in Seq(Nat) /\ InOrder(au') /\ \A m \in DOMAIN units : Precedes(units[m], au')
      /\ \A k \in DOMAIN au' : au'[k] <= j
  BY <1>4, AppendFrame
<1>6. /\ StreamAfter(pes[j]) \in SubstreamIds
      /\ Counted(pes[j]) \in [SubstreamIds -> [0 .. MaxSubstreamIds -> Nat]]
      /\ Counted(pes[j])[0][0] < 2 * BlocksPerAU
  BY <1>1, <1>4, CountedType DEF IInv
<1>7. TypeOK'
  <2>1. draining' \in BOOLEAN /\ strayWrite' \in BOOLEAN /\ units' \in Seq(Seq(Nat))
    BY <1>4 DEF IInv, TypeOK
  <2>2. QED BY <1>3, <1>4, <1>5, <1>6, <2>1 DEF TypeOK
<1>8. UnitsInOrder'
  BY <1>4, <1>5 DEF IInv, UnitsInOrder, InOrder, Precedes
<1>9. TakenIsGone'
  <2>1. Gone(au)'
    BY <1>3, <1>5 DEF Gone
  <2>2. ASSUME NEW m \in DOMAIN units PROVE Gone(units[m])'
    <3> SUFFICES ASSUME NEW k \in DOMAIN units[m] PROVE units[m][k] <= j
      BY <1>3, <1>4 DEF Gone
    <3>1. units[m] \in Seq(Nat)
      BY LenProperties DEF IInv, TypeOK
    <3>2. units[m][k] \in Nat
      BY <3>1, LenProperties
    <3>3. units[m][k] <= esBuffer.gone
      BY DEF IInv, TakenIsGone, Gone
    <3>4. QED BY <1>1, <3>2, <3>3
  <2>3. QED BY <1>3, <1>4, <2>1, <2>2 DEF TakenIsGone
<1>10. QED BY <1>3, <1>7, <1>8, <1>9 DEF IInv

LEMMA TakeLastFrameStep ==
  ASSUME IInv, UNCHANGED <<pes, strayWrite>>, draining, PESQueue # <<>>,
         NEW j \in FindSyncWord, TakeLastFrame(j)
  PROVE  IInv'
<1>1. pes[j].kind = "whole"
  BY FoundFacts DEF IInv, TakeLastFrame
<1>2. /\ Append(au, j) \in Seq(Nat) /\ InOrder(Append(au, j))
      /\ \A m \in DOMAIN units : Precedes(units[m], Append(au, j))
  BY <1>1, AppendFrame
<1>3. units' = units \/ units' = Append(units, Append(au, j))
  BY DEF TakeLastFrame, ReturnUnit, ReturnNull
<1>4. units' \in Seq(Seq(Nat)) /\ Ordered(units)'
  BY <1>2, <1>3, ReturnOrdered
<1>5. PESQueue' = <<>> /\ NewCall
  BY BufferFacts DEF IInv, TakeLastFrame, Pop
<1>6. draining' \in BOOLEAN
  BY DEF TakeLastFrame, ReturnUnit, ReturnNull
<1>7. strayWrite' \in BOOLEAN
  BY DEF IInv, TypeOK
<1>8. QED BY <1>4, <1>5, <1>6, <1>7, PopStep

LEMMA FailStep ==
  ASSUME IInv, UNCHANGED <<pes, strayWrite>>, PESQueue # <<>>, Fail
  PROVE  IInv'
<1>1. units' \in Seq(Seq(Nat)) /\ Ordered(units)'
  BY DEF IInv, TypeOK, UnitsInOrder, Ordered, InOrder, Precedes, Fail, ReturnNull
<1>2. PESQueue' = <<>> /\ NewCall
  BY BufferFacts DEF IInv, Fail, Pop
<1>3. draining' \in BOOLEAN
  BY DEF Fail, ReturnNull
<1>4. strayWrite' \in BOOLEAN
  BY DEF IInv, TypeOK
<1>5. QED BY <1>1, <1>2, <1>3, <1>4, PopStep

LEMMA EndUnitStep ==
  ASSUME IInv, UNCHANGED <<pes, strayWrite>>, draining, PESQueue # <<>>,
         NEW j \in FindSyncWord, EndUnit(j)
  PROVE  IInv'
<1>1. CASE ~BlocksMatch(substreamsBlksFound)
  <2>1. Fail
    BY <1>1 DEF EndUnit, Fail
  <2>2. QED BY <2>1, FailStep
<1>2. CASE BlocksMatch(substreamsBlksFound)
  <2>1. /\ j \in Nat /\ j > esBuffer.gone /\ j <= Len(pes) /\ Len(pes) \in Nat
        /\ esBuffer.gone \in Nat
    BY FoundFacts, BufferFacts, LenProperties DEF IInv
  <2>2. RemoveItems(j - 1) /\ NewCall /\ draining' = draining /\ units' = Append(units, au)
    BY <1>2 DEF EndUnit, ReturnUnit
  <2>3. j - 1 \in Nat /\ j - 1 < Len(pes) /\ esBuffer.gone <= j - 1
    BY <2>1
  <2>4. /\ PESQueue' \in Seq([items : PESData, gone : Nat]) /\ PESQueue' # <<>>
        /\ esBuffer'.gone = j - 1 /\ QueueDiscipline'
    BY <2>2, <2>3, RemoveFacts
  <2>5. units' \in Seq(Seq(Nat)) /\ Ordered(units)'
    <3>1. au \in Seq(Nat) /\ InOrder(au) /\ \A m \in DOMAIN units : Precedes(units[m], au)
      BY DEF IInv, TypeOK, UnitsInOrder
    <3>2. QED BY <2>2, <3>1, ReturnOrdered
  <2>6. TypeOK'
    <3>1. draining' \in BOOLEAN /\ strayWrite' \in BOOLEAN
      BY <2>2 DEF IInv, TypeOK
    <3>2. QED BY <2>2, <2>4, <2>5, <3>1, NewCallType DEF TypeOK
  <2>7. UnitsInOrder'
    <3>1. au' = <<>>
      BY <2>2, NewCallType
    <3>2. InOrder(au)' /\ \A m \in DOMAIN units' : Precedes(units[m], au)'
      BY <3>1 DEF InOrder, Precedes
    <3>3. QED BY <2>5, <3>2 DEF UnitsInOrder, Ordered
  <2>8. TakenIsGone'
    <3>1. ASSUME NEW unit \in Seq(Nat), Gone(unit), NEW k \in DOMAIN unit
          PROVE  unit[k] <= j - 1
      <4>1. unit[k] \in Nat
        BY LenProperties
      <4>2. unit[k] <= esBuffer.gone
        BY <3>1 DEF Gone
      <4>3. QED BY <2>1, <4>1, <4>2
    <3>2. units \in Seq(Seq(Nat)) /\ au \in Seq(Nat) /\ Gone(au)
          /\ \A m \in DOMAIN units : Gone(units[m])
      BY DEF IInv, TypeOK, TakenIsGone
    <3>3. ASSUME NEW m \in DOMAIN units'
          PROVE  units'[m] \in Seq(Nat) /\ Gone(units'[m])
      BY <2>2, <3>2, AppendProperties, LenProperties
    <3>4. ASSUME NEW m \in DOMAIN units'
          PROVE  \A k \in DOMAIN units'[m] : units'[m][k] <= j - 1
      BY <3>1, <3>3
    <3>5. au' = <<>>
      BY <2>2, NewCallType
    <3>6. QED BY <2>4, <3>4, <3>5 DEF TakenIsGone, Gone
  <2>9. QED BY <2>4, <2>6, <2>7, <2>8 DEF IInv
<1>3. QED BY <1>1, <1>2

(* Nothing the invariant looks at changes, but for the two flags. *)
LEMMA SameDataStep ==
  ASSUME IInv, UNCHANGED <<PESQueue, locals, pes, units>>,
         draining' \in BOOLEAN, strayWrite' \in BOOLEAN,
         ~draining' => PESQueue = <<>>
  PROVE  IInv'
<1>1. TypeOK'
  BY DEF IInv, TypeOK, locals
<1>2. QueueDiscipline'
  BY DEF IInv, QueueDiscipline, esBuffer
<1>3. UnitsInOrder'
  BY DEF IInv, UnitsInOrder, InOrder, Precedes, locals
<1>4. TakenIsGone'
  BY DEF IInv, TakenIsGone, Gone, esBuffer, locals
<1>5. QED BY <1>1, <1>2, <1>3, <1>4 DEF IInv

LEMMA DecodeStep ==
  ASSUME IInv, DecodeFrame_PassThru
  PROVE  IInv'
<1>1. draining /\ pes' = pes
  BY DEF DecodeFrame_PassThru
<1>2. strayWrite \in BOOLEAN
  BY DEF IInv, TypeOK
<1>3. CASE NothingQueued /\ UNCHANGED strayWrite
  BY <1>1, <1>2, <1>3, SameDataStep DEF NothingQueued, ReturnNull
<1>4. CASE PESQueue # <<>> /\ Fail /\ UNCHANGED strayWrite
  BY <1>1, <1>4, FailStep
<1>5. ASSUME PESQueue # <<>>, NEW j \in FindSyncWord, CountsOutside(esBuffer.items[j]),
             strayWrite' = TRUE /\ UNCHANGED <<PESQueue, draining, locals, units>>
      PROVE  IInv'
  BY <1>1, <1>5, SameDataStep
<1>6. ASSUME PESQueue # <<>>, NEW j \in FindSyncWord, ~CountsOutside(esBuffer.items[j]),
             TakeFrame(j) \/ TakeLastFrame(j) \/ EndUnit(j), UNCHANGED strayWrite
      PROVE  IInv'
  BY <1>1, <1>6, TakeFrameStep, TakeLastFrameStep, EndUnitStep
<1>7. QED BY <1>3, <1>4, <1>5, <1>6, Zenon DEF DecodeFrame_PassThru

LEMMA NextIInv == IInv /\ [Next]_vars => IInv'
<1> SUFFICES ASSUME IInv, [Next]_vars PROVE IInv'
  OBVIOUS
<1>1. CASE DecodeFrame_PassThru
  BY <1>1, DecodeStep
<1>2. ASSUME NEW data \in PESData, AddData(data) PROVE IInv'
  BY <1>2, AddDataStep
<1>3. CASE UNCHANGED vars
  <2>1. UNCHANGED <<PESQueue, locals, pes, units, draining, strayWrite>>
    BY <1>3 DEF vars
  <2>2. draining \in BOOLEAN /\ strayWrite \in BOOLEAN /\ (~draining => PESQueue = <<>>)
    BY DEF IInv, TypeOK, QueueDiscipline
  <2>3. QED BY <2>1, <2>2, SameDataStep
<1>4. QED BY <1>1, <1>2, <1>3 DEF Next

LEMMA IInvHolds == Spec => []IInv
<1>1. Init => IInv
  BY InitIInv
<1>2. IInv /\ [Next]_vars => IInv'
  BY NextIInv
<1>3. QED BY <1>1, <1>2, PTL DEF Spec

-----------------------------------------------------------------------------
(* The decoder's variables have their types, and I0 never gets twice the     *)
(* blocks of an access unit.                                                 *)
THEOREM TypeCorrect == Spec => []TypeOK
<1>1. IInv => TypeOK
  BY DEF IInv
<1>2. QED BY <1>1, IInvHolds, PTL

(* The queue never holds a second PES packet, nor one when PESDecode has     *)
(* returned.                                                                 *)
THEOREM QueueDisciplineHolds == Spec => []QueueDiscipline
<1>1. IInv => QueueDiscipline
  BY DEF IInv
<1>2. QED BY <1>1, IInvHolds, PTL

(* Access units consist of whole syncframes of the PES packet, in its order  *)
(* and none of them twice.                                                   *)
THEOREM UnitsInOrderHolds == Spec => []UnitsInOrder
<1>1. IInv => UnitsInOrder
  BY DEF IInv
<1>2. QED BY <1>1, IInvHolds, PTL

-----------------------------------------------------------------------------
(* What the decoder counts.  CountsAre says that table has the blocks of     *)
(* every substream of the syncframes in unit and that stream is the          *)
(* independent one their last syncframe belongs to.                          *)
CountOf(unit, slot) == BlocksCounted(OfSubstream(unit, slot))

CountsAre(unit, table, stream) ==
  /\ unit \subseteq Headers
  /\ unit = {} => stream = -1
  /\ unit # {} => \E m \in unit : /\ pes[m].independent /\ pes[m].id = stream
                                  /\ \A k \in unit : pes[k].independent => k <= m
  /\ \A i \in SubstreamIds, k \in 0 .. MaxSubstreamIds : table[i][k] = CountOf(unit, <<i, k>>)

Agrees(unit) ==
  \A i \in SubstreamIds :
    (\A h \in 0 .. i : CountOf(unit, <<h, 0>>) # 0) =>
      /\ CountOf(unit, <<i, 0>>) = CountOf(unit, <<0, 0>>)
      /\ \A k \in SubstreamIds : CountOf(unit, <<i, k + 1>>) \in {0, CountOf(unit, <<0, 0>>)}

CountInv ==
  /\ pes \in Seq(Item)
  /\ CountsAre(Frames(au), substreamsBlksFound, currentIndependentStream)
  /\ UnitsAgree

CountedBlocks == [j \in DOMAIN pes |-> IF j \in Headers THEN NumAudioBlocks(pes[j]) ELSE 0]
AllBlocks == [j \in DOMAIN pes |-> IF j \in Headers THEN pes[j].blocks ELSE 0]

LEMMA HeaderFacts ==
  ASSUME pes \in Seq(Item), NEW j \in Headers
  PROVE  /\ j \in DOMAIN pes /\ j \in Nat /\ j >= 1 /\ j <= Len(pes)
         /\ pes[j] \in Syncframe /\ pes[j].independent \in BOOLEAN
         /\ pes[j].id \in SubstreamIds /\ pes[j].id \in Nat
         /\ pes[j].blocks \in Nat /\ pes[j].blocks >= 1
         /\ NumAudioBlocks(pes[j]) \in Nat
<1>1. j \in DOMAIN pes /\ IsHeader(pes[j])
  BY DEF Headers
<1>2. DOMAIN pes = 1 .. Len(pes) /\ Len(pes) \in Nat
  BY LenProperties
<1>3. pes[j] \in Item
  BY <1>1, <1>2, ElementOfSeq
<1>4. pes[j] \in Syncframe
  BY <1>1, <1>3 DEF IsHeader, Item
<1>5. /\ pes[j].independent \in BOOLEAN /\ pes[j].id \in SubstreamIds
      /\ pes[j].blocks \in {1, 2, 3, 6}
  BY <1>4 DEF Syncframe
<1>6. pes[j].id \in Nat
  BY <1>5 DEF SubstreamIds
<1>7. QED BY <1>1, <1>2, <1>4, <1>5, <1>6, AudioBlocks

LEMMA BlocksFacts ==
  ASSUME pes \in Seq(Item)
  PROVE  /\ CountedBlocks \in Seq(Nat) /\ Len(CountedBlocks) = Len(pes)
         /\ AllBlocks \in Seq(Nat) /\ Len(AllBlocks) = Len(pes)
         /\ \A j \in Headers : /\ CountedBlocks[j] = NumAudioBlocks(pes[j])
                               /\ AllBlocks[j] = pes[j].blocks
         /\ \A S : BlocksCounted(S) = SumAt(CountedBlocks, S) /\ Blocks(S) = SumAt(AllBlocks, S)
<1>1. DOMAIN pes = 1 .. Len(pes) /\ Len(pes) \in Nat
  BY LenProperties
<1>2. \A j \in Headers : /\ j \in DOMAIN pes
                         /\ NumAudioBlocks(pes[j]) \in Nat /\ pes[j].blocks \in Nat
  BY HeaderFacts
<1>3. /\ CountedBlocks = [j \in 1 .. Len(pes) |-> IF j \in Headers THEN NumAudioBlocks(pes[j]) ELSE 0]
      /\ AllBlocks = [j \in 1 .. Len(pes) |-> IF j \in Headers THEN pes[j].blocks ELSE 0]
  BY <1>1, Zenon DEF CountedBlocks, AllBlocks
<1>4. \A S : BlocksCounted(S) = SumAt(CountedBlocks, S) /\ Blocks(S) = SumAt(AllBlocks, S)
  BY DEF BlocksCounted, Blocks, CountedBlocks, AllBlocks
<1> DEFINE c(j) == IF j \in Headers THEN NumAudioBlocks(pes[j]) ELSE 0
           b(j) == IF j \in Headers THEN pes[j].blocks ELSE 0
<1>5. \A j \in 1 .. Len(pes) : c(j) \in Nat /\ b(j) \in Nat
  BY <1>2
<1>6. CountedBlocks = [j \in 1 .. Len(pes) |-> c(j)] /\ AllBlocks = [j \in 1 .. Len(pes) |-> b(j)]
  BY <1>3
<1>7. \A j \in Headers : j \in 1 .. Len(pes) /\ c(j) = NumAudioBlocks(pes[j]) /\ b(j) = pes[j].blocks
  BY <1>1, <1>2
<1> HIDE DEF c, b
<1>8. /\ CountedBlocks \in Seq(Nat) /\ Len(CountedBlocks) = Len(pes)
      /\ AllBlocks \in Seq(Nat) /\ Len(AllBlocks) = Len(pes)
  BY <1>1, <1>5, <1>6
<1>9. \A j \in Headers : CountedBlocks[j] = NumAudioBlocks(pes[j]) /\ AllBlocks[j] = pes[j].blocks
  BY <1>6, <1>7
<1>10. QED BY <1>4, <1>8, <1>9

LEMMA MaxIs ==
  ASSUME NEW S \in SUBSET Nat, NEW m \in S, \A k \in S : k <= m
  PROVE  Max(S) = m
<1>1. \A y \in S : m >= y
  OBVIOUS
<1>2. Max(S) \in S /\ \A y \in S : Max(S) >= y
  BY <1>1 DEF Max
<1> DEFINE x == Max(S)
<1> HIDE DEF x
<1>3. x \in Nat /\ m \in Nat /\ x <= m /\ x >= m
  <2>1. x \in S /\ x >= m
    BY <1>2 DEF x
  <2>2. QED BY <2>1
<1>4. x = m
  BY <1>3
<1>5. QED BY <1>4 DEF x

(* The syncframes of the first independent substream. *)
LEMMA FirstSlot ==
  ASSUME pes \in Seq(Item), NEW unit, unit \subseteq Headers
  PROVE  OfSubstream(unit, <<0, 0>>) = unit \cap FirstStream
<1>1. ASSUME NEW j \in unit PROVE Substream(unit, j) = <<0, 0>> <=> j \in FirstStream
  <2>1. j \in Headers /\ j \in Nat /\ pes[j].independent \in BOOLEAN /\ pes[j].id \in Nat
    BY HeaderFacts
  <2>2. CASE ~pes[j].independent
    <3>1. pes[j].id + 1 # 0  BY <2>1
    <3>2. Substream(unit, j)[2] = pes[j].id + 1  BY <2>2 DEF Substream
    <3>3. Substream(unit, j) # <<0, 0>>  BY <3>1, <3>2
    <3>4. QED BY <2>2, <3>3 DEF FirstStream
  <2>3. CASE pes[j].independent
    <3> DEFINE before == {k \in unit : k <= j /\ pes[k].independent}
    <3>1. before \in SUBSET Nat  BY HeaderFacts
    <3>2. j \in before /\ \A k \in before : k <= j  BY <2>1, <2>3
    <3>3. Max(before) = j
      <4> HIDE DEF before
      <4>1. QED BY <3>1, <3>2, MaxIs
    <3>4. Substream(unit, j) = <<pes[j].id, 0>>  BY <2>3, <3>3 DEF Substream
    <3>5. Substream(unit, j) = <<0, 0>> <=> pes[j].id = 0  BY <3>4
    <3>6. QED BY <2>1, <2>3, <3>5 DEF FirstStream
  <2>4. QED BY <2>1, <2>2, <2>3
<1>2. QED BY <1>1 DEF OfSubstream

(* One more syncframe. *)
LEMMA OneMoreSlot ==
  ASSUME pes \in Seq(Item), NEW unit, unit \subseteq Headers,
         NEW j \in Headers, \A k \in unit : k < j,
         NEW stream \in SubstreamIds,
         pes[j].independent => stream = pes[j].id,
         ~pes[j].independent => \E m \in unit : /\ pes[m].independent /\ pes[m].id = stream
                                                /\ \A k \in unit : pes[k].independent => k <= m,
         NEW slot
  PROVE  OfSubstream(unit \cup {j}, slot) =
           OfSubstream(unit, slot)
             \cup (IF slot = <<stream, IF pes[j].independent THEN 0 ELSE pes[j].id + 1>> THEN {j} ELSE {})
<1> DEFINE more == unit \cup {j}
<1>1. j \in Nat /\ pes[j].independent \in BOOLEAN /\ more \in SUBSET Nat /\ j \notin unit
      /\ \A k \in unit : k \in Nat /\ ~(j <= k) /\ k <= j
  BY HeaderFacts
<1>2. ASSUME NEW k \in unit PROVE Substream(more, k) = Substream(unit, k)
  <2>1. {m \in more : m <= k /\ pes[m].independent} = {m \in unit : m <= k /\ pes[m].independent}
    BY <1>1
  <2>2. QED BY <2>1, Zenon DEF Substream
<1>3. Substream(more, j) = <<stream, IF pes[j].independent THEN 0 ELSE pes[j].id + 1>>
  <2> DEFINE before == {k \in more : k <= j /\ pes[k].independent}
  <2>1. before \in SUBSET Nat  BY <1>1
  <2>2. pes[Max(before)].id = stream
    <3>1. CASE pes[j].independent
      <4>1. j \in before /\ \A k \in before : k <= j  BY <1>1, <3>1
      <4>2. Max(before) = j
        <5> HIDE DEF before
        <5>1. QED BY <2>1, <4>1, MaxIs
      <4>3. QED BY <3>1, <4>2
    <3>2. CASE ~pes[j].independent
      <4>1. PICK m \in unit : /\ pes[m].independent /\ pes[m].id = stream
                              /\ \A k \in unit : pes[k].independent => k <= m
        BY <3>2
      <4>2. m \in before /\ \A k \in before : k <= m  BY <1>1, <3>2, <4>1
      <4>3. Max(before) = m
        <5> HIDE DEF before
        <5>1. QED BY <2>1, <4>2, MaxIs
      <4>4. QED BY <4>1, <4>3
    <3>3. QED BY <3>1, <3>2
  <2>3. QED BY <2>2 DEF Substream
<1> HIDE DEF more
<1>4. QED BY <1>2, <1>3 DEF OfSubstream, more

LEMMA CountOfNothing ==
  ASSUME pes \in Seq(Item)
  PROVE  \A slot : CountOf({}, slot) = 0
<1> SUFFICES ASSUME NEW slot PROVE CountOf({}, slot) = 0
  OBVIOUS
<1>1. OfSubstream({}, slot) = {}
  BY DEF OfSubstream
<1>2. CountOf({}, slot) = SumAt(CountedBlocks, {})
  BY <1>1, BlocksFacts DEF CountOf
<1>3. QED BY <1>2, BlocksFacts, SumAtNothing

LEMMA NothingCounted ==
  ASSUME pes \in Seq(Item)
  PROVE  CountsAre({}, NoBlocks, -1)
<1>1. \A slot : CountOf({}, slot) = 0
  BY CountOfNothing
<1>2. \A i \in SubstreamIds, k \in 0 .. MaxSubstreamIds : NoBlocks[i][k] = 0
  BY DEF NoBlocks
<1>3. QED BY <1>1, <1>2 DEF CountsAre

(* A syncframe that is counted keeps the count right. *)
LEMMA FrameCounted ==
  ASSUME TypeOK, pes \in Seq(Item), NEW unit,
         CountsAre(unit, substreamsBlksFound, currentIndependentStream),
         NEW j \in Headers, \A k \in unit : k < j, ~CountsOutside(pes[j])
  PROVE  CountsAre(unit \cup {j}, Counted(pes[j]), StreamAfter(pes[j]))
<1> DEFINE t == substreamsBlksFound
           frame == pes[j]
           s == StreamAfter(frame)
           d == IF frame.independent THEN 0 ELSE frame.id + 1
           n == NumAudioBlocks(frame)
<1>1. /\ j \in Nat /\ frame.independent \in BOOLEAN /\ frame.id \in SubstreamIds /\ frame.id \in Nat
      /\ n \in Nat /\ j \in 1 .. Len(pes)
  <2>1. /\ j \in Nat /\ j >= 1 /\ j <= Len(pes)
        /\ frame.independent \in BOOLEAN /\ frame.id \in SubstreamIds /\ frame.id \in Nat /\ n \in Nat
    BY HeaderFacts
  <2>2. Len(pes) \in Nat  BY LenProperties
  <2>3. QED BY <2>1, <2>2
<1>2. s \in SubstreamIds
  BY <1>1 DEF StreamAfter, CountsOutside, TypeOK
<1>3. d \in 0 .. MaxSubstreamIds
  BY <1>1, EAC3Assumption DEF SubstreamIds
<1>4. unit \subseteq Headers /\ j \notin unit
  <2>1. unit \subseteq Headers  BY DEF CountsAre
  <2>2. ~(j < j)  BY <1>1
  <2>3. QED BY <2>1, <2>2
<1>5. frame.independent => s = frame.id
  BY DEF StreamAfter
<1>6. ~frame.independent => \E m \in unit : /\ pes[m].independent /\ pes[m].id = s
                                            /\ \A k \in unit : pes[k].independent => k <= m
  BY DEF StreamAfter, CountsOutside, CountsAre
<1>7. \A slot : OfSubstream(unit \cup {j}, slot) =
                  OfSubstream(unit, slot) \cup (IF slot = <<s, d>> THEN {j} ELSE {})
  <2> HIDE DEF s
  <2>1. QED BY <1>2, <1>4, <1>5, <1>6, OneMoreSlot
<1>8. ASSUME NEW slot
      PROVE  CountOf(unit \cup {j}, slot) = CountOf(unit, slot) + (IF slot = <<s, d>> THEN n ELSE 0)
  <2> DEFINE S == OfSubstream(unit, slot)
             q == CountedBlocks
  <2>1. /\ q \in Seq(Nat) /\ Len(q) = Len(pes) /\ q[j] = n
        /\ CountOf(unit, slot) = SumAt(q, S)
        /\ CountOf(unit \cup {j}, slot) = SumAt(q, OfSubstream(unit \cup {j}, slot))
    BY BlocksFacts DEF CountOf
  <2>2. j \notin S
    BY <1>4 DEF OfSubstream
  <2>3. CASE slot = <<s, d>>
    <3>1. OfSubstream(unit \cup {j}, slot) = S \cup {j}
      BY <1>7, <2>3
    <3>2. SumAt(q, S \cup {j}) = SumAt(q, S) + n
      <4> HIDE DEF q, S
      <4>1. QED BY <1>1, <2>1, <2>2, SumAtOneMore
    <3>3. QED BY <2>1, <2>3, <3>1, <3>2
  <2>4. CASE slot # <<s, d>>
    <3>1. OfSubstream(unit \cup {j}, slot) = S
      BY <1>7, <2>4
    <3>2. SumAt(q, S) \in Nat
      <4> HIDE DEF q, S
      <4>1. QED BY <2>1, SumAtIsNat
    <3> DEFINE x == SumAt(q, S)
    <3>3. CountOf(unit \cup {j}, slot) = x /\ CountOf(unit, slot) = x
      BY <2>1, <3>1
    <3> HIDE DEF x
    <3>4. x + 0 = x
      BY <3>2 DEF x
    <3>5. QED BY <2>4, <3>3, <3>4
  <2>5. QED BY <2>3, <2>4
<1>9. ASSUME NEW i \in SubstreamIds, NEW k \in 0 .. MaxSubstreamIds
      PROVE  Counted(frame)[i][k] = CountOf(unit \cup {j}, <<i, k>>)
  <2>1. t[i][k] = CountOf(unit, <<i, k>>)
    BY DEF CountsAre
  <2>2. t \in [SubstreamIds -> [0 .. MaxSubstreamIds -> Nat]]
    BY DEF TypeOK
  <2>3. Counted(frame) = [t EXCEPT ![s][d] = @ + n]
    BY DEF Counted
  <2>4. [t EXCEPT ![s][d] = @ + n][i][k] = IF i = s /\ k = d THEN t[i][k] + n ELSE t[i][k]
    <3> HIDE DEF t, s, d, n
    <3>1. QED BY <1>2, <1>3, <2>2
  <2>5. t[i][k] \in Nat
    <3> HIDE DEF t
    <3>1. QED BY <2>2
  <2>6. <<i, k>> = <<s, d>> <=> i = s /\ k = d
    OBVIOUS
  <2> DEFINE a == t[i][k]
             b == CountOf(unit \cup {j}, <<i, k>>)
             c == Counted(frame)[i][k]
  <2>7. /\ a \in Nat
        /\ b = a + (IF i = s /\ k = d THEN n ELSE 0)
        /\ c = IF i = s /\ k = d THEN a + n ELSE a
    BY <1>8, <2>1, <2>3, <2>4, <2>5, <2>6, Zenon
  <2> HIDE DEF a, b, c, s, d, n
  <2>8. c = b
    BY <2>7
  <2>9. QED BY <2>8 DEF b, c
<1>10. \E m \in unit \cup {j} : /\ pes[m].independent /\ pes[m].id = s
                                /\ \A k \in unit \cup {j} : pes[k].independent => k <= m
  <2>1. CASE frame.independent
    <3>1. \A k \in unit : k <= j
      BY <1>1, <1>4, HeaderFacts
    <3>2. j <= j
      BY <1>1
    <3>3. QED BY <1>5, <2>1, <3>1, <3>2
  <2>2. CASE ~frame.independent
    BY <1>6, <2>2
  <2>3. QED BY <2>1, <2>2
<1>11. QED BY <1>4, <1>9, <1>10 DEF CountsAre

(* The check at the end of an access unit compares its own syncframes. *)
LEMMA MatchedAgrees ==
  ASSUME NEW unit, NEW table, NEW stream, CountsAre(unit, table, stream), BlocksMatch(table)
  PROVE  Agrees(unit)
<1>1. /\ 0 \in SubstreamIds /\ 0 \in 0 .. MaxSubstreamIds
      /\ \A k \in SubstreamIds : k + 1 \in 0 .. MaxSubstreamIds /\ k \in Nat
      /\ \A i \in SubstreamIds : \A h \in 0 .. i : h \in SubstreamIds
      /\ \A i \in SubstreamIds : i \in 0 .. i
  BY EAC3Assumption DEF SubstreamIds
<1>2. \A i \in SubstreamIds, k \in 0 .. MaxSubstreamIds : CountOf(unit, <<i, k>>) = table[i][k]
  BY DEF CountsAre
<1> SUFFICES ASSUME NEW i \in SubstreamIds, \A h \in 0 .. i : CountOf(unit, <<h, 0>>) # 0
             PROVE  /\ CountOf(unit, <<i, 0>>) = CountOf(unit, <<0, 0>>)
                    /\ \A k \in SubstreamIds : CountOf(unit, <<i, k + 1>>) \in {0, CountOf(unit, <<0, 0>>)}
  BY DEF Agrees
<1>3. \A h \in 0 .. i : table[h][0] # 0
  BY <1>1, <1>2
<1>4. \A k \in 0 .. MaxSubstreamIds : table[i][k] \in {0, table[0][0]}
  BY <1>3 DEF BlocksMatch
<1>5. table[i][0] # 0
  BY <1>1, <1>3
<1>6. QED BY <1>1, <1>2, <1>4, <1>5

AllAgree(us) == \A m \in DOMAIN us : Agrees(Frames(us[m]))

LEMMA AgreeMeans == UnitsAgree <=> AllAgree(units)
BY DEF UnitsAgree, AllAgree, Agrees, CountOf

LEMMA AgreeMeansThen == (UnitsAgree <=> AllAgree(units))'
BY AgreeMeans, PTL

(* All of this is about the PES packet, which stays. *)
LEMMA SameCounts ==
  ASSUME UNCHANGED pes
  PROVE  /\ \A unit, slot : CountOf(unit, slot)' = CountOf(unit, slot)
         /\ \A unit, table, stream : CountsAre(unit, table, stream)' <=> CountsAre(unit, table, stream)
         /\ \A us : AllAgree(us)' <=> AllAgree(us)
<1>1. Headers' = Headers
  BY DEF Headers
<1>2. \A S : BlocksCounted(S)' = BlocksCounted(S)
  BY <1>1 DEF BlocksCounted
<1>3. \A unit, j : Substream(unit, j)' = Substream(unit, j)
  BY DEF Substream
<1>4. \A unit, slot : OfSubstream(unit, slot)' = OfSubstream(unit, slot)
  BY <1>3 DEF OfSubstream
<1>5. \A unit, slot : CountOf(unit, slot)' = CountOf(unit, slot)
  BY <1>2, <1>4 DEF CountOf
<1>6. \A unit, table, stream : CountsAre(unit, table, stream)' <=> CountsAre(unit, table, stream)
  BY <1>1, <1>5 DEF CountsAre
<1>7. \A unit : Agrees(unit)' <=> Agrees(unit)
  BY <1>5 DEF Agrees
<1>8. \A us : AllAgree(us)' <=> AllAgree(us)
  BY <1>7 DEF AllAgree
<1>9. QED BY <1>5, <1>6, <1>8

LEMMA CountOfNothingThen == (pes \in Seq(Item) => \A slot : CountOf({}, slot) = 0)'
<1>1. pes \in Seq(Item) => \A slot : CountOf({}, slot) = 0
  BY CountOfNothing
<1>2. QED BY <1>1, PTL

LEMMA NothingCountedThen == (pes \in Seq(Item) => CountsAre({}, NoBlocks, -1))'
<1>1. pes \in Seq(Item) => CountsAre({}, NoBlocks, -1)
  BY NothingCounted
<1>2. QED BY <1>1, PTL

LEMMA FramesAppend ==
  ASSUME NEW S, NEW s \in Seq(S), NEW e \in S
  PROVE  Frames(Append(s, e)) = Frames(s) \cup {e}
<1> DEFINE r == Append(s, e)
<1>1. /\ DOMAIN s = 1 .. Len(s) /\ DOMAIN r = 1 .. Len(s) + 1 /\ Len(s) \in Nat
      /\ \A i \in 1 .. Len(s) : r[i] = s[i]
      /\ r[Len(s) + 1] = e
  BY AppendProperties, LenProperties
<1> HIDE DEF r
<1>2. \A i \in DOMAIN r : i \in DOMAIN s \/ i = Len(s) + 1
  BY <1>1
<1>3. \A i \in DOMAIN s : i \in DOMAIN r
  BY <1>1
<1>4. Len(s) + 1 \in DOMAIN r
  BY <1>1
<1>5. Frames(r) \subseteq Frames(s) \cup {e}
  BY <1>1, <1>2 DEF Frames
<1>6. Frames(s) \subseteq Frames(r) /\ e \in Frames(r)
  BY <1>1, <1>3, <1>4 DEF Frames
<1>7. Frames(r) = Frames(s) \cup {e}
  BY <1>5, <1>6
<1>8. QED BY <1>7 DEF r

LEMMA FramesOfNone == Frames(<<>>) = {}
BY DEF Frames

LEMMA AppendAgrees ==
  ASSUME NEW us \in Seq(Seq(Nat)), NEW u \in Seq(Nat), AllAgree(us), Agrees(Frames(u))
  PROVE  AllAgree(Append(us, u))
<1> DEFINE more == Append(us, u)
<1>1. /\ DOMAIN us = 1 .. Len(us) /\ DOMAIN more = 1 .. Len(us) + 1 /\ Len(us) \in Nat
      /\ \A i \in 1 .. Len(us) : more[i] = us[i]
      /\ more[Len(us) + 1] = u
  BY AppendProperties, LenProperties
<1> HIDE DEF more
<1>2. ASSUME NEW m \in DOMAIN more PROVE Agrees(Frames(more[m]))
  <2>1. CASE m \in DOMAIN us
    BY <1>1, <2>1 DEF AllAgree
  <2>2. CASE m \notin DOMAIN us
    <3>1. m = Len(us) + 1  BY <1>1, <2>2
    <3>2. QED BY <1>1, <3>1
  <2>3. QED BY <2>1, <2>2
<1>3. QED BY <1>2 DEF AllAgree, more

-----------------------------------------------------------------------------
(* The kinds of steps once more. *)

(* A call begins. *)
LEMMA FreshCount ==
  ASSUME (pes \in Seq(Item))', NewCall, AllAgree(units)'
  PROVE  CountInv'
<1>1. au' = <<>> /\ substreamsBlksFound' = NoBlocks /\ currentIndependentStream' = -1
  BY DEF NewCall
<1>2. Frames(au)' = {}
  BY <1>1, FramesOfNone DEF Frames
<1>3. CountsAre({}, NoBlocks, -1)'
  BY NothingCountedThen
<1>4. CountsAre(Frames(au), substreamsBlksFound, currentIndependentStream)'
  <2>1. NoBlocks' = NoBlocks
    BY DEF NoBlocks
  <2>2. /\ ({} \subseteq Headers)'
        /\ \A i \in SubstreamIds, k \in 0 .. MaxSubstreamIds : (NoBlocks[i][k] = CountOf({}, <<i, k>>))'
    BY <1>3 DEF CountsAre
  <2>3. \A i \in SubstreamIds, k \in 0 .. MaxSubstreamIds :
          substreamsBlksFound'[i][k] = CountOf(Frames(au), <<i, k>>)'
    BY <1>1, <1>2, <2>1, <2>2 DEF CountOf, OfSubstream
  <2>4. QED BY <1>1, <1>2, <2>2, <2>3 DEF CountsAre
<1>5. UnitsAgree'
  BY AgreeMeansThen
<1>6. QED BY <1>4, <1>5 DEF CountInv

(* The syncframe at j is one that FindSyncWord stops at. *)
LEMMA NextFrame ==
  ASSUME IInv, CountInv, PESQueue # <<>>, NEW j \in FindSyncWord
  PROVE  /\ j \in Headers /\ j \in Nat /\ esBuffer.items[j] = pes[j]
         /\ \A k \in Frames(au) : k < j
<1>1. /\ j \in DOMAIN pes /\ j \in Nat /\ j > esBuffer.gone /\ pes[j] \in Syncframe
      /\ esBuffer.items[j] = pes[j] /\ esBuffer.gone \in Nat
  BY FoundFacts, BufferFacts DEF IInv
<1>2. j \in Headers
  BY <1>1 DEF Headers, IsHeader, Syncframe
<1>3. ASSUME NEW k \in DOMAIN au PROVE au[k] < j
  <2>1. au \in Seq(Nat) /\ Gone(au)
    BY DEF IInv, TypeOK, TakenIsGone
  <2>2. au[k] \in Nat
    BY <2>1, LenProperties
  <2>3. au[k] <= esBuffer.gone
    BY <2>1 DEF Gone
  <2>4. QED BY <1>1, <2>2, <2>3
<1>4. QED BY <1>1, <1>2, <1>3 DEF Frames

LEMMA TakenCounts ==
  ASSUME IInv, CountInv, PESQueue # <<>>, NEW j \in FindSyncWord, ~CountsOutside(pes[j])
  PROVE  CountsAre(Frames(Append(au, j)), Counted(pes[j]), StreamAfter(pes[j]))
<1>1. j \in Headers /\ j \in Nat /\ \A k \in Frames(au) : k < j
  BY NextFrame
<1>2. CountsAre(Frames(au) \cup {j}, Counted(pes[j]), StreamAfter(pes[j]))
  <2>1. /\ TypeOK /\ pes \in Seq(Item)
        /\ CountsAre(Frames(au), substreamsBlksFound, currentIndependentStream)
    BY DEF IInv, CountInv
  <2>2. QED BY <1>1, <2>1, FrameCounted, Zenon
<1>3. Frames(Append(au, j)) = Frames(au) \cup {j}
  <2>1. au \in Seq(Nat)
    BY DEF IInv, TypeOK
  <2>2. QED BY <1>1, <2>1, FramesAppend
<1>4. QED BY <1>2, <1>3

(* No access unit or one that agrees. *)
LEMMA ReturnAgrees ==
  ASSUME IInv, CountInv, UNCHANGED pes, NEW u \in Seq(Nat), Agrees(Frames(u)),
         units' = units \/ units' = Append(units, u)
  PROVE  AllAgree(units)'
<1>1. units \in Seq(Seq(Nat)) /\ AllAgree(units)
  BY AgreeMeans DEF IInv, TypeOK, CountInv
<1>2. AllAgree(Append(units, u))
  BY <1>1, AppendAgrees
<1>3. PICK us : us = units' /\ AllAgree(us)
  BY <1>1, <1>2
<1>4. AllAgree(us)'
  BY <1>3, SameCounts
<1>5. QED BY <1>3, <1>4 DEF AllAgree

LEMMA UnitsKept ==
  ASSUME CountInv, UNCHANGED <<pes, units>>
  PROVE  AllAgree(units)'
<1>1. AllAgree(units)
  BY AgreeMeans DEF CountInv
<1>2. PICK us : us = units
  OBVIOUS
<1>3. AllAgree(us)'
  BY <1>1, <1>2, SameCounts
<1>4. QED BY <1>2, <1>3 DEF AllAgree

LEMMA InitCount == Init => CountInv
<1> SUFFICES ASSUME Init PROVE CountInv
  OBVIOUS
<1>1. /\ pes = <<>> /\ units = <<>> /\ au = <<>>
      /\ substreamsBlksFound = NoBlocks /\ currentIndependentStream = -1
  BY DEF Init
<1>2. pes \in Seq(Item)
  BY <1>1
<1>3. Frames(au) = {}
  BY <1>1, FramesOfNone
<1>4. CountsAre(Frames(au), substreamsBlksFound, currentIndependentStream)
  BY <1>1, <1>2, <1>3, NothingCounted
<1>5. UnitsAgree
  BY <1>1 DEF UnitsAgree
<1>6. QED BY <1>2, <1>4, <1>5 DEF CountInv

LEMMA AddDataCount ==
  ASSUME IInv, CountInv, NEW data \in PESData, AddData(data)
  PROVE  CountInv'
<1>1. /\ au' = au /\ substreamsBlksFound' = substreamsBlksFound
      /\ currentIndependentStream' = currentIndependentStream
      /\ pes' = data /\ units' = <<>> /\ PESQueue = <<>>
  BY DEF AddData, locals, IInv, QueueDiscipline
<1>2. au = <<>>
  BY <1>1 DEF IInv, TakenIsGone
<1>3. Frames(au) = {} /\ Frames(au)' = {}
  BY <1>1, <1>2, FramesOfNone DEF Frames
<1>4. (pes \in Seq(Item))'
  BY <1>1, EAC3Assumption
<1>5. CountsAre({}, NoBlocks, -1)'
  BY <1>4, NothingCountedThen
<1>6. currentIndependentStream = -1
  BY <1>3 DEF CountInv, CountsAre
<1>7. /\ \A slot : CountOf({}, slot) = 0
      /\ \A slot : CountOf({}, slot)' = 0
  BY <1>4, CountOfNothing, CountOfNothingThen DEF CountInv
<1>8. CountsAre(Frames(au), substreamsBlksFound, currentIndependentStream)'
  <2>1. \A i \in SubstreamIds, k \in 0 .. MaxSubstreamIds : substreamsBlksFound[i][k] = 0
    BY <1>3, <1>7 DEF CountInv, CountsAre
  <2>2. \A i \in SubstreamIds, k \in 0 .. MaxSubstreamIds : CountOf(Frames(au), <<i, k>>)' = 0
    BY <1>3, <1>7 DEF CountOf, OfSubstream
  <2>3. ({} \subseteq Headers)'
    OBVIOUS
  <2>4. QED BY <1>1, <1>3, <1>6, <2>1, <2>2, <2>3 DEF CountsAre
<1>9. UnitsAgree'
  BY <1>1 DEF UnitsAgree
<1>10. QED BY <1>4, <1>8, <1>9 DEF CountInv

LEMMA TakeFrameCount ==
  ASSUME IInv, CountInv, UNCHANGED <<pes, strayWrite>>, PESQueue # <<>>,
         NEW j \in FindSyncWord, ~CountsOutside(esBuffer.items[j]), TakeFrame(j)
  PROVE  CountInv'
<1>1. j \in Headers /\ j \in Nat /\ esBuffer.items[j] = pes[j]
  BY NextFrame
<1>2. /\ au' = Append(au, j) /\ units' = units
      /\ substreamsBlksFound' = Counted(pes[j])
      /\ currentIndependentStream' = StreamAfter(pes[j])
  BY <1>1 DEF TakeFrame
<1>3. CountsAre(Frames(Append(au, j)), Counted(pes[j]), StreamAfter(pes[j]))
  BY <1>1, TakenCounts
<1>4. PICK u, t, s : /\ u = Frames(au') /\ t = substreamsBlksFound' /\ s = currentIndependentStream'
                     /\ CountsAre(u, t, s)
  BY <1>2, <1>3
<1>5. CountsAre(u, t, s)'
  BY <1>4, SameCounts
<1>6. u = Frames(au)'
  BY <1>4 DEF Frames
<1>7. CountsAre(Frames(au), substreamsBlksFound, currentIndependentStream)'
  BY <1>4, <1>5, <1>6 DEF CountsAre, CountOf, OfSubstream
<1>8. UnitsAgree'
  BY <1>2, UnitsKept, AgreeMeansThen
<1>9. QED BY <1>7, <1>8 DEF CountInv

LEMMA TakeLastFrameCount ==
  ASSUME IInv, CountInv, UNCHANGED <<pes, strayWrite>>, PESQueue # <<>>,
         NEW j \in FindSyncWord, ~CountsOutside(esBuffer.items[j]), TakeLastFrame(j)
  PROVE  CountInv'
<1>1. j \in Headers /\ j \in Nat /\ esBuffer.items[j] = pes[j]
  BY NextFrame
<1>2. CountsAre(Frames(Append(au, j)), Counted(pes[j]), StreamAfter(pes[j]))
  BY <1>1, TakenCounts
<1>3. AllAgree(units)'
  <2>1. CASE BlocksMatch(Counted(pes[j]))
    <3>1. Agrees(Frames(Append(au, j)))
      BY <1>2, <2>1, MatchedAgrees
    <3>2. Append(au, j) \in Seq(Nat)
      BY <1>1 DEF IInv, TypeOK
    <3>3. units' = Append(units, Append(au, j))
      BY <1>1, <2>1 DEF TakeLastFrame, ReturnUnit
    <3>4. QED BY <3>1, <3>2, <3>3, ReturnAgrees
  <2>2. CASE ~BlocksMatch(Counted(pes[j]))
    <3>1. units' = units
      BY <1>1, <2>2 DEF TakeLastFrame, ReturnNull
    <3>2. QED BY <3>1, UnitsKept
  <2>3. QED BY <2>1, <2>2
<1>4. QED BY <1>3, FreshCount DEF CountInv, TakeLastFrame

LEMMA EndUnitCount ==
  ASSUME IInv, CountInv, UNCHANGED <<pes, strayWrite>>, NEW j, EndUnit(j)
  PROVE  CountInv'
<1>1. CountsAre(Frames(au), substreamsBlksFound, currentIndependentStream)
  BY DEF CountInv
<1>2. AllAgree(units)'
  <2>1. CASE BlocksMatch(substreamsBlksFound)
    <3>1. Agrees(Frames(au))
      BY <1>1, <2>1, MatchedAgrees
    <3>2. au \in Seq(Nat)
      BY DEF IInv, TypeOK
    <3>3. units' = Append(units, au)
      BY <2>1 DEF EndUnit, ReturnUnit
    <3>4. QED BY <3>1, <3>2, <3>3, ReturnAgrees
  <2>2. CASE ~BlocksMatch(substreamsBlksFound)
    <3>1. units' = units
      BY <2>2 DEF EndUnit, ReturnNull
    <3>2. QED BY <3>1, UnitsKept
  <2>3. QED BY <2>1, <2>2
<1>3. QED BY <1>2, FreshCount DEF CountInv, EndUnit

LEMMA FailCount ==
  ASSUME IInv, CountInv, UNCHANGED <<pes, strayWrite>>, Fail
  PROVE  CountInv'
<1>1. AllAgree(units)'
  BY UnitsKept DEF Fail, ReturnNull
<1>2. QED BY <1>1, FreshCount DEF CountInv, Fail

LEMMA SameDataCount ==
  ASSUME CountInv, UNCHANGED <<pes, units, locals>>
  PROVE  CountInv'
<1>1. UNCHANGED <<au, substreamsBlksFound, currentIndependentStream>>
  BY DEF locals
<1>2. PICK u, t, s : /\ u = Frames(au) /\ t = substreamsBlksFound /\ s = currentIndependentStream
                     /\ CountsAre(u, t, s)
  BY DEF CountInv
<1>3. CountsAre(u, t, s)'
  BY <1>2, SameCounts
<1>4. u = Frames(au)'
  BY <1>1, <1>2 DEF Frames
<1>5. CountsAre(Frames(au), substreamsBlksFound, currentIndependentStream)'
  BY <1>1, <1>2, <1>3, <1>4 DEF CountsAre, CountOf, OfSubstream
<1>6. UnitsAgree'
  BY UnitsKept, AgreeMeansThen
<1>7. QED BY <1>5, <1>6 DEF CountInv

LEMMA DecodeCount ==
  ASSUME IInv, CountInv, DecodeFrame_PassThru
  PROVE  CountInv'
<1>1. pes' = pes
  BY DEF DecodeFrame_PassThru
<1>2. CASE NothingQueued
  BY <1>1, <1>2, SameDataCount DEF NothingQueued, ReturnNull
<1>3. CASE PESQueue # <<>> /\ Fail /\ UNCHANGED strayWrite
  BY <1>1, <1>3, FailCount
<1>4. CASE UNCHANGED <<PESQueue, draining, locals, units>>
  BY <1>1, <1>4, SameDataCount
<1>5. ASSUME PESQueue # <<>>, NEW j \in FindSyncWord, ~CountsOutside(esBuffer.items[j]),
             TakeFrame(j) \/ TakeLastFrame(j) \/ EndUnit(j), UNCHANGED strayWrite
      PROVE  CountInv'
  BY <1>1, <1>5, TakeFrameCount, TakeLastFrameCount, EndUnitCount
<1>6. QED BY <1>2, <1>3, <1>4, <1>5, Zenon DEF DecodeFrame_PassThru

LEMMA CountInvHolds == Spec => [](IInv /\ CountInv)
<1>1. Init => IInv /\ CountInv
  BY InitIInv, InitCount
<1>2. IInv /\ CountInv /\ [Next]_vars => (IInv /\ CountInv)'
  <2> SUFFICES ASSUME IInv, CountInv, [Next]_vars PROVE IInv' /\ CountInv'
    OBVIOUS
  <2>1. IInv'
    BY NextIInv
  <2>2. CASE DecodeFrame_PassThru
    BY <2>1, <2>2, DecodeCount
  <2>3. ASSUME NEW data \in PESData, AddData(data) PROVE CountInv'
    BY <2>3, AddDataCount
  <2>4. CASE UNCHANGED vars
    <3>1. UNCHANGED <<pes, units, locals>>
      BY <2>4 DEF vars
    <3>2. CountInv'
      BY <3>1, SameDataCount, Zenon
    <3>3. QED BY <2>1, <3>2
  <2>5. QED BY <2>1, <2>2, <2>3, <2>4 DEF Next
<1>3. QED BY <1>1, <1>2, PTL DEF Spec

(* An access unit gets out only when its own syncframes, and no others, make *)
(* its substreams agree about the number of blocks.                          *)
THEOREM UnitsAgreeHolds == Spec => []UnitsAgree
<1>1. CountInv => UnitsAgree
  BY DEF CountInv
<1>2. QED BY <1>1, CountInvHolds, PTL

-----------------------------------------------------------------------------
(* The access units at the front of a PES packet, as long as they are legal: *)
(* each was returned, or is the one being assembled, which began at t and    *)
(* has had every item since, or is still to come behind it.                  *)
Assembling(t) ==
  /\ t <= esBuffer.gone + 1
  /\ Frames(au) = t .. esBuffer.gone
  /\ t .. esBuffer.gone \subseteq UnitFrom(t)

Underway(s) ==
  /\ draining /\ PESQueue # <<>> /\ ~UsedUp(esBuffer.gone)
  /\ \E t \in Starts : t <= s /\ Assembling(t)

LegalInv ==
  1 \in Starts => \A s \in Starts : LegalUpTo(s) => Returned(s) \/ Underway(s)

LEMMA StartFacts ==
  ASSUME pes \in Seq(Item), NEW t \in Starts
  PROVE  /\ t \in FirstStream /\ t \in Headers /\ pes[t].independent /\ pes[t].id = 0
         /\ t \in Nat /\ t >= 1 /\ t <= Len(pes) /\ t \in DOMAIN pes /\ pes[t].kind # "stub"
         /\ t \in UnitFrom(t)
<1>1. t \in FirstStream
  BY DEF Starts
<1>2. t \in Headers /\ pes[t].independent /\ pes[t].id = 0
  BY <1>1 DEF FirstStream
<1>3. t \in Nat /\ t >= 1 /\ t <= Len(pes) /\ t \in DOMAIN pes
  BY <1>2, HeaderFacts
<1>4. pes[t].kind # "stub"
  BY <1>2 DEF Headers, IsHeader
<1>5. t \in UnitFrom(t)
  BY <1>3, <1>4 DEF UnitFrom
<1>6. QED BY <1>1, <1>2, <1>3, <1>4, <1>5

(* The blocks of a legal access unit. *)
LEMMA LegalFacts ==
  ASSUME pes \in Seq(Item), NEW t \in Starts, Legal(UnitFrom(t))
  PROVE  /\ UnitFrom(t) \subseteq Headers
         /\ \A slot : CountOf(UnitFrom(t), slot) \in {0, 6}
         /\ CountOf(UnitFrom(t), <<0, 0>>) = 6
<1> DEFINE U == UnitFrom(t)
           q == AllBlocks
           r == CountedBlocks
<1>1. \A j \in U : pes[j].kind = "whole" /\ ~pes[j].long
  BY DEF Legal
<1>2. U \subseteq Headers
  BY <1>1 DEF UnitFrom, Headers, IsHeader
<1>3. ASSUME NEW S, S \subseteq U PROVE BlocksCounted(S) = Blocks(S)
  <2>1. /\ q \in Seq(Nat) /\ r \in Seq(Nat) /\ Len(r) = Len(q)
        /\ BlocksCounted(S) = SumAt(r, S) /\ Blocks(S) = SumAt(q, S)
    BY BlocksFacts
  <2>2. \A i \in S : r[i] = q[i]
    BY <1>1, <1>2, <1>3, BlocksFacts DEF NumAudioBlocks
  <2> HIDE DEF q, r
  <2>3. SumAt(r, S) = SumAt(q, S)
    BY <2>1, <2>2, SumAtSame
  <2>4. QED BY <2>1, <2>3
<1>4. ASSUME NEW slot, NEW j \in OfSubstream(U, slot) PROVE CountOf(U, slot) = 6
  <2>1. j \in U /\ Substream(U, j) = slot /\ OfSubstream(U, slot) \subseteq U
    BY <1>4 DEF OfSubstream
  <2>2. Blocks(OfSubstream(U, slot)) = 6
    BY <2>1 DEF Legal, BlocksPerAU
  <2>3. QED BY <1>3, <2>1, <2>2 DEF CountOf
<1>5. ASSUME NEW slot, OfSubstream(U, slot) = {} PROVE CountOf(U, slot) = 0
  <2>1. CountOf(U, slot) = SumAt(r, {}) /\ r \in Seq(Nat)
    BY <1>5, BlocksFacts DEF CountOf
  <2> HIDE DEF r
  <2>2. QED BY <2>1, SumAtNothing
<1>6. t \in OfSubstream(U, <<0, 0>>)
  <2>1. OfSubstream(U, <<0, 0>>) = U \cap FirstStream
    BY <1>2, FirstSlot
  <2>2. QED BY <2>1, StartFacts
<1>7. QED BY <1>2, <1>4, <1>5, <1>6

LEMMA LegalMatches ==
  ASSUME pes \in Seq(Item), NEW t \in Starts, Legal(UnitFrom(t)),
         NEW table, NEW stream, CountsAre(UnitFrom(t), table, stream)
  PROVE  BlocksMatch(table)
<1>1. 0 \in SubstreamIds /\ 0 \in 0 .. MaxSubstreamIds
  BY EAC3Assumption DEF SubstreamIds
<1>2. \A i \in SubstreamIds, k \in 0 .. MaxSubstreamIds : table[i][k] = CountOf(UnitFrom(t), <<i, k>>)
  BY DEF CountsAre
<1>3. \A i \in SubstreamIds, k \in 0 .. MaxSubstreamIds : table[i][k] \in {0, 6}
  BY <1>2, LegalFacts
<1>4. table[0][0] = 6
  BY <1>1, <1>2, LegalFacts
<1>5. QED BY <1>3, <1>4 DEF BlocksMatch

(* While a syncframe of the first substream is still to come, the six blocks *)
(* are not complete.                                                         *)
LEMMA NotFull ==
  ASSUME pes \in Seq(Item), NEW t \in Starts, Legal(UnitFrom(t)),
         NEW V, V \subseteq UnitFrom(t), NEW n \in UnitFrom(t), n \notin V, n \in FirstStream
  PROVE  CountOf(V, <<0, 0>>) < 6
<1> DEFINE U == UnitFrom(t)
           S == V \cap FirstStream
           T == U \cap FirstStream
           r == CountedBlocks
<1>1. U \subseteq Headers /\ V \subseteq Headers
  BY LegalFacts
<1>2. OfSubstream(V, <<0, 0>>) = S /\ OfSubstream(U, <<0, 0>>) = T
  BY <1>1, FirstSlot
<1>3. /\ r \in Seq(Nat) /\ Len(r) = Len(pes) /\ r[n] = NumAudioBlocks(pes[n])
      /\ CountOf(V, <<0, 0>>) = SumAt(r, S) /\ SumAt(r, T) = 6
  <2>1. CountOf(V, <<0, 0>>) = SumAt(r, S)
    BY <1>2, BlocksFacts DEF CountOf
  <2>2. CountOf(U, <<0, 0>>) = SumAt(r, T)
    BY <1>2, BlocksFacts DEF CountOf
  <2>3. r \in Seq(Nat) /\ Len(r) = Len(pes) /\ r[n] = NumAudioBlocks(pes[n])
    BY <1>1, BlocksFacts
  <2>4. QED BY <2>1, <2>2, <2>3, LegalFacts
<1>4. n \in 1 .. Len(pes) /\ r[n] \in Nat /\ r[n] >= 1
  <2>1. n \in Headers  BY <1>1
  <2>2. n \in Nat /\ n >= 1 /\ n <= Len(pes) /\ Len(pes) \in Nat
    BY <2>1, HeaderFacts, LenProperties
  <2>3. pes[n].blocks \in Nat /\ pes[n].blocks >= 1
    BY <2>1, HeaderFacts
  <2>4. NumAudioBlocks(pes[n]) \in Nat /\ NumAudioBlocks(pes[n]) >= 1
    BY <2>3 DEF NumAudioBlocks
  <2>5. QED BY <1>3, <2>2, <2>4
<1>5. n \notin S /\ S \cup {n} \subseteq T
  OBVIOUS
<1> HIDE DEF S, T, r, U
<1>6. SumAt(r, S \cup {n}) = SumAt(r, S) + r[n]
  BY <1>3, <1>4, <1>5, SumAtOneMore
<1>7. SumAt(r, S \cup {n}) <= SumAt(r, T)
  BY <1>3, <1>5, SumAtMore
<1>8. SumAt(r, S) \in Nat
  BY <1>3, SumAtIsNat
<1> DEFINE a == SumAt(r, S)
           b == r[n]
<1>9. a \in Nat /\ b \in Nat /\ b >= 1 /\ a + b <= 6
  BY <1>3, <1>4, <1>6, <1>7, <1>8
<1> HIDE DEF a, b
<1>10. a < 6
  BY <1>9
<1>11. QED BY <1>3, <1>10 DEF a

(* The next item. *)
LEMMA NextItem ==
  ASSUME IInv, PESQueue # <<>>, ~UsedUp(esBuffer.gone)
  PROVE  /\ esBuffer.gone \in Nat /\ esBuffer.gone + 1 \in DOMAIN pes
         /\ esBuffer.gone + 1 \in Nat /\ esBuffer.gone + 1 <= Len(pes)
         /\ Len(pes) \in Nat /\ DOMAIN pes = 1 .. Len(pes)
         /\ pes[esBuffer.gone + 1].kind # "stub"
<1>1. /\ esBuffer.items = pes /\ esBuffer.gone \in Nat
      /\ pes \in Seq(Item) /\ pes \in PESData
  BY BufferFacts DEF IInv
<1>2. esBuffer.gone < Len(pes)
  BY DEF IInv, QueueDiscipline
<1>3. Len(pes) \in Nat /\ DOMAIN pes = 1 .. Len(pes)
  BY <1>1, LenProperties
<1>4. /\ esBuffer.gone + 1 \in DOMAIN pes
      /\ esBuffer.gone + 1 \in Nat /\ esBuffer.gone + 1 <= Len(pes)
  BY <1>1, <1>2, <1>3
<1>5. pes[esBuffer.gone + 1].kind # "stub"
  <2>1. SUFFICES ASSUME pes[esBuffer.gone + 1].kind = "stub" PROVE FALSE
    OBVIOUS
  <2>2. esBuffer.gone + 1 = Len(pes)
    BY <1>1, <1>4, <2>1, EAC3Assumption
  <2>3. QED BY <1>1, <2>1, <2>2 DEF UsedUp
<1>6. QED BY <1>1, <1>3, <1>4, <1>5

(* When a whole syncframe comes next, the call takes it or ends before it. *)
LEMMA NextIsTaken ==
  ASSUME IInv, DecodeFrame_PassThru, PESQueue # <<>>, NEW n, n = esBuffer.gone + 1,
         n \in DOMAIN pes, pes[n].kind = "whole", ~CountsOutside(pes[n])
  PROVE  /\ TakeFrame(n) \/ TakeLastFrame(n) \/ EndUnit(n)
         /\ n \in FindSyncWord /\ esBuffer.items[n] = pes[n]
<1>1. esBuffer.items = pes
  BY BufferFacts DEF IInv
<1>2. IsHeader(pes[n])
  BY DEF IsHeader
<1>3. FindSyncWord = {n} /\ ~NothingFound
  BY <1>1, <1>2 DEF FindSyncWord, NothingFound
<1>4. ~CutShort(n)
  BY <1>1 DEF CutShort
<1>5. PICK j \in FindSyncWord :
        IF CountsOutside(esBuffer.items[j])
        THEN strayWrite' = TRUE /\ UNCHANGED <<PESQueue, draining, locals, units>>
        ELSE /\ \/ TakeFrame(j)
                \/ TakeLastFrame(j)
                \/ EndUnit(j)
                \/ CutShort(j) /\ Fail
             /\ UNCHANGED strayWrite
  <2>1. ~NothingQueued
    BY DEF NothingQueued
  <2>2. QED BY <1>3, <2>1, Zenon DEF DecodeFrame_PassThru
<1>6. j = n
  BY <1>3, <1>5
<1>7. QED BY <1>1, <1>3, <1>4, <1>5, <1>6, Zenon

LEMMA SameUnits ==
  ASSUME UNCHANGED pes
  PROVE  /\ Starts' = Starts
         /\ \A s : UnitFrom(s)' = UnitFrom(s)
         /\ \A s : LegalUpTo(s)' <=> LegalUpTo(s)
<1>1. FirstStream' = FirstStream /\ Headers' = Headers
  BY DEF FirstStream, Headers
<1>2. \A S : Blocks(S)' = Blocks(S)
  BY <1>1 DEF Blocks
<1>3. Starts' = Starts
  BY <1>1, <1>2 DEF Starts
<1>4. \A s : UnitFrom(s)' = UnitFrom(s)
  BY <1>3 DEF UnitFrom
<1>5. \A unit, j : Substream(unit, j)' = Substream(unit, j)
  BY DEF Substream
<1>6. \A unit, slot : OfSubstream(unit, slot)' = OfSubstream(unit, slot)
  BY <1>5 DEF OfSubstream
<1>7. \A unit : Legal(unit)' <=> Legal(unit)
  BY <1>2, <1>5, <1>6 DEF Legal
<1>8. \A s : LegalUpTo(s)' <=> LegalUpTo(s)
  <2>1. \A t : Legal(UnitFrom(t))' <=> Legal(UnitFrom(t))
    <3> SUFFICES ASSUME NEW t PROVE Legal(UnitFrom(t))' <=> Legal(UnitFrom(t))
      OBVIOUS
    <3>1. PICK U : U = UnitFrom(t)
      OBVIOUS
    <3>2. U = UnitFrom(t)'
      BY <1>4, <3>1
    <3>3. Legal(UnitFrom(t))' <=> Legal(U)'
      BY <3>2 DEF Legal, OfSubstream, Substream
    <3>4. QED BY <1>7, <3>1, <3>3
  <2>2. QED BY <1>3, <2>1 DEF LegalUpTo
<1>9. QED BY <1>3, <1>4, <1>8

(* What was returned stays returned. *)
LEMMA ReturnedStays ==
  ASSUME IInv, UNCHANGED pes, NEW s, Returned(s),
         units' = units \/ \E u : units' = Append(units, u)
  PROVE  Returned(s)'
<1>1. PICK m \in DOMAIN units : Frames(units[m]) = UnitFrom(s)
  BY DEF Returned
<1>2. m \in DOMAIN units' /\ units'[m] = units[m]
  <2>1. units \in Seq(Seq(Nat))
    BY DEF IInv, TypeOK
  <2>2. CASE units' = units
    BY <2>2
  <2>3. ASSUME NEW u, units' = Append(units, u) PROVE m \in DOMAIN units' /\ units'[m] = units[m]
    BY <2>1, <2>3
  <2>4. QED BY <2>2, <2>3
<1>3. Frames(units[m])' = UnitFrom(s)'
  BY <1>1, <1>2, SameUnits DEF Frames
<1>4. QED BY <1>2, <1>3 DEF Returned

LEMMA ReturnedNow ==
  ASSUME IInv, UNCHANGED pes, NEW s, NEW u \in Seq(Nat),
         units' = Append(units, u), Frames(u) = UnitFrom(s)
  PROVE  Returned(s)'
<1>1. units \in Seq(Seq(Nat))
  BY DEF IInv, TypeOK
<1>2. Len(units) + 1 \in DOMAIN units' /\ units'[Len(units) + 1] = u
  BY <1>1
<1>3. PICK m \in DOMAIN units' : units'[m] = u
  BY <1>2
<1>4. Frames(units[m])' = UnitFrom(s)'
  BY <1>3, SameUnits DEF Frames
<1>5. QED BY <1>3, <1>4 DEF Returned

(* The items of the access unit being assembled, and the next one. *)
LEMMA AssemblingFacts ==
  ASSUME IInv, CountInv, PESQueue # <<>>, ~UsedUp(esBuffer.gone),
         NEW t \in Starts, Assembling(t), NEW n, n = esBuffer.gone + 1
  PROVE  /\ t \in Nat /\ n \in Nat /\ t <= n /\ n - 1 = esBuffer.gone
         /\ Frames(au) = t .. n - 1 /\ t .. n - 1 \subseteq UnitFrom(t)
         /\ n \notin t .. n - 1 /\ n <= Len(pes) /\ n \in DOMAIN pes /\ pes[n].kind # "stub"
BY NextItem, StartFacts DEF Assembling, CountInv

(* The next item belongs to it. *)
LEMMA StepWithin ==
  ASSUME IInv, CountInv, DecodeFrame_PassThru, draining, PESQueue # <<>>, ~UsedUp(esBuffer.gone),
         NEW s \in Starts, NEW t \in Starts, t <= s, LegalUpTo(s), Assembling(t),
         esBuffer.gone + 1 \in UnitFrom(t)
  PROVE  Returned(s)' \/ Underway(s)'
<1> DEFINE U == UnitFrom(t)
<1>1. PICK n : n = esBuffer.gone + 1
  OBVIOUS
<1>2. /\ pes \in Seq(Item) /\ pes' = pes /\ n \in U /\ Legal(U)
      /\ CountsAre(Frames(au), substreamsBlksFound, currentIndependentStream)
  BY <1>1 DEF CountInv, DecodeFrame_PassThru, LegalUpTo
<1>3. /\ t \in Nat /\ n \in Nat /\ t <= n /\ n - 1 = esBuffer.gone
      /\ Frames(au) = t .. n - 1 /\ t .. n - 1 \subseteq U
      /\ n \notin t .. n - 1 /\ n <= Len(pes) /\ n \in DOMAIN pes
  BY <1>1, AssemblingFacts
<1>4. n \in Headers /\ pes[n].kind = "whole" /\ pes[n].independent \in BOOLEAN
  BY <1>2, LegalFacts, HeaderFacts DEF Legal
<1>5. ~CountsOutside(pes[n])
  <2>1. SUFFICES ASSUME ~pes[n].independent PROVE currentIndependentStream # -1
    BY DEF CountsOutside
  <2>2. n # t
    BY <1>2, <2>1, StartFacts
  <2>3. t \in Frames(au)
    BY <1>3, <2>2
  <2>4. PICK m \in Frames(au) : pes[m].id = currentIndependentStream
    BY <1>2, <2>3 DEF CountsAre
  <2>5. m \in Headers
    BY <1>2, <2>4 DEF CountsAre
  <2>6. pes[m].id \in Nat
    BY <1>2, <2>5, HeaderFacts
  <2>7. QED BY <2>4, <2>6
<1>6. ~StartsNextAU(pes[n])
  <2>1. SUFFICES ASSUME pes[n].independent, pes[n].id = 0 PROVE ~(substreamsBlksFound[0][0] >= 6)
    BY DEF StartsNextAU, BlocksPerAU
  <2>2. n \in FirstStream
    BY <1>4, <2>1 DEF FirstStream
  <2>3. CountOf(Frames(au), <<0, 0>>) < 6
    BY <1>2, <1>3, <2>2, NotFull
  <2>4. 0 \in SubstreamIds /\ 0 \in 0 .. MaxSubstreamIds
    BY EAC3Assumption DEF SubstreamIds
  <2>5. substreamsBlksFound[0][0] = CountOf(Frames(au), <<0, 0>>)
    BY <1>2, <2>4 DEF CountsAre
  <2>6. substreamsBlksFound[0][0] \in Nat
    BY <2>4 DEF IInv, TypeOK
  <2>7. QED BY <2>3, <2>5, <2>6
<1>7. /\ TakeFrame(n) \/ TakeLastFrame(n)
      /\ n \in FindSyncWord /\ esBuffer.items[n] = pes[n]
  BY <1>1, <1>3, <1>4, <1>5, <1>6, NextIsTaken DEF EndUnit
<1>8. /\ au \in Seq(Nat) /\ Append(au, n) \in Seq(Nat)
      /\ Frames(Append(au, n)) = (t .. n - 1) \cup {n}
  <2>1. au \in Seq(Nat) /\ Append(au, n) \in Seq(Nat)
    BY <1>3 DEF IInv, TypeOK
  <2>2. Frames(Append(au, n)) = Frames(au) \cup {n}
    BY <1>3, <2>1, FramesAppend
  <2>3. QED BY <1>3, <2>1, <2>2
<1>9. (t .. n - 1) \cup {n} = t .. n
  BY <1>3
<1>10. CASE TakeFrame(n)
  <2>1. /\ RemoveItems(n) /\ ~UsedUp(n) /\ au' = Append(au, n) /\ draining' = draining
    BY <1>10 DEF TakeFrame
  <2>2. n < Len(pes)
    <3>1. n # Len(pes)
      BY <2>1, BufferFacts DEF UsedUp, IInv
    <3>2. Len(pes) \in Nat
      BY <1>2, LenProperties
    <3>3. QED BY <1>3, <3>1, <3>2
  <2>3. PESQueue' # <<>> /\ esBuffer'.gone = n /\ QueueDiscipline'
    BY <1>2, <1>3, <2>1, <2>2, RemoveFacts
  <2>4. ~UsedUp(esBuffer.gone)'
    <3>1. esBuffer.items = pes /\ esBuffer'.items = pes
      BY <1>2, <2>3, BufferFacts DEF IInv, QueueDiscipline
    <3>2. QED BY <2>1, <2>3, <3>1 DEF UsedUp
  <2>5. Assembling(t)'
    <3>1. Frames(au)' = t .. n
      BY <1>8, <1>9, <2>1 DEF Frames
    <3>2. t .. n \subseteq UnitFrom(t)'
      BY <1>2, <1>3, <1>9, SameUnits
    <3>3. t <= n + 1
      BY <1>3
    <3>4. QED BY <2>3, <3>1, <3>2, <3>3 DEF Assembling
  <2>6. t \in Starts'
    BY <1>2, SameUnits
  <2>7. QED BY <2>1, <2>3, <2>4, <2>5, <2>6 DEF Underway
<1>11. CASE TakeLastFrame(n)
  <2>1. UsedUp(n)
    BY <1>11 DEF TakeLastFrame
  <2>2. n = Len(pes) \/ (n + 1 = Len(pes) /\ pes[n + 1].kind = "stub")
    BY <2>1, BufferFacts DEF UsedUp, IInv
  <2>3. \A j \in DOMAIN pes : j \in Nat /\ (pes[j].kind # "stub" => j <= n)
    <3>1. DOMAIN pes = 1 .. Len(pes) /\ Len(pes) \in Nat
      BY <1>2, LenProperties
    <3>2. ASSUME NEW j \in DOMAIN pes, pes[j].kind # "stub" PROVE j <= n
      <4>1. j \in Nat /\ j <= Len(pes)
        BY <3>1
      <4>2. CASE n = Len(pes)
        BY <4>1, <4>2
      <4>3. CASE n + 1 = Len(pes) /\ pes[n + 1].kind = "stub"
        <5>1. j # n + 1
          BY <3>2, <4>3
        <5>2. QED BY <1>3, <4>1, <4>3, <5>1
      <4>4. QED BY <2>2, <4>2, <4>3
    <3>3. QED BY <3>1, <3>2
  <2>4. U = t .. n
    <3>1. ASSUME NEW j \in U PROVE j \in t .. n
      <4>1. j \in DOMAIN pes /\ j >= t /\ pes[j].kind # "stub"
        BY DEF UnitFrom
      <4>2. j \in Nat /\ j <= n
        BY <2>3, <4>1
      <4>3. QED BY <1>3, <4>1, <4>2
    <3>2. t .. n \subseteq U
      BY <1>2, <1>3, <1>9
    <3>3. QED BY <3>1, <3>2
  <2>5. s = t
    <3>1. SUFFICES ASSUME s # t PROVE FALSE
      OBVIOUS
    <3>2. s \in Nat /\ s \in DOMAIN pes /\ pes[s].kind # "stub"
      BY <1>2, StartFacts
    <3>3. s > t
      BY <1>3, <3>1, <3>2
    <3>4. n < s
      BY <1>2, <3>3 DEF UnitFrom
    <3>5. s <= n
      BY <2>3, <3>2
    <3>6. QED BY <1>3, <3>2, <3>4, <3>5
  <2>6. Frames(Append(au, n)) = U
    BY <1>8, <1>9, <2>4
  <2>7. CountsAre(U, Counted(pes[n]), StreamAfter(pes[n]))
    BY <1>5, <1>7, <2>6, TakenCounts
  <2>8. BlocksMatch(Counted(pes[n]))
    BY <1>2, <2>7, LegalMatches
  <2>9. units' = Append(units, Append(au, n))
    BY <1>7, <1>11, <2>8 DEF TakeLastFrame, ReturnUnit
  <2>10. QED BY <1>2, <1>8, <2>5, <2>6, <2>9, ReturnedNow
<1>12. QED BY <1>7, <1>10, <1>11

(* The next item begins the next access unit. *)
LEMMA StepBetween ==
  ASSUME IInv, CountInv, DecodeFrame_PassThru, draining, PESQueue # <<>>, ~UsedUp(esBuffer.gone),
         NEW s \in Starts, NEW t \in Starts, t <= s, LegalUpTo(s), Assembling(t),
         esBuffer.gone + 1 \notin UnitFrom(t)
  PROVE  Returned(s)' \/ Underway(s)'
<1> DEFINE U == UnitFrom(t)
<1>1. PICK n : n = esBuffer.gone + 1
  OBVIOUS
<1>2. /\ pes \in Seq(Item) /\ pes' = pes /\ n \notin U /\ Legal(U)
      /\ CountsAre(Frames(au), substreamsBlksFound, currentIndependentStream)
  BY <1>1 DEF CountInv, DecodeFrame_PassThru, LegalUpTo
<1>3. /\ t \in Nat /\ n \in Nat /\ t <= n /\ n - 1 = esBuffer.gone
      /\ Frames(au) = t .. n - 1 /\ t .. n - 1 \subseteq U
      /\ n \notin t .. n - 1 /\ n <= Len(pes) /\ n \in DOMAIN pes /\ pes[n].kind # "stub"
  BY <1>1, AssemblingFacts
<1>4. n \in Starts /\ n > t
  <2>1. PICK u \in Starts : u > t /\ ~(n < u)
    BY <1>2, <1>3 DEF UnitFrom
  <2>2. u \in Nat
    BY <1>2, StartFacts
  <2>3. u \notin t .. n - 1
    <3>1. u \notin U
      BY <2>1, <2>2 DEF UnitFrom
    <3>2. QED BY <1>3, <3>1
  <2>4. u = n
    BY <1>3, <2>1, <2>2, <2>3
  <2>5. QED BY <2>1, <2>4
<1>5. U = t .. n - 1
  <2>1. ASSUME NEW j \in U PROVE j \in t .. n - 1
    <3>1. j \in DOMAIN pes /\ j >= t /\ j < n
      BY <1>4 DEF UnitFrom
    <3>2. j \in Nat
      BY <1>2, <3>1, LenProperties
    <3>3. QED BY <1>3, <3>1, <3>2
  <2>2. QED BY <1>3, <2>1
<1>6. n \in Headers /\ pes[n].independent /\ pes[n].id = 0 /\ n >= 1
  BY <1>2, <1>4, StartFacts
<1>7. ~CountsOutside(pes[n])
  BY <1>6 DEF CountsOutside
<1>8. CountsAre(U, substreamsBlksFound, currentIndependentStream)
  BY <1>2, <1>3, <1>5
<1>9. StartsNextAU(pes[n])
  <2>1. 0 \in SubstreamIds /\ 0 \in 0 .. MaxSubstreamIds
    BY EAC3Assumption DEF SubstreamIds
  <2>2. substreamsBlksFound[0][0] = 6
    BY <1>2, <1>8, <2>1, LegalFacts DEF CountsAre
  <2>3. QED BY <1>6, <2>2 DEF StartsNextAU, BlocksPerAU
<1>10. EndUnit(n) /\ esBuffer.items = pes
  <2>1. esBuffer.items = pes
    BY BufferFacts DEF IInv
  <2>2. FindSyncWord = {n} /\ ~NothingFound
    BY <1>1, <1>3, <1>6, <2>1 DEF FindSyncWord, NothingFound, Headers
  <2>3. ~TakeFrame(n) /\ ~TakeLastFrame(n) /\ ~CutShort(n) /\ ~CountsOutside(esBuffer.items[n])
    BY <1>7, <1>9, <2>1 DEF TakeFrame, TakeLastFrame, CutShort
  <2>4. ~NothingQueued
    BY DEF NothingQueued
  <2>5. QED BY <2>1, <2>2, <2>3, <2>4 DEF DecodeFrame_PassThru
<1>11. BlocksMatch(substreamsBlksFound)
  BY <1>2, <1>8, LegalMatches
<1>12. RemoveItems(n - 1) /\ units' = Append(units, au) /\ draining' = draining /\ au' = <<>>
  BY <1>10, <1>11 DEF EndUnit, ReturnUnit, NewCall
<1>13. CASE s = t
  <2>1. au \in Seq(Nat)
    BY DEF IInv, TypeOK
  <2>2. Frames(au) = UnitFrom(s)
    BY <1>3, <1>5, <1>13
  <2>3. QED BY <1>2, <1>12, <2>1, <2>2, ReturnedNow
<1>14. CASE s # t
  <2>1. n <= s
    <3>1. s \in Nat
      BY <1>2, StartFacts
    <3>2. s > t
      BY <1>3, <1>14, <3>1
    <3>3. s \notin U
      BY <3>1, <3>2 DEF UnitFrom
    <3>4. QED BY <1>3, <1>5, <3>1, <3>2, <3>3
  <2>2. n - 1 \in Nat /\ n - 1 < Len(pes)
    BY <1>2, <1>3, <1>6, LenProperties
  <2>3. PESQueue' # <<>> /\ esBuffer'.gone = n - 1 /\ QueueDiscipline'
    BY <1>2, <1>12, <2>2, RemoveFacts
  <2>4. ~UsedUp(esBuffer.gone)'
    <3>1. esBuffer'.items = pes
      BY <1>2, <2>3 DEF QueueDiscipline
    <3>2. ~UsedUp(n - 1)
      BY <1>3
    <3>3. QED BY <1>10, <2>3, <3>1, <3>2 DEF UsedUp
  <2>5. Assembling(n)'
    <3>1. n .. n - 1 = {}
      BY <1>3
    <3>2. Frames(au)' = {}
      BY <1>12, FramesOfNone DEF Frames
    <3>3. n <= (n - 1) + 1
      BY <1>3
    <3>4. QED BY <2>3, <3>1, <3>2, <3>3 DEF Assembling
  <2>6. n \in Starts'
    BY <1>2, <1>4, SameUnits
  <2>7. QED BY <1>12, <2>1, <2>3, <2>4, <2>5, <2>6 DEF Underway
<1>15. QED BY <1>13, <1>14

LEMMA AddDataLegal ==
  ASSUME IInv, CountInv, CountInv', NEW data \in PESData, AddData(data)
  PROVE  LegalInv'
<1>1. PESQueue = <<>> /\ au = <<>>
  BY DEF IInv, AddData, QueueDiscipline, TakenIsGone
<1>2. /\ PESQueue' = <<[items |-> data, gone |-> 0]>>
      /\ draining' = TRUE /\ pes' = data /\ au' = <<>>
  BY <1>1 DEF AddData, locals
<1>3. esBuffer'.items = data /\ esBuffer'.gone = 0 /\ PESQueue' # <<>>
  BY <1>2 DEF esBuffer
<1> SUFFICES ASSUME 1 \in Starts', NEW s \in Starts' PROVE Underway(s)'
  BY DEF LegalInv
<1>4. data \in Seq(Item) /\ data # <<>> /\ Len(data) \in Nat /\ DOMAIN data = 1 .. Len(data)
  BY EAC3Assumption, LenProperties
<1>5. \A t \in Starts' : t \in DOMAIN data /\ data[t].kind # "stub"
  BY <1>2 DEF Starts, FirstStream, Headers, IsHeader
<1>6. ~UsedUp(esBuffer.gone)'
  <2>1. Len(data) # 0
    BY <1>4, EmptySeq
  <2>2. data[1].kind # "stub"
    BY <1>5
  <2>3. QED BY <1>3, <2>1, <2>2 DEF UsedUp
<1>7. Assembling(1)'
  <2>1. 1 .. 0 = {} /\ 1 <= 0 + 1
    OBVIOUS
  <2>2. Frames(au)' = {}
    BY <1>2, FramesOfNone DEF Frames
  <2>3. QED BY <1>3, <2>1, <2>2 DEF Assembling
<1>8. 1 <= s
  <2>1. s \in 1 .. Len(data)
    BY <1>4, <1>5
  <2>2. QED BY <1>4, <2>1
<1>9. QED BY <1>2, <1>3, <1>6, <1>7, <1>8 DEF Underway

LEMMA DecodeLegal ==
  ASSUME IInv, CountInv, LegalInv, DecodeFrame_PassThru
  PROVE  LegalInv'
<1>1. pes' = pes /\ draining
  BY DEF DecodeFrame_PassThru
<1> SUFFICES ASSUME 1 \in Starts', NEW s \in Starts', LegalUpTo(s)'
             PROVE  Returned(s)' \/ Underway(s)'
  BY DEF LegalInv
<1>2. 1 \in Starts /\ s \in Starts /\ LegalUpTo(s)
  BY <1>1, SameUnits
<1>3. CASE Returned(s)
  <2>1. units' = units \/ \E u : units' = Append(units, u)
    BY DEF DecodeFrame_PassThru, NothingQueued, Fail, TakeFrame, TakeLastFrame, EndUnit,
           ReturnNull, ReturnUnit
  <2>2. QED BY <1>1, <1>3, <2>1, ReturnedStays
<1>4. CASE Underway(s)
  <2>1. PICK t \in Starts : t <= s /\ Assembling(t)
    BY <1>4 DEF Underway
  <2>2. PESQueue # <<>> /\ ~UsedUp(esBuffer.gone)
    BY <1>4 DEF Underway
  <2>3. QED BY <1>1, <1>2, <2>1, <2>2, StepWithin, StepBetween
<1>5. QED BY <1>2, <1>3, <1>4 DEF LegalInv

LEMMA StutterLegal ==
  ASSUME LegalInv, UNCHANGED vars
  PROVE  LegalInv'
<1>1. pes' = pes /\ units' = units /\ draining' = draining /\ PESQueue' = PESQueue /\ au' = au
  BY DEF vars, locals
<1> SUFFICES ASSUME 1 \in Starts', NEW s \in Starts', LegalUpTo(s)'
             PROVE  Returned(s)' \/ Underway(s)'
  BY DEF LegalInv
<1>2. 1 \in Starts /\ s \in Starts /\ LegalUpTo(s)
  BY <1>1, SameUnits
<1>3. Returned(s) \/ Underway(s)
  BY <1>2 DEF LegalInv
<1>4. Returned(s) => Returned(s)'
  BY <1>1, SameUnits DEF Returned, Frames
<1>5. Underway(s) => Underway(s)'
  <2>1. \A t : Assembling(t)' <=> Assembling(t)
    BY <1>1, SameUnits DEF Assembling, Frames, esBuffer
  <2>2. QED BY <1>1, <2>1, SameUnits DEF Underway, UsedUp, esBuffer
<1>6. QED BY <1>3, <1>4, <1>5

LEMMA LegalInvHolds == Spec => []LegalInv
<1>1. Init => LegalInv
  BY DEF Init, LegalInv, Starts, FirstStream, Headers
<1>2. (IInv /\ CountInv) /\ (IInv /\ CountInv)' /\ LegalInv /\ [Next]_vars => LegalInv'
  <2> SUFFICES ASSUME IInv, CountInv, CountInv', LegalInv, [Next]_vars PROVE LegalInv'
    OBVIOUS
  <2>1. CASE DecodeFrame_PassThru
    BY <2>1, DecodeLegal
  <2>2. ASSUME NEW data \in PESData, AddData(data) PROVE LegalInv'
    BY <2>2, AddDataLegal
  <2>3. CASE UNCHANGED vars
    BY <2>3, StutterLegal
  <2>4. QED BY <2>1, <2>2, <2>3 DEF Next
<1>3. QED BY <1>1, <1>2, CountInvHolds, PTL DEF Spec

(* What stands before junk at the end is never returned: the access unit it  *)
(* goes to ends only with the data.                                          *)
BeforeRest(unit) == \A k \in DOMAIN unit : unit[k] < Len(pes) - 1

RestInv == JunkAtEnd => \A m \in DOMAIN units : BeforeRest(units[m])

LEMMA UnitBeforeRest ==
  ASSUME IInv, JunkAtEnd, PESQueue # <<>>, NEW j \in FindSyncWord
  PROVE  BeforeRest(au) /\ ~UsedUp(j)
<1>1. /\ j \in Nat /\ j > esBuffer.gone /\ j <= Len(pes) /\ pes[j] \in Syncframe
      /\ esBuffer.items = pes /\ esBuffer.gone \in Nat /\ Len(pes) \in Nat
  BY FoundFacts, BufferFacts, LenProperties DEF IInv
<1>2. pes[Len(pes)].kind = "junk"
  BY DEF JunkAtEnd
<1>3. j < Len(pes)
  <2>1. j # Len(pes)
    BY <1>1, <1>2 DEF Syncframe
  <2>2. QED BY <1>1, <2>1
<1>4. ~UsedUp(j)
  BY <1>1, <1>2, <1>3 DEF UsedUp
<1>5. ASSUME NEW k \in DOMAIN au PROVE au[k] < Len(pes) - 1
  <2>1. au \in Seq(Nat) /\ Gone(au)
    BY DEF IInv, TypeOK, TakenIsGone
  <2>2. au[k] \in Nat /\ au[k] <= esBuffer.gone
    BY <2>1, LenProperties DEF Gone
  <2>3. QED BY <1>1, <1>3, <2>2
<1>6. QED BY <1>4, <1>5 DEF BeforeRest

LEMMA AppendBeforeRest ==
  ASSUME IInv, RestInv, JunkAtEnd, UNCHANGED pes, BeforeRest(au), units' = Append(units, au)
  PROVE  RestInv'
<1>1. units \in Seq(Seq(Nat)) /\ au \in Seq(Nat)
  BY DEF IInv, TypeOK
<1>2. /\ DOMAIN units = 1 .. Len(units) /\ Len(units) \in Nat
      /\ DOMAIN units' = 1 .. Len(units) + 1
      /\ units'[Len(units) + 1] = au
      /\ \A m \in 1 .. Len(units) : units'[m] = units[m]
  BY <1>1, AppendProperties, LenProperties
<1>3. ASSUME NEW m \in DOMAIN units' PROVE BeforeRest(units'[m])
  BY <1>2 DEF RestInv
<1>4. ASSUME NEW m \in DOMAIN units', NEW k \in DOMAIN units'[m]
      PROVE  units'[m][k] < Len(pes') - 1
  BY <1>3, <1>4 DEF BeforeRest
<1>5. QED BY <1>4 DEF RestInv, BeforeRest

LEMMA DecodeRest ==
  ASSUME IInv, RestInv, DecodeFrame_PassThru
  PROVE  RestInv'
<1>1. pes' = pes
  BY DEF DecodeFrame_PassThru
<1>2. CASE units' = units
  BY <1>1, <1>2 DEF RestInv, JunkAtEnd, BeforeRest
<1>3. CASE units' # units /\ JunkAtEnd
  <2>1. PICK j \in FindSyncWord : PESQueue # <<>> /\ (TakeLastFrame(j) \/ EndUnit(j))
    BY <1>3 DEF DecodeFrame_PassThru, NothingQueued, Fail, ReturnNull, TakeFrame
  <2>2. BeforeRest(au) /\ ~UsedUp(j)
    BY <1>3, <2>1, UnitBeforeRest
  <2>3. units' = Append(units, au)
    BY <1>3, <2>1, <2>2 DEF TakeLastFrame, EndUnit, ReturnUnit, ReturnNull
  <2>4. QED BY <1>1, <1>3, <2>2, <2>3, AppendBeforeRest
<1>4. CASE ~JunkAtEnd
  BY <1>1, <1>4 DEF RestInv, JunkAtEnd
<1>5. QED BY <1>2, <1>3, <1>4

LEMMA RestInvHolds == Spec => []RestInv
<1>1. Init => RestInv
  BY DEF Init, RestInv
<1>2. IInv /\ RestInv /\ [Next]_vars => RestInv'
  <2> SUFFICES ASSUME IInv, RestInv, [Next]_vars PROVE RestInv'
    OBVIOUS
  <2>1. CASE DecodeFrame_PassThru
    BY <2>1, DecodeRest
  <2>2. ASSUME NEW data \in PESData, AddData(data) PROVE RestInv'
    BY <2>2 DEF AddData, RestInv
  <2>3. CASE UNCHANGED vars
    BY <2>3 DEF vars, RestInv, JunkAtEnd, BeforeRest
  <2>4. QED BY <2>1, <2>2, <2>3 DEF Next
<1>3. QED BY <1>1, <1>2, IInvHolds, PTL DEF Spec

LEMMA RestIsNotReturned ==
  ASSUME IInv, RestInv, JunkAtEnd, NEW m \in DOMAIN units
  PROVE  Len(pes) - 1 \notin Frames(units[m])
<1>1. SUFFICES ASSUME NEW k \in DOMAIN units[m], units[m][k] = Len(pes) - 1 PROVE FALSE
  BY DEF Frames
<1>2. units[m] \in Seq(Nat)
  BY LenProperties DEF IInv, TypeOK
<1>3. units[m][k] \in Nat
  BY <1>2, LenProperties
<1>4. units[m][k] < units[m][k]
  BY <1>1 DEF RestInv, BeforeRest
<1>5. QED BY <1>3, <1>4

(* Every legal access unit at the front of a PES packet is returned, as it   *)
(* was, by the time PESDecode returns; but never the last one when the data  *)
(* ends in what FindSyncWord finds no syncframe in.                          *)
THEOREM LegalUnitsAreReturnedHolds == Spec => []LegalUnitsAreReturned
<1>1. IInv /\ LegalInv /\ RestInv => LegalUnitsAreReturned
  <2> SUFFICES ASSUME IInv, LegalInv, RestInv PROVE LegalUnitsAreReturned
    OBVIOUS
  <2>1. (~draining /\ 1 \in Starts) => \A s \in Starts : LegalUpTo(s) => Returned(s)
    BY DEF LegalInv, Underway
  <2>2. JunkAtEnd => \A m \in DOMAIN units : Len(pes) - 1 \notin Frames(units[m])
    BY RestIsNotReturned
  <2>3. QED BY <2>1, <2>2 DEF LegalUnitsAreReturned
<1>2. QED BY <1>1, IInvHolds, LegalInvHolds, RestInvHolds, PTL

-----------------------------------------------------------------------------
(* Where a call of DecodeFrame_PassThru begins. *)

FrontOfPacket == esBuffer.gone = 0 /\ units = <<>>

AtIndependent ==
  LET next == esBuffer.gone + 1
  IN  next \in DOMAIN pes /\ IsHeader(pes[next]) /\ pes[next].independent

TableInv ==
  /\ CountsInTable
  /\ currentIndependentStream = -1 =>
       au = <<>> /\ (PESQueue # <<>> => FrontOfPacket \/ AtIndependent)

LEMMA AfterPop ==
  ASSUME CountsInTable, UNCHANGED strayWrite, ~strayWrite, PESQueue' = <<>>, NewCall
  PROVE  TableInv'
BY DEF TableInv, CountsInTable, NewCall

LEMMA DecodeTable ==
  ASSUME IInv, TableInv, ~strayWrite, DecodeFrame_PassThru
  PROVE  TableInv'
<1>1. draining /\ pes' = pes /\ CountsInTable
  BY DEF DecodeFrame_PassThru, TableInv
<1>2. CASE NothingQueued /\ UNCHANGED strayWrite
  BY <1>1, <1>2 DEF NothingQueued, locals, TableInv, CountsInTable
<1>3. CASE PESQueue # <<>> /\ Fail /\ UNCHANGED strayWrite
  <2>1. PESQueue' = <<>> /\ NewCall
    BY <1>3, BufferFacts DEF IInv, Fail, Pop
  <2>2. QED BY <1>1, <1>3, <2>1, AfterPop
<1>4. ASSUME PESQueue # <<>>, NEW j \in FindSyncWord, CountsOutside(esBuffer.items[j]),
             strayWrite' = TRUE /\ UNCHANGED <<PESQueue, draining, locals, units>>
      PROVE  TableInv'
  <2>1. /\ currentIndependentStream = -1 /\ ~pes[j].independent
        /\ esBuffer.items = pes /\ esBuffer.gone \in Nat
    BY <1>4, FoundFacts, BufferFacts DEF IInv, CountsOutside
  <2>2. au = <<>> /\ (FrontOfPacket \/ AtIndependent)
    BY <1>4, <2>1 DEF TableInv
  <2>3. ASSUME AtIndependent PROVE FALSE
    <3>1. FindSyncWord = {esBuffer.gone + 1}
      BY <2>1, <2>3, Zenon DEF FindSyncWord, AtIndependent
    <3>2. j = esBuffer.gone + 1
      BY <1>4, <3>1
    <3>3. QED BY <2>1, <2>3, <3>2 DEF AtIndependent
  <2>4. esBuffer.gone = 0 /\ units = <<>>
    BY <2>2, <2>3 DEF FrontOfPacket
  <2>5. ASSUME FrontIsIndependent PROVE FALSE
    <3>1. pes \in Seq(Item) /\ 1 \in DOMAIN pes
      <4>1. pes \in Seq(Item) /\ pes # <<>>
        BY <1>4, <2>5, BufferFacts DEF IInv, FrontIsIndependent
      <4>2. Len(pes) \in Nat /\ Len(pes) # 0 /\ DOMAIN pes = 1 .. Len(pes)
        BY <4>1, LenProperties, EmptySeq
      <4>3. QED BY <4>1, <4>2
    <3>2. esBuffer.gone + 1 = 1
      BY <2>4
    <3>3. AtIndependent
      BY <2>5, <3>1, <3>2, Zenon DEF AtIndependent, FrontIsIndependent
    <3>4. QED BY <2>3, <3>3
  <2>6. CountsInTable'
    BY <1>1, <1>4, <2>2, <2>4, <2>5 DEF CountsInTable, FrontIsIndependent, locals
  <2>7. au' = <<>> /\ FrontOfPacket'
    BY <1>4, <2>2, <2>4 DEF FrontOfPacket, esBuffer, locals
  <2>8. QED BY <2>6, <2>7 DEF TableInv
<1>5. ASSUME PESQueue # <<>>, NEW j \in FindSyncWord, ~CountsOutside(esBuffer.items[j]),
             TakeFrame(j) \/ TakeLastFrame(j) \/ EndUnit(j), UNCHANGED strayWrite
      PROVE  TableInv'
  <2>1. /\ j \in DOMAIN pes /\ j \in Nat /\ j > esBuffer.gone /\ j <= Len(pes)
        /\ pes[j] \in Syncframe /\ esBuffer.items[j] = pes[j]
    BY <1>5, FoundFacts DEF IInv
  <2>2. CASE TakeFrame(j)
    <3>1. currentIndependentStream' = StreamAfter(pes[j])
      BY <2>1, <2>2 DEF TakeFrame
    <3>2. StreamAfter(pes[j]) # -1
      BY <1>5, <2>1, EAC3Assumption DEF CountsOutside, StreamAfter, Syncframe, SubstreamIds
    <3>3. QED BY <1>1, <1>5, <3>1, <3>2 DEF TableInv, CountsInTable
  <2>3. CASE TakeLastFrame(j)
    <3>1. PESQueue' = <<>> /\ NewCall
      BY <1>5, <2>3, BufferFacts DEF IInv, TakeLastFrame, Pop
    <3>2. QED BY <1>1, <1>5, <3>1, AfterPop
  <2>4. CASE EndUnit(j) /\ ~BlocksMatch(substreamsBlksFound)
    <3>1. PESQueue' = <<>> /\ NewCall
      BY <1>5, <2>4, BufferFacts DEF IInv, EndUnit, Pop
    <3>2. QED BY <1>1, <1>5, <3>1, AfterPop
  <2>5. CASE EndUnit(j) /\ BlocksMatch(substreamsBlksFound)
    <3>1. /\ RemoveItems(j - 1) /\ au' = <<>> /\ UNCHANGED draining
          /\ IsHeader(pes[j]) /\ pes[j].independent
      BY <2>1, <2>5 DEF EndUnit, NewCall, ReturnUnit, StartsNextAU, IsHeader, Syncframe
    <3>2. j - 1 \in Nat /\ j - 1 < Len(pes) /\ (j - 1) + 1 = j
      <4>1. esBuffer.gone \in Nat /\ Len(pes) \in Nat
        BY <1>5, BufferFacts, LenProperties DEF IInv
      <4>2. QED BY <2>1, <4>1
    <3>3. esBuffer'.gone = j - 1
      BY <1>1, <1>5, <3>1, <3>2, RemoveFacts
    <3>4. AtIndependent'
      BY <1>1, <2>1, <3>1, <3>2, <3>3 DEF AtIndependent, IsHeader
    <3>5. QED BY <1>1, <1>5, <3>1, <3>4 DEF TableInv, CountsInTable
  <2>6. QED BY <1>5, <2>2, <2>3, <2>4, <2>5
<1>6. QED BY <1>2, <1>3, <1>4, <1>5, Zenon DEF DecodeFrame_PassThru

LEMMA TableInvHolds == Spec => []TableInv
<1>1. Init => TableInv
  BY DEF Init, TableInv, CountsInTable
<1>2. IInv /\ IInv' /\ TableInv /\ [Next]_vars => TableInv'
  <2> SUFFICES ASSUME IInv, TableInv, [Next]_vars PROVE TableInv'
    OBVIOUS
  <2>1. CASE ~strayWrite /\ DecodeFrame_PassThru
    BY <2>1, DecodeTable
  <2>2. ASSUME ~strayWrite, NEW data \in PESData, AddData(data) PROVE TableInv'
    <3>1. /\ PESQueue = <<>> /\ PESQueue' = <<[items |-> data, gone |-> 0]>>
          /\ units' = <<>> /\ UNCHANGED <<locals, strayWrite>>
      BY <2>2 DEF AddData, IInv, QueueDiscipline
    <3>2. esBuffer'.gone = 0
      BY <3>1 DEF esBuffer
    <3>3. FrontOfPacket'
      BY <3>1, <3>2 DEF FrontOfPacket
    <3>4. QED BY <2>2, <3>1, <3>3 DEF TableInv, CountsInTable, locals
  <2>3. CASE UNCHANGED vars
    BY <2>3 DEF vars, locals, TableInv, CountsInTable, FrontIsIndependent, FrontOfPacket,
                AtIndependent, esBuffer
  <2>4. QED BY <2>1, <2>2, <2>3 DEF Next
<1>3. QED BY <1>1, <1>2, IInvHolds, PTL DEF Spec

(* Whatever the data is: only the first call for a PES packet that does not  *)
(* begin with an independent substream can write outside of the table.       *)
THEOREM CountsInTableHolds == Spec => []CountsInTable
<1>1. TableInv => CountsInTable
  BY DEF TableInv
<1>2. QED BY <1>1, TableInvHolds, PTL
=============================================================================
