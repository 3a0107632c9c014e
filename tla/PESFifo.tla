------------------------------- MODULE PESFifo -------------------------------
(***************************************************************************)
(* What a reassembler of PES packets promises: units become ready in the   *)
(* order in which they were begun, at most one unit is being assembled and *)
(* only ever grows, a ready unit never changes and only leaves from the    *)
(* front, where it is either handed on or dropped.  A unit given up before *)
(* it has data may keep its place, but is never handed on.                 *)
(***************************************************************************)
EXTENDS Integers, Sequences, SequencesExt

CONSTANTS
  Units,  (* records with the fields PTS, pesPacketLength, payload, Complete *)
  None

VARIABLES
  ready,    (* The complete units and the void ones,     *)
            (* oldest first.                             *)
  partial,  (* The unit being assembled, or None.        *)
  handed,   (* The unit handed on by the last step.      *)
  open      (* FALSE once the reassembler is destroyed.  *)

vars == <<ready, partial, handed, open>>

Incomplete(u) == u \in Units /\ ~u.Complete
Whole(u) == u \in Units /\ u.Complete
VoidUnit(u) == u \in Units /\ ~u.Complete /\ u.payload = <<>>

(* v is u with more data. *)
Extends(v, u) ==
  /\ v.PTS = u.PTS
  /\ v.pesPacketLength = u.pesPacketLength
  /\ Len(u.payload) <= Len(v.payload)
  /\ \A i \in 1 .. Len(u.payload) : v.payload[i] = u.payload[i]

OneMore ==
  /\ Len(ready') = Len(ready) + 1
  /\ \A i \in 1 .. Len(ready) : ready'[i] = ready[i]

(* One more unit is ready. *)
OneMoreReady == OneMore /\ Whole(ready'[Len(ready')])

(* Nothing is assembled that a new unit could not replace. *)
Free == partial = None \/ partial.payload = <<>>

Init == ready = <<>> /\ partial = None /\ handed = None /\ open = TRUE

(* The first data of a unit, which may already be all of it. *)
Begin ==
  /\ Free /\ Incomplete(partial')
  /\ UNCHANGED ready

BeginWhole ==
  /\ Free /\ partial' = None
  /\ OneMoreReady

Extend ==
  /\ partial # None /\ Incomplete(partial') /\ Extends(partial', partial)
  /\ UNCHANGED ready

Finish ==
  /\ partial # None /\ partial' = None
  /\ OneMoreReady
  /\ Extends(ready'[Len(ready')], partial)

Abandon ==
  /\ partial # None /\ partial' = None
  /\ UNCHANGED ready

(* A unit without data is given up, but keeps its place. *)
AbandonInPlace ==
  /\ partial # None /\ partial.payload = <<>> /\ partial' = None
  /\ OneMore /\ VoidUnit(ready'[Len(ready')])

(* A void unit at the back gives up its place. *)
Vacate ==
  /\ partial = None /\ UNCHANGED partial
  /\ ready # <<>> /\ VoidUnit(Last(ready)) /\ ready' = Front(ready)

Assemble ==
  /\ open /\ open' = TRUE /\ handed' = None
  /\ Begin \/ BeginWhole \/ Extend \/ Finish \/ Abandon \/ AbandonInPlace \/ Vacate

(* The oldest ready unit leaves; only a whole one is handed on. *)
Take ==
  /\ open /\ open' = TRUE
  /\ ready # <<>> /\ ready' = Tail(ready)
  /\ handed' = None \/ (handed' = Head(ready) /\ Whole(handed'))
  /\ UNCHANGED partial

Rest == open /\ open' = TRUE /\ handed' = None /\ UNCHANGED <<ready, partial>>

Close ==
  /\ open /\ open' = FALSE
  /\ ready' = <<>> /\ partial' = None /\ handed' = None

Next == Assemble \/ Take \/ Rest \/ Close

Spec == Init /\ [][Next]_vars
=============================================================================
