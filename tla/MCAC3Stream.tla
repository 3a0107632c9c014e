----------------------------- MODULE MCAC3Stream -----------------------------
(* Short frames: the six bytes of a header and two or eight more. *)
EXTENDS AC3Stream, SequencesExt

CONSTANTS s0, s1, short, long, eight, other

MCByte == {s0, s1, short, long, eight, other}
MCFrameWords == (short :> 4) @@ (long :> 7)
MCBsid8 == {eight}

Frame(length, payload) ==
  [frame |-> TRUE, bytes |-> <<s0, s1, other, s0, length, eight>> \o payload]
NoFrame(bytes) == [frame |-> FALSE, bytes |-> bytes]

Short == Frame(short, <<other, s0>>)
Long == Frame(long, <<other, s0, s1, other, other, long, other, s0>>)
LongWithHeaderInside == Frame(long, <<s0, s1, other, other, short, eight, other, other>>)

(* Frames alone; frames after something that ends like the beginning of a    *)
(* syncword; a frame whose payload looks like a frame.                       *)
Pieces ==
  {<<Long, Short, Short>>,
   <<NoFrame(<<s1, s0>>), Short, NoFrame(<<s0, s1, other, other, short, other, s0>>), Short>>,
   <<Short, LongWithHeaderInside, Short>>}

Joined(pieces) == FlattenSeq([k \in DOMAIN pieces |-> pieces[k].bytes])

(* Where the k-th piece begins. *)
Start(pieces, k) == Len(Joined(SubSeq(pieces, 1, k - 1)))

MCStreams ==
  {[bytes |-> Joined(p),
    frames |-> {[at |-> Start(p, k), size |-> Len(p[k].bytes)] :
                k \in {j \in DOMAIN p : p[j].frame}}] : p \in Pieces}

MCPESData ==
  UNION {{SubSeq(s.bytes, i, j) : i \in 1 .. Len(s.bytes), j \in 1 .. Len(s.bytes)} \ {<<>>}
         : s \in MCStreams}
=============================================================================
