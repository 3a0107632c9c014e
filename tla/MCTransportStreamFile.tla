------------------------ MODULE MCTransportStreamFile ------------------------
(* Packets of three and of four bytes stand for those of 188 and of 204.     *)
EXTENDS TransportStreamFile

MCByte == {71, 1, 2}
MCPackets == {<<71, 1, 1>>, <<71, 2, 2>>, <<71, 1, 1, 2>>}
=============================================================================
