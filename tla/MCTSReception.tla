---------------------------- MODULE MCTSReception ----------------------------
(* Three PES packets of two, one and three transport packets. *)
EXTENDS TSReception

CONSTANT id

MCStreamIds == {id}
MCPCRs == 0 .. PtsMax
MCChunks == <<2, 1, 3>>
MCStamps == <<2, 3, 5>>
MCUnits == FlattenSeq([k \in PES |-> [j \in 1 .. Chunks[k] |-> <<k, j>>]])
MCBytes == {Units[n] : n \in DOMAIN Units}

(* The packets of the stream, with every continuity counter. *)
MCTSPackets == {StreamPacket(n, counter) : n \in DOMAIN Units, counter \in 0 .. CCModulus - 1}

=============================================================================
