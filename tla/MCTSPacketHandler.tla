-------------------------- MODULE MCTSPacketHandler --------------------------
(* A small instance of TSPacketHandler: every transport packet there can be  *)
(* over small sets, in any order, with the clock anywhere.                   *)
EXTENDS TSPacketHandler

CONSTANTS id1, id2, b

MCStreamIds == {id1, id2}
MCBytes == {b}
MCPCRs == 0 .. PtsMax

Units(n) == [i \in 1 .. n |-> b]

(* A payload of n bytes, or none when n is not positive. *)
Sized(ts, n) == ts @@ [payloadSize |-> n, payload |-> Units(n)]

MCTSPackets ==
  {Sized(ts, 0) : ts \in [payloadPresent : {FALSE}, pusi : {FALSE}, cc : {0},
                          sid : {NoHeader}, pts : {0}, pesSize : {1}]}
  \cup
  {Sized(ts, n) : n \in -2 .. 2,
                  ts \in [payloadPresent : {TRUE}, pusi : BOOLEAN, cc : 0 .. CCModulus - 1,
                          sid : {NoHeader}, pts : {0}, pesSize : {1}]}
  \cup
  {Sized(ts, n) : n \in -1 .. 2,
                  ts \in [payloadPresent : {TRUE}, pusi : {TRUE}, cc : 0 .. CCModulus - 1,
                          sid : {id1}, pts : {0, 3, 7}, pesSize : {1, 3}]}

=============================================================================
