----------------------------- MODULE MCCSocket -----------------------------
(* Two sockets: one to listen and one to accept, or one of each kind.  A     *)
(* third descriptor, for an accept that should not be.  One sender, with a   *)
(* port whose bytes differ.  A second has two thousandths of a second, which *)
(* have two thousandths again: the timeout is two of the last.               *)
EXTENDS CSocket

MCHosts == {ToSockAddr(<<239, 0, 0, 1>>, 5004)}
=============================================================================
