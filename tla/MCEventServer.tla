---------------------------- MODULE MCEventServer ----------------------------
(* Three clients and descriptors for two of them, so that a client finds the *)
(* descriptor of one that left, or none.                                     *)
EXTENDS EventServer

CONSTANTS l, c1, c2, c3

MCSockets == {l, c1, c2, c3}
MCFds == 3 .. 5
MCNoFd == -1
=============================================================================
