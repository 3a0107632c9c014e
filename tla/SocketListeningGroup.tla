------------------------ MODULE SocketListeningGroup -------------------------
(***************************************************************************)
(* SocketListeningGroup keeps the sockets that are to be watched: the list *)
(* of them, the set of their descriptors, and the largest descriptor,      *)
(* which select needs.                                                     *)
(*                                                                         *)
(* A list without an order of its own is a set here: nothing in the code   *)
(* depends on the order of listeningGroup but which of several sockets     *)
(* with the same descriptor is found first, and erasing any one of them    *)
(* stands for that.                                                        *)
(***************************************************************************)
EXTENDS Integers, FiniteSetsExt

CONSTANTS
  Sockets,  (* The CSocket objects.                *)
  Fds,      (* The descriptors the system can use. *)
  NoFd,     (* INVALID_SOCKET.                     *)
  FD_SETSIZE

(* An fd_set has room for the descriptors below FD_SETSIZE only. *)
ASSUME FdAssumption ==
  /\ FD_SETSIZE \in Nat /\ Fds \subseteq 0 .. FD_SETSIZE - 1 /\ Fds # {}
  /\ NoFd = -1

VARIABLES
  descriptor,      (* mSocket of every CSocket.          *)
  listeningGroup,  (* The sockets of the group.          *)
  listening_set,   (* Their descriptors.                 *)
  max_fd           (* The largest of them.               *)

group == <<listeningGroup, listening_set, max_fd>>

GroupInit == listeningGroup = {} /\ listening_set = {} /\ max_fd = 0

(* Slip: the largest descriptor is that of the socket added last. *)
addSocketLast(s, fd) ==
  /\ listeningGroup' = listeningGroup \cup {s}
  /\ listening_set' = listening_set \cup {fd}
  /\ max_fd' = fd

addSocket(s, fd) ==
  /\ listeningGroup' = listeningGroup \cup {s}
  /\ listening_set' = listening_set \cup {fd}
  /\ max_fd' = IF fd > max_fd THEN fd ELSE max_fd

(* Slip: max_fd is set to zero and the next largest is not looked for. *)
LargestFdNone(sockets) == 0

LargestFd(sockets) == Max({descriptor[s] : s \in sockets} \cup {0})

removeSocket(s) ==
  LET fd == descriptor[s]
      same == {t \in listeningGroup : descriptor[t] = fd}
  IN  /\ listeningGroup' \in
           IF same = {} THEN {listeningGroup} ELSE {listeningGroup \ {t} : t \in same}
      /\ listening_set' = IF same = {} THEN listening_set ELSE listening_set \ {fd}
      /\ max_fd' = IF max_fd = fd THEN LargestFd(listeningGroup') ELSE max_fd

(* The descriptors select looks at. *)
Watched == {fd \in listening_set : fd <= max_fd}

(* What Select puts into its list: nothing when select fails, because one of *)
(* the descriptors is not open, and otherwise one socket for every           *)
(* descriptor that can be read.                                              *)
Select(open, readable) ==
  IF Watched \subseteq open
  THEN {s \in listeningGroup : descriptor[s] \in Watched \cap readable}
  ELSE {}
=============================================================================
