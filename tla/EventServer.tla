----------------------------- MODULE EventServer -----------------------------
(***************************************************************************)
(* The event server: one thread that, in turn, takes a packet of a         *)
(* transport stream, sends the events it gives rise to to every client,    *)
(* and then looks once at the sockets that can be read, to accept a client,*)
(* to read what one sent, or to remove one that has closed its connection. *)
(* Clients come, read, send and go at any moment.                          *)
(*                                                                         *)
(* The system's side of a connection is part of the model as far as the    *)
(* server's calls see it: a send blocks while the client has not read the  *)
(* one before; a send to a client that has closed makes it answer with a   *)
(* reset, and a send after that ends the process (SIGPIPE).  A client that *)
(* closes without having read everything resets the connection at once:    *)
(* then one receive or send fails before the connection looks closed.      *)
(***************************************************************************)
EXTENDS SocketListeningGroup, SequencesExt

CONSTANTS
  Listener,  (* listening_socket.                         *)
  MaxEvents  (* Bound on the events of the stream.        *)

Clients == Sockets \ {Listener}

ASSUME ServerAssumption == Listener \in Sockets /\ MaxEvents \in Nat

VARIABLES
  eventReceivers,  (* The clients to send events to, as a sequence.           *)
  incoming,        (* The sockets Select found, as far as not yet handled.    *)
  unsent,          (* The clients the current event has yet to be sent to.    *)
  pc,              (* Where the main loop is: "packet", "send", "select",     *)
                   (* "handle"; "stopped" after an exception, "killed".       *)
  events,          (* How many events there were.                             *)
  peer,            (* What became of each client's connection, one of Peers.  *)
  backlog,         (* The clients that wait to be accepted.                   *)
  inbox,           (* The clients that have sent something not yet received.  *)
  outbox           (* The clients that have not yet read what was sent.       *)

server == <<descriptor, group, eventReceivers, incoming, unsent, pc, events>>
network == <<peer, backlog, inbox, outbox>>
vars == <<server, network>>

OpenFds == {descriptor[s] : s \in Sockets} \ {NoFd}
FreeFds == Fds \ OpenFds

(* "closed": it is known that no more is to come; "refuses": and a reset is  *)
(* on its way; "left": only the reset is on its way; "failed": it is there,  *)
(* and the next call fails.                                                  *)
Peers == {"away", "here", "closed", "refuses", "left", "failed", "reset"}

Ended == pc \in {"stopped", "killed"}

Gone(c) == peer[c] \in {"closed", "refuses", "failed", "reset"}
Readable(s) == IF s = Listener THEN backlog # {} ELSE s \in inbox \/ Gone(s)
ReadableFds == {descriptor[s] : s \in {t \in Sockets : descriptor[t] # NoFd /\ Readable(t)}}

-----------------------------------------------------------------------------
(* openListener. *)
Init ==
  /\ descriptor = [s \in Sockets |-> IF s = Listener THEN Min(Fds) ELSE NoFd]
  /\ listeningGroup = {Listener} /\ listening_set = {Min(Fds)} /\ max_fd = Min(Fds)
  /\ eventReceivers = <<>> /\ incoming = {} /\ unsent = <<>>
  /\ pc = "packet" /\ events = 0
  /\ peer = [c \in Clients |-> "away"]
  /\ backlog = {} /\ inbox = {} /\ outbox = {}

(* A packet with no (further) event. *)
PacketDone ==
  /\ pc = "packet"
  /\ pc' = "select"
  /\ UNCHANGED <<descriptor, group, eventReceivers, incoming, unsent, events, network>>

(* A packet gives rise to an event. *)
OnEvent ==
  /\ pc = "packet" /\ events < MaxEvents
  /\ events' = events + 1
  /\ unsent' = eventReceivers
  /\ pc' = "send"
  /\ UNCHANGED <<descriptor, group, eventReceivers, incoming, network>>

(* What a send makes of the connection.                                      *)
AfterSend(p) == IF p = "closed" THEN "refuses" ELSE IF p = "failed" THEN "reset" ELSE p

(* sendEvent, for the next client.  What send returns is not looked at. *)
SendTo(c) ==
  /\ pc = "send" /\ unsent # <<>> /\ c = Head(unsent)
  /\ c \notin outbox
  /\ unsent' = Tail(unsent)
  /\ pc' = IF peer[c] = "reset" THEN "killed" ELSE pc
  /\ peer' = [peer EXCEPT ![c] = AfterSend(@)]
  /\ outbox' = IF peer[c] = "here" THEN outbox \cup {c} ELSE outbox
  /\ UNCHANGED <<descriptor, group, eventReceivers, incoming, events, backlog, inbox>>

SendDone ==
  /\ pc = "send" /\ unsent = <<>>
  /\ pc' = "packet"
  /\ UNCHANGED <<descriptor, group, eventReceivers, incoming, unsent, events, network>>

SelectSockets ==
  /\ pc = "select"
  /\ incoming' = Select(OpenFds, ReadableFds)
  /\ pc' = "handle"
  /\ UNCHANGED <<descriptor, group, eventReceivers, unsent, events, network>>

(* The list has the sockets in the order of their descriptors. *)
First(sockets) == CHOOSE s \in sockets : \A t \in sockets : descriptor[s] <= descriptor[t]

(* accept fails when there is no descriptor left, and its exception ends the *)
(* main loop.                                                                *)
AddClient ==
  /\ pc = "handle" /\ incoming # {} /\ First(incoming) = Listener
  /\ \/ /\ FreeFds = {}
        /\ pc' = "stopped"
        /\ UNCHANGED <<descriptor, group, eventReceivers, incoming, backlog>>
     \/ /\ FreeFds # {}
        /\ \E c \in backlog :
             /\ backlog' = backlog \ {c}
             /\ descriptor' = [descriptor EXCEPT ![c] = Min(FreeFds)]
             /\ eventReceivers' = Append(eventReceivers, c)
             /\ addSocket(c, Min(FreeFds))
        /\ incoming' = incoming \ {Listener}
        /\ UNCHANGED pc
  /\ UNCHANGED <<unsent, events, peer, inbox, outbox>>

(* A client whose connection has failed: receive says so, once. *)
Receives(c) == c \in inbox \/ peer[c] # "failed"

(* The client has sent something, which is thrown away; or receive fails,    *)
(* and nothing is done.                                                      *)
ReceiveData ==
  /\ pc = "handle" /\ incoming # {}
  /\ LET c == First(incoming)
     IN  /\ c # Listener /\ (c \in inbox \/ ~Receives(c))
         /\ inbox' = inbox \ {c}
         /\ peer' = IF Receives(c) THEN peer ELSE [peer EXCEPT ![c] = "reset"]
         /\ incoming' = incoming \ {c}
  /\ UNCHANGED <<descriptor, group, eventReceivers, unsent, pc, events, backlog, outbox>>

SameSocket(s, fd) == descriptor[s] = fd

(* Slip: everything from the socket to the end of the list is erased. *)
WithoutRest(receivers, fd) ==
  SubSeq(receivers, 1, SelectInSeq(receivers, LAMBDA s : SameSocket(s, fd)) - 1)

(* Slip: nothing is erased. *)
WithoutNone(receivers, fd) == receivers

(* The list without the first socket that has this descriptor. *)
Without(receivers, fd) == RemoveFirstMatch(receivers, LAMBDA s : SameSocket(s, fd))

(* removeClient, and delete. *)
Forget(c) ==
  /\ removeSocket(c)
  /\ eventReceivers' = Without(eventReceivers, descriptor[c])
  /\ descriptor' = [descriptor EXCEPT ![c] = NoFd]

(* The client has closed its connection; the rest of the list is left for    *)
(* the next time.                                                            *)
RemoveClient ==
  /\ pc = "handle" /\ incoming # {}
  /\ LET c == First(incoming)
     IN  /\ c # Listener /\ c \notin inbox /\ Receives(c)
         /\ Forget(c)
         /\ outbox' = outbox \ {c}
  /\ incoming' = {} /\ pc' = "packet"
  /\ UNCHANGED <<unsent, events, peer, backlog, inbox>>

HandleDone ==
  /\ pc = "handle" /\ incoming = {}
  /\ pc' = "packet"
  /\ UNCHANGED <<descriptor, group, eventReceivers, incoming, unsent, events, network>>

Server ==
  \/ PacketDone \/ OnEvent \/ SendDone \/ SelectSockets
  \/ AddClient \/ ReceiveData \/ RemoveClient \/ HandleDone
  \/ \E c \in Clients : SendTo(c)

-----------------------------------------------------------------------------
(* The clients, as long as the server runs.  Each connects once. *)

Connect(c) ==
  /\ peer[c] = "away"
  /\ peer' = [peer EXCEPT ![c] = "here"]
  /\ backlog' = backlog \cup {c}
  /\ UNCHANGED <<server, inbox, outbox>>

Say(c) ==
  /\ peer[c] = "here" /\ c \notin inbox
  /\ inbox' = inbox \cup {c}
  /\ UNCHANGED <<server, peer, backlog, outbox>>

Read(c) ==
  /\ peer[c] = "here" /\ c \in outbox
  /\ outbox' = outbox \ {c}
  /\ UNCHANGED <<server, peer, backlog, inbox>>

(* What it has not read does not stand in the way of a send any more. *)
Leave(c) ==
  /\ peer[c] = "here"
  /\ peer' = [peer EXCEPT ![c] = IF c \in outbox THEN "left" ELSE "closed"]
  /\ outbox' = outbox \ {c}
  /\ UNCHANGED <<server, backlog, inbox>>

(* The reset arrives. *)
Reset(c) ==
  /\ \/ peer[c] = "refuses" /\ peer' = [peer EXCEPT ![c] = "reset"]
     \/ peer[c] = "left" /\ peer' = [peer EXCEPT ![c] = "failed"]
  /\ UNCHANGED <<server, backlog, inbox, outbox>>

Client(c) == ~Ended /\ (Connect(c) \/ Say(c) \/ Read(c) \/ Leave(c) \/ Reset(c))

Next == Server \/ \E c \in Clients : Client(c)

(* The stream goes on, and every client reads what it is sent. *)
Fairness == WF_vars(Server) /\ \A c \in Clients : WF_vars(Read(c))

Spec == Init /\ [][Next]_vars /\ Fairness

-----------------------------------------------------------------------------
(* The type invariant: max_fd is a descriptor, and a socket is at most once  *)
(* in each of the lists.                                                     *)
TypeOK ==
  /\ descriptor \in [Sockets -> Fds \cup {NoFd}]
  /\ listeningGroup \subseteq Sockets /\ listening_set \subseteq Fds /\ max_fd \in Fds
  /\ eventReceivers \in Seq(Clients) /\ IsInjective(eventReceivers)
  /\ incoming \subseteq Sockets
  /\ unsent \in Seq(Clients) /\ IsInjective(unsent)
  /\ pc \in {"packet", "send", "select", "handle", "stopped", "killed"}
  /\ events \in 0 .. MaxEvents
  /\ peer \in [Clients -> Peers]
  /\ backlog \subseteq Clients /\ inbox \subseteq Clients /\ outbox \subseteq Clients

(* The three things that SocketListeningGroup keeps agree with each other    *)
(* and with the list of clients, however clients come and go and descriptors *)
(* are used again: the descriptors of the set are those of the sockets of    *)
(* the group, no two of them share one, max_fd is the largest, and the group *)
(* is the listener and the clients that get events.                          *)
GroupsAgree ==
  /\ listening_set = {descriptor[s] : s \in listeningGroup}
  /\ \A s, t \in listeningGroup : descriptor[s] = descriptor[t] => s = t
  /\ max_fd \in listening_set /\ \A fd \in listening_set : fd <= max_fd
  /\ listeningGroup = {Listener} \cup ToSet(eventReceivers)

(* The server never uses a socket that it has deleted: those that Select has *)
(* put into its list, those an event has still to be sent to, and those it   *)
(* watches all have a descriptor that is open.                               *)
NoSocketIsUsedAfterDelete ==
  \A s \in incoming \cup ToSet(unsent) \cup ToSet(eventReceivers) \cup listeningGroup :
    descriptor[s] # NoFd

(* A step that removes a client removes only that one, and only when all it  *)
(* sent has been received and its connection is closed.                      *)
OnlyGoneAreRemoved ==
  [][\A c \in ToSet(eventReceivers) \ ToSet(eventReceivers') : Gone(c) /\ c \notin inbox]_vars

(* A client that has closed its connection is eventually removed, unless the *)
(* server ends, although each look at the sockets removes at most one client.*)
GoneAreRemoved ==
  \A c \in Clients : (c \in ToSet(eventReceivers) /\ Gone(c)) ~> (c \notin ToSet(eventReceivers) \/ Ended)

(* A client that waits is eventually accepted, unless the server ends.       *)
WaitingAreAccepted == \A c \in Clients : (c \in backlog) ~> (c \notin backlog \/ Ended)
=============================================================================
