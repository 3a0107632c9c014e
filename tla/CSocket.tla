------------------------------ MODULE CSocket ------------------------------
(***************************************************************************)
(* CSocket wraps a descriptor.  A program of one thread makes any sequence *)
(* of calls on a few sockets: it constructs and destroys them, listens,    *)
(* accepts, sends and receives, with and without timeout.                  *)
(*                                                                         *)
(* A call with a timeout is a select followed by the call without: what    *)
(* select has seen may be gone by then.  What a call reports goes to       *)
(* variables of the caller, which keep their values from earlier calls     *)
(* when the call does not set them.                                        *)
(*                                                                         *)
(* The system is external: descriptors, what has arrived at each (a        *)
(* connection, a byte of a stream, a datagram), and what fails.            *)
(***************************************************************************)
EXTENDS CIpAddress, FiniteSets

CONSTANTS
  Sockets,     (* CSocket objects.                                          *)
  Fds,         (* The descriptors the process may have.                     *)
  Hosts,       (* Socket addresses datagrams come from.                     *)
  Timeouts,    (* In milliseconds.                                          *)
  Thousand,    (* Milliseconds per second, and so on.                       *)
  MaxArrived   (* Bounds what may wait at a descriptor.                     *)

ASSUME SocketAssumption ==
  Fds \subseteq Nat /\ Timeouts \subseteq Nat /\ Thousand \in Nat \ {0}

ASSUME HostAssumption ==
  /\ Hosts \subseteq [sin_family : {AF_INET}, sin_addr : [1 .. 4 -> Bytes], sin_port : Nat]
  /\ \A host \in Hosts : host.sin_port < 65536

INVALID_SOCKET == -1
NoObject == -2

(* What arrives: a datagram, perhaps an empty one, or a byte of a stream; a  *)
(* connection to accept is nothing more than that byte.                      *)
Datagram == [from : Hosts, bytes : {0, 1}]
Piece    == [bytes |-> 1]
Arrival  == Datagram \cup {Piece}

ByteCount(taken) == IF Len(taken) = 1 THEN taken[1].bytes ELSE Len(taken)

Untimed  == -1

VARIABLES
  mSocket,      (* The descriptor of each socket object.                    *)
  mBindPort,    (* The port each was bound to.                              *)
  endpoint,     (* What the system keeps of each descriptor.                *)
  call,         (* The call the program is in.                              *)
  result        (* The caller's variables.                                  *)

objectVars == <<mSocket, mBindPort>>
vars == <<objectVars, endpoint, call, result>>

Closed == [kind |-> "closed", arrived |-> <<>>, ended |-> FALSE, port |-> PORT_ANY]
Fresh(kind) == [Closed EXCEPT !.kind = kind]

FreeFds == {fd \in Fds : endpoint[fd] = Closed}
NextFd  == {fd \in FreeFds : \A other \in FreeFds : fd <= other}

(* phase: "none", "select", "call", "returned".  taken, vanished and failed  *)
(* are what the system has given to this call, whether it has taken back     *)
(* what select saw, and whether select has failed.                           *)
NoCall == [op |-> "none", socket |-> NoObject, remote |-> NoObject, phase |-> "none",
           timeout |-> Untimed, left |-> 0, taken |-> <<>>, vanished |-> FALSE,
           failed |-> FALSE, success |-> FALSE, thrown |-> FALSE]

Init ==
  /\ mSocket = [s \in Sockets |-> NoObject]
  /\ mBindPort = [s \in Sockets |-> PORT_ANY]
  /\ endpoint = [fd \in Fds |-> Closed]
  /\ call = NoCall
  /\ result = [timedOut |-> FALSE, recvDataLength |-> 0, address |-> ADDRESS_ANY, port |-> PORT_ANY]

Exists(s) == mSocket[s] # NoObject
Valid(s)  == mSocket[s] >= 0
At(s)     == endpoint[mSocket[s]]

Idle == call.phase = "none"

(* A call that does not wait: it throws, or is done. *)
Simple(ok) == call' = [NoCall EXCEPT !.phase = "returned", !.thrown = ~ok] /\ UNCHANGED result

Return == call.phase = "returned" /\ call' = NoCall /\ UNCHANGED <<objectVars, endpoint, result>>

-----------------------------------------------------------------------------
(* Construction and destruction *)

(* Without type: no descriptor yet, for accept. *)
ConstructEmpty(s) ==
  /\ Idle /\ ~Exists(s) /\ Simple(TRUE)
  /\ mSocket' = [mSocket EXCEPT ![s] = INVALID_SOCKET]
  /\ mBindPort' = [mBindPort EXCEPT ![s] = PORT_ANY]
  /\ UNCHANGED endpoint

TranslateSocketType(type) == IF type = "stream" THEN "stream" ELSE "datagram"

(* Without a descriptor (the system has no more, or no memory for one) the   *)
(* constructor throws, and there is no object.                               *)
Construct(s, type) ==
  /\ Idle /\ ~Exists(s)
  /\ \/ \E fd \in NextFd :
          /\ mSocket' = [mSocket EXCEPT ![s] = fd]
          /\ mBindPort' = [mBindPort EXCEPT ![s] = PORT_ANY]
          /\ endpoint' = [endpoint EXCEPT ![fd] = Fresh(TranslateSocketType(type))]
          /\ Simple(TRUE)
     \/ Simple(FALSE) /\ UNCHANGED <<mSocket, mBindPort, endpoint>>

Destroy(s) ==
  /\ Idle /\ Exists(s) /\ Simple(TRUE)
  /\ mSocket' = [mSocket EXCEPT ![s] = NoObject]
  /\ mBindPort' = [mBindPort EXCEPT ![s] = PORT_ANY]
  /\ endpoint' = IF Valid(s) THEN [endpoint EXCEPT ![mSocket[s]] = Closed] ELSE endpoint

-----------------------------------------------------------------------------
(* Calls that do not wait *)

CanBind(s, port) ==
  Valid(s) /\ At(s).port = PORT_ANY /\ \A fd \in Fds : endpoint[fd].port # port

(* Slip: the port is noted before the system has agreed. *)
bindNotedFirst(s, port) ==
  /\ Idle /\ Exists(s) /\ Simple(CanBind(s, port))
  /\ endpoint' = IF CanBind(s, port) THEN [endpoint EXCEPT ![mSocket[s]].port = port] ELSE endpoint
  /\ mBindPort' = [mBindPort EXCEPT ![s] = port]
  /\ UNCHANGED mSocket

bind(s, port) ==
  /\ Idle /\ Exists(s) /\ Simple(CanBind(s, port))
  /\ IF CanBind(s, port)
     THEN /\ endpoint' = [endpoint EXCEPT ![mSocket[s]].port = port]
          /\ mBindPort' = [mBindPort EXCEPT ![s] = port]
     ELSE UNCHANGED <<endpoint, mBindPort>>
  /\ UNCHANGED mSocket

(* Only a stream socket that is not used yet can become one to listen or to  *)
(* a peer.  connect and listen ignore the system's answer.                   *)
Becomes(s, kind) ==
  endpoint' = IF Valid(s) /\ At(s).kind = "stream"
              THEN [endpoint EXCEPT ![mSocket[s]].kind = kind] ELSE endpoint

connect(s) ==
  /\ Idle /\ Exists(s) /\ Simple(TRUE)
  /\ Becomes(s, "connected") \/ UNCHANGED endpoint
  /\ UNCHANGED objectVars

listen(s) ==
  /\ Idle /\ Exists(s) /\ Simple(TRUE) /\ Becomes(s, "listening")
  /\ UNCHANGED objectVars

(* close only shuts the connection down: the descriptor stays open. *)
close(s) ==
  LET connected == Valid(s) /\ At(s).kind = "connected"
  IN  /\ Idle /\ Exists(s) /\ Simple(connected)
      /\ endpoint' = IF connected THEN [endpoint EXCEPT ![mSocket[s]].ended = TRUE] ELSE endpoint
      /\ UNCHANGED objectVars

(* Part of the buffer may have been sent: that too is a success. *)
SendStream(s) ==
  /\ Idle /\ Exists(s)
  /\ \E success \in BOOLEAN :
       /\ success => Valid(s) /\ At(s).kind \in {"connected", "datagram"}
       /\ call' = [NoCall EXCEPT !.phase = "returned", !.success = success]
  /\ UNCHANGED <<objectVars, endpoint, result>>

(* The stream send with a timeout has no body: it returns at once, with any  *)
(* answer, has sent nothing and leaves timedOut as an earlier call left it.  *)
SendStreamTimed(s, timeout) ==
  /\ Idle /\ Exists(s)
  /\ \E answer \in BOOLEAN :
       call' = [NoCall EXCEPT !.op = "send", !.phase = "returned",
                              !.timeout = timeout, !.success = answer]
  /\ UNCHANGED <<objectVars, endpoint, result>>

(* joinMulticast and leaveMulticast: the system may refuse a group, and      *)
(* refuses what is no multicast address.                                     *)
Membership(s, group) ==
  /\ Idle /\ Exists(s)
  /\ \E accepted \in BOOLEAN :
       (accepted => Valid(s) /\ isInMulticastRange(group)) /\ Simple(accepted)
  /\ UNCHANGED <<objectVars, endpoint>>

(* The other options: the system takes or gives them, or the call throws. *)
Options(s) ==
  /\ Idle /\ Exists(s)
  /\ \E accepted \in BOOLEAN : (accepted => Valid(s)) /\ Simple(accepted)
  /\ UNCHANGED <<objectVars, endpoint>>

(* Multicast with a source address, and getMulticastTTL. *)
NotImplemented(s) == Idle /\ Exists(s) /\ Simple(FALSE) /\ UNCHANGED <<objectVars, endpoint>>

-----------------------------------------------------------------------------
(* Calls that wait *)

TimeoutInterval(timeout) ==
  [tv_sec  |-> (timeout - (timeout % Thousand)) \div Thousand,
   tv_usec |-> (timeout % Thousand) * Thousand]

(* The time select waits, in microseconds. *)
Microseconds(interval) == interval.tv_sec * Thousand * Thousand + interval.tv_usec

(* Slip: the timeout is forgotten. *)
FirstPhaseCall(timeout) == "call"

FirstPhase(timeout) == IF timeout = Untimed THEN "call" ELSE "select"

Waiting == {"accept", "receive", "receiveFrom", "sendTo"}

(* Sockets that are not valid are handed to calls without timeout only:      *)
(* FD_SET of -1 is undefined.                                                *)
BeginCall(op, s, remote, timeout) ==
  /\ Idle /\ Exists(s) /\ (timeout # Untimed => Valid(s))
  /\ op = "accept" => Exists(remote) /\ remote # s
  /\ op # "accept" => remote = s
  /\ call' = [NoCall EXCEPT
                !.op = op, !.socket = s, !.remote = remote, !.timeout = timeout,
                !.phase = FirstPhase(timeout),
                !.left = IF timeout = Untimed THEN 0 ELSE Microseconds(TimeoutInterval(timeout))]
  /\ UNCHANGED <<objectVars, endpoint, result>>

(* Something to read; to write, the system has space, or not. *)
Readable == At(call.socket).arrived # <<>> \/ At(call.socket).ended

InSelect == call.phase = "select" /\ UNCHANGED <<objectVars, endpoint>>

(* Slip: a call that succeeds leaves timedOut as it was. *)
ClearedNot == result

(* A call with a timeout clears timedOut as soon as select returns. *)
Cleared == [result EXCEPT !.timedOut = FALSE]

SelectWaits ==
  /\ InSelect /\ (call.op = "sendTo" \/ ~Readable) /\ call.left > 0
  /\ call' = [call EXCEPT !.left = @ - 1]
  /\ UNCHANGED result

SelectReturns ==
  /\ InSelect /\ (call.op = "sendTo" \/ Readable)
  /\ call' = [call EXCEPT !.phase = "call"]
  /\ result' = Cleared

SelectTimesOut ==
  /\ InSelect /\ (call.op = "sendTo" \/ ~Readable) /\ call.left = 0
  /\ call' = [call EXCEPT !.phase = "returned"]
  /\ result' = [Cleared EXCEPT !.timedOut = TRUE]

(* A datagram receive reports a failed select as a timeout, the others       *)
(* report neither a timeout nor a success.                                   *)
SelectFails ==
  /\ InSelect
  /\ call' = [call EXCEPT !.phase = "returned", !.failed = TRUE]
  /\ result' = [Cleared EXCEPT !.timedOut = (call.op = "receiveFrom")]

InCall(op) == call.op = op /\ call.phase = "call"

Returns(taken, success, thrown) ==
  call' = [call EXCEPT !.phase = "returned", !.taken = taken, !.success = success, !.thrown = thrown]

(* Slip: the socket to accept into is not looked at. *)
VacantAny(s) == TRUE

(* accept does nothing when the object already has a descriptor. *)
Vacant(s) == mSocket[s] = INVALID_SOCKET

Listening(s) == Valid(s) /\ At(s).kind = "listening"

AcceptConnection ==
  LET s == call.socket
  IN  /\ InCall("accept") /\ Vacant(call.remote) /\ Listening(s) /\ At(s).arrived # <<>>
      /\ \E fd \in NextFd :
           /\ mSocket' = [mSocket EXCEPT ![call.remote] = fd]
           /\ endpoint' = [endpoint EXCEPT ![fd] = Fresh("connected"),
                                           ![mSocket[s]].arrived = Tail(@)]
      /\ Returns(<<Head(At(s).arrived)>>, TRUE, FALSE)
      /\ UNCHANGED <<mBindPort, result>>

(* A connection is there, but no descriptor: the system keeps it.            *)
AcceptNothing ==
  LET s == call.socket
      vacant == Vacant(call.remote)
  IN  /\ InCall("accept")
      /\ vacant /\ Listening(s) => At(s).arrived # <<>>
      /\ Returns(<<>>, FALSE, vacant)
      /\ UNCHANGED <<objectVars, endpoint, result>>

CanReceive(s) == Valid(s) /\ At(s).kind \in {"connected", "datagram"}

(* How much one call takes: a datagram, any part of what has arrived of a    *)
(* stream (at most as much as the buffer takes), or nothing at its end.      *)
Amounts(s) ==
  {n \in 0 .. Len(At(s).arrived) :
     IF n = 0 THEN At(s).arrived = <<>> /\ At(s).ended ELSE At(s).kind = "datagram" => n = 1}

Takes(s, n) ==
  /\ Returns(SubSeq(At(s).arrived, 1, n), TRUE, FALSE)
  /\ endpoint' = [endpoint EXCEPT ![mSocket[s]].arrived = SubSeq(@, n + 1, Len(@))]
  /\ UNCHANGED objectVars

(* What a call takes is a success, the end of the stream too. *)
ReceiveData ==
  LET s == call.socket
  IN  /\ InCall("receive") /\ CanReceive(s)
      /\ \E n \in Amounts(s) :
           /\ Takes(s, n)
           /\ result' = [result EXCEPT !.recvDataLength = ByteCount(SubSeq(At(s).arrived, 1, n))]

(* A stream that has ended may also give an error, and what is neither a     *)
(* stream nor for datagrams gives nothing else.                              *)
ReceiveError ==
  LET s == call.socket
  IN  /\ InCall("receive") /\ (CanReceive(s) => At(s).ended)
      /\ Returns(<<>>, FALSE, FALSE)
      /\ result' = [result EXCEPT !.recvDataLength = 0]
      /\ UNCHANGED <<objectVars, endpoint>>

ReceivedFrom(sockAddr) ==
  LET from == FromSockAddr(sockAddr, result.address, result.port)
  IN  [result EXCEPT !.address = from.address, !.port = from.port]

(* What recvAddr may hold when nothing was written to it. *)
Uninitialised == Hosts \cup {[sin_family |-> "?", sin_addr |-> ADDRESS_ANY, sin_port |-> 0]}

(* The system writes recvAddr for a datagram only. *)
Senders(taken) ==
  IF taken = <<>> \/ taken[1] = Piece THEN Uninitialised ELSE {taken[1].from}

ReceiveDatagram ==
  LET s == call.socket
  IN  /\ InCall("receiveFrom") /\ CanReceive(s)
      /\ \E n \in Amounts(s) :
           LET taken == SubSeq(At(s).arrived, 1, n)
           IN  /\ Takes(s, n)
               /\ \E sockAddr \in Senders(taken) :
                    result' = [ReceivedFrom(sockAddr) EXCEPT !.recvDataLength = ByteCount(taken)]

(* The address is converted before the answer is looked at; the length       *)
(* stays that of an earlier call.                                            *)
ReceiveDatagramError ==
  LET s == call.socket
  IN  /\ InCall("receiveFrom") /\ (CanReceive(s) => At(s).ended)
      /\ Returns(<<>>, FALSE, FALSE)
      /\ \E sockAddr \in Senders(<<>>) : result' = ReceivedFrom(sockAddr)
      /\ UNCHANGED <<objectVars, endpoint>>

SendTo ==
  LET s == call.socket
  IN  /\ InCall("sendTo")
      /\ \E success \in BOOLEAN :
           /\ success => CanReceive(s)
           /\ Returns(<<>>, success, FALSE)
      /\ UNCHANGED <<objectVars, endpoint, result>>

-----------------------------------------------------------------------------
(* The system *)

Arrives(fd) ==
  /\ endpoint[fd].kind \in {"listening", "connected", "datagram"}
  /\ Len(endpoint[fd].arrived) < MaxArrived /\ ~endpoint[fd].ended
  /\ \E arrival \in Arrival :
       /\ arrival = Piece <=> endpoint[fd].kind # "datagram"
       /\ endpoint' = [endpoint EXCEPT ![fd].arrived = Append(@, arrival)]
  /\ UNCHANGED call

(* A connection is given up before it is accepted, or a datagram is found    *)
(* damaged when it is read.                                                  *)
Vanishes(fd) ==
  /\ endpoint[fd].kind \in {"listening", "datagram"} /\ endpoint[fd].arrived # <<>>
  /\ endpoint' = [endpoint EXCEPT ![fd].arrived = Tail(@)]
  /\ call' = [call EXCEPT !.vanished = (call.phase = "call")]

PeerCloses(fd) ==
  /\ endpoint[fd].kind = "connected" /\ ~endpoint[fd].ended
  /\ endpoint' = [endpoint EXCEPT ![fd].ended = TRUE]
  /\ UNCHANGED call

System == (\E fd \in Fds : Arrives(fd) \/ Vanishes(fd) \/ PeerCloses(fd)) /\ UNCHANGED <<objectVars, result>>

-----------------------------------------------------------------------------
Calls(s) ==
  \/ ConstructEmpty(s) \/ (\E type \in {"stream", "raw"} : Construct(s, type)) \/ Destroy(s)
  \/ \E host \in Hosts : bind(s, ntohs(host.sin_port))
  \/ connect(s) \/ listen(s) \/ close(s) \/ SendStream(s)
  \/ \E timeout \in Timeouts : SendStreamTimed(s, timeout)
  \/ \E host \in Hosts : Membership(s, host.sin_addr)
  \/ Options(s) \/ NotImplemented(s)
  \/ \E op \in Waiting, remote \in Sockets, timeout \in Timeouts \cup {Untimed} :
       BeginCall(op, s, remote, timeout)

Thread ==
  \/ SelectWaits \/ SelectReturns \/ SelectTimesOut
  \/ AcceptConnection \/ AcceptNothing \/ ReceiveData \/ ReceiveError
  \/ ReceiveDatagram \/ ReceiveDatagramError \/ SendTo

Next ==
  \/ \E s \in Sockets : Calls(s)
  \/ Thread \/ SelectFails \/ Return
  \/ System

(* The thread is scheduled, and its timer runs. *)
Spec == Init /\ [][Next]_vars /\ WF_vars(Thread)

-----------------------------------------------------------------------------
(* Every open descriptor belongs to exactly one socket object, and every     *)
(* object's descriptor is open: nothing leaks and nothing is closed twice,   *)
(* however accept, the constructors and the destructor use descriptors again.*)
OwnersAgree ==
  /\ \A s \in Sockets : Valid(s) => mSocket[s] \in Fds /\ At(s) # Closed
  /\ \A s, t \in Sockets : Valid(s) /\ mSocket[s] = mSocket[t] => s = t
  /\ \A fd \in Fds : endpoint[fd] # Closed => \E s \in Sockets : mSocket[s] = fd

(* What the caller's variables say after a call is about that call: a        *)
(* success comes with the length of what was taken and, for a datagram, with *)
(* its sender; a timeout with the whole time waited and nothing taken.  This *)
(* is not so of the address after a receiveFrom from a stream, which is made *)
(* of what was on the stack, and not of timedOut after a failed select of a  *)
(* datagram receive, nor after the stream send with timeout.                 *)
ReportsAreTrue ==
  call.phase = "returned" =>
    /\ call.op \in {"receive", "receiveFrom"} /\ call.success =>
         result.recvDataLength = ByteCount(call.taken)
    /\ call.op = "receiveFrom" /\ call.success /\ call.taken # <<>> /\ call.taken[1] # Piece =>
         ToSockAddr(result.address, result.port) = call.taken[1].from
    /\ call.timeout # Untimed /\ call.op # "send" /\ result.timedOut =>
         /\ ~call.success /\ call.taken = <<>>
         /\ (call.op = "receiveFrom" /\ call.failed) \/ call.left = 0

(* A call that throws leaves the sockets as they were. *)
ThrowsChangeNothing ==
  [][~call.thrown /\ call'.thrown => UNCHANGED <<objectVars, endpoint>>]_vars

(* A call with a timeout returns, unless the system takes back what select   *)
(* has seen.                                                                 *)
TimedCallsReturn == call.timeout # Untimed ~> call.phase = "returned" \/ call.vanished
=============================================================================
