---------------------------- MODULE CSocket_proofs ----------------------------
(***************************************************************************)
(* Who owns which descriptor, what a call reports and what a call that     *)
(* throws leaves behind, for any sockets, descriptors, timeouts and hosts. *)
(***************************************************************************)
EXTENDS CSocket, TLAPS

Kinds == {"closed", "stream", "datagram", "listening", "connected"}

Ports == {PORT_ANY} \cup {ntohs(host.sin_port) : host \in Hosts}

Endpoint == [kind : Kinds, arrived : Seq(Arrival), ended : BOOLEAN, port : Ports]

CallType ==
  [op : Waiting \cup {"none", "send"}, socket : Sockets \cup {NoObject}, remote : Sockets \cup {NoObject},
   phase : {"none", "select", "call", "returned"}, timeout : Timeouts \cup {Untimed}, left : Int,
   taken : Seq(Arrival), vanished : BOOLEAN, failed : BOOLEAN, success : BOOLEAN, thrown : BOOLEAN]

TypeOK ==
  /\ mSocket \in [Sockets -> Fds \cup {INVALID_SOCKET, NoObject}]
  /\ endpoint \in [Fds -> Endpoint]
  /\ call \in CallType

(* The sockets of a call that waits exist in the program. *)
InProgress == call.phase \in {"select", "call"} => call.socket \in Sockets /\ call.remote \in Sockets

(* A descriptor that is closed has nothing left. *)
ClosedIsClosed == \A fd \in Fds : endpoint[fd].kind = "closed" <=> endpoint[fd] = Closed

OwnersInv == TypeOK /\ InProgress /\ ClosedIsClosed /\ OwnersAgree

-----------------------------------------------------------------------------
LEMMA ClosedType == Closed \in Endpoint /\ Closed.kind = "closed"
BY DEF Closed, Endpoint, Kinds, Ports

LEMMA FreshType ==
  ASSUME NEW kind \in Kinds
  PROVE  Fresh(kind) \in Endpoint /\ Fresh(kind).kind = kind
BY ClosedType DEF Fresh, Endpoint

LEMMA NoCallType == NoCall \in CallType
BY DEF NoCall, CallType, Untimed

LEMMA ValidFd ==
  ASSUME TypeOK, NEW s \in Sockets
  PROVE  /\ Valid(s) <=> mSocket[s] \in Fds
         /\ mSocket[s] \in Fds \cup {INVALID_SOCKET, NoObject}
         /\ INVALID_SOCKET \notin Fds /\ NoObject \notin Fds /\ INVALID_SOCKET # NoObject
<1>1. /\ Fds \subseteq Nat /\ INVALID_SOCKET \notin Nat /\ NoObject \notin Nat
      /\ INVALID_SOCKET # NoObject /\ ~(INVALID_SOCKET >= 0) /\ ~(NoObject >= 0)
  <2>1. Fds \subseteq Nat  BY SocketAssumption
  <2>2. -1 \notin Nat /\ -2 \notin Nat /\ -1 # -2 /\ ~(-1 >= 0) /\ ~(-2 >= 0)  OBVIOUS
  <2>3. QED  BY <2>1, <2>2 DEF INVALID_SOCKET, NoObject
<1>2. mSocket[s] \in Fds \cup {INVALID_SOCKET, NoObject}  BY DEF TypeOK
<1>3. ASSUME mSocket[s] \in Fds PROVE Valid(s)
  <2>1. mSocket[s] \in Nat  BY <1>1, <1>3
  <2>2. QED  BY <2>1 DEF Valid
<1>4. ASSUME mSocket[s] \notin Fds PROVE ~Valid(s)
  BY <1>1, <1>2, <1>4 DEF Valid
<1>5. QED  BY <1>1, <1>2, <1>3, <1>4

(* A step that leaves the objects alone and keeps open what is open.         *)
LEMMA SameOwners ==
  ASSUME ClosedIsClosed, OwnersAgree, TypeOK, UNCHANGED mSocket, endpoint' \in [Fds -> Endpoint],
         \A fd \in Fds : \/ endpoint'[fd] = endpoint[fd]
                         \/ endpoint[fd].kind # "closed" /\ endpoint'[fd].kind # "closed"
  PROVE  ClosedIsClosed' /\ OwnersAgree'
<1>1. \A fd \in Fds : /\ endpoint'[fd].kind = "closed" <=> endpoint'[fd] = Closed
                      /\ endpoint'[fd] = Closed <=> endpoint[fd] = Closed
  BY ClosedType DEF ClosedIsClosed
<1>2. \A s \in Sockets : Valid(s)' <=> Valid(s)
  BY DEF Valid
<1>3. \A s \in Sockets : Valid(s) => mSocket[s] \in Fds /\ endpoint'[mSocket'[s]] # Closed
  BY <1>1 DEF OwnersAgree, At
<1>4. QED  BY <1>1, <1>2, <1>3 DEF ClosedIsClosed, OwnersAgree, At

(* A step that changes one endpoint that is open. *)
LEMMA OneEndpoint ==
  ASSUME OwnersInv, UNCHANGED mSocket, NEW fd \in Fds, NEW e \in Endpoint,
         endpoint[fd].kind # "closed", e.kind # "closed",
         endpoint' = [endpoint EXCEPT ![fd] = e]
  PROVE  endpoint' \in [Fds -> Endpoint] /\ ClosedIsClosed' /\ OwnersAgree'
<1>1. endpoint' \in [Fds -> Endpoint] /\ endpoint'[fd] = e
      /\ \A other \in Fds : other # fd => endpoint'[other] = endpoint[other]
  BY DEF OwnersInv, TypeOK
<1>2. QED  BY <1>1, SameOwners DEF OwnersInv

(* A step that changes no endpoint and no object. *)
LEMMA NoEndpoint ==
  ASSUME OwnersInv, UNCHANGED <<mSocket, endpoint>>
  PROVE  endpoint' \in [Fds -> Endpoint] /\ ClosedIsClosed' /\ OwnersAgree'
BY DEF OwnersInv, TypeOK, ClosedIsClosed, OwnersAgree, Valid, At

(* A closed descriptor is given to an object that has none. *)
LEMMA NewOwner ==
  ASSUME OwnersInv, NEW s \in Sockets, ~Valid(s), NEW fd \in FreeFds, NEW e \in Endpoint, e.kind # "closed",
         NEW table \in [Fds -> Endpoint], \A other \in Fds \ {fd} :
           table[other] = endpoint[other] \/ (table[other].kind # "closed" /\ endpoint[other].kind # "closed"),
         table[fd] = e, endpoint' = table, mSocket' = [mSocket EXCEPT ![s] = fd]
  PROVE  endpoint' \in [Fds -> Endpoint] /\ mSocket' \in [Sockets -> Fds \cup {INVALID_SOCKET, NoObject}]
         /\ ClosedIsClosed' /\ OwnersAgree'
<1>1. fd \in Fds /\ endpoint[fd] = Closed  BY DEF FreeFds
<1>2. /\ mSocket' \in [Sockets -> Fds \cup {INVALID_SOCKET, NoObject}] /\ mSocket'[s] = fd
      /\ \A t \in Sockets : t # s => mSocket'[t] = mSocket[t]
  BY <1>1 DEF OwnersInv, TypeOK
<1>3. \A t \in Sockets : mSocket[t] # fd
  BY <1>1, ValidFd DEF OwnersInv, OwnersAgree, At
<1>4. \A other \in Fds : /\ endpoint'[other].kind = "closed" <=> endpoint'[other] = Closed
                         /\ other # fd => (endpoint'[other] = Closed <=> endpoint[other] = Closed)
  BY ClosedType DEF OwnersInv, ClosedIsClosed
<1>5. endpoint'[fd] # Closed  BY ClosedType
<1>6. \A t \in Sockets : t # s /\ mSocket[t] \in Fds => endpoint'[mSocket[t]] # Closed
  BY <1>3, <1>4, ValidFd DEF OwnersInv, OwnersAgree, At
<1>7. \A t \in Sockets : Valid(t)' <=> mSocket'[t] \in Fds
  <2> TAKE t \in Sockets
  <2>1. CASE t = s  BY <1>1, <1>2, <2>1, SocketAssumption DEF Valid
  <2>2. CASE t # s  BY <1>2, <2>2, ValidFd DEF OwnersInv, Valid
  <2>3. QED  BY <2>1, <2>2
<1>8. \A t \in Sockets : Valid(t)' => mSocket'[t] \in Fds /\ endpoint'[mSocket'[t]] # Closed
  BY <1>1, <1>2, <1>5, <1>6, <1>7
<1>9. \A t, u \in Sockets : Valid(t)' /\ mSocket'[t] = mSocket'[u] => t = u
  <2> SUFFICES ASSUME NEW t \in Sockets, NEW u \in Sockets, Valid(t)', mSocket'[t] = mSocket'[u]
               PROVE  t = u
    OBVIOUS
  <2>1. CASE t # s /\ u # s
    <3>1. mSocket[t] \in Fds /\ mSocket[t] = mSocket[u]  BY <1>2, <1>7, <2>1
    <3>2. QED  BY <3>1, ValidFd DEF OwnersInv, OwnersAgree
  <2>2. QED  BY <1>2, <1>3, <2>1
<1>10. \A other \in Fds : endpoint'[other] # Closed => \E t \in Sockets : mSocket'[t] = other
  <2> SUFFICES ASSUME NEW other \in Fds, endpoint'[other] # Closed, other # fd
               PROVE  \E t \in Sockets : mSocket'[t] = other
    BY <1>2
  <2>1. PICK t \in Sockets : mSocket[t] = other  BY <1>4 DEF OwnersInv, OwnersAgree
  <2>2. t # s  BY <2>1, ValidFd DEF OwnersInv
  <2>3. QED  BY <1>2, <2>1, <2>2
<1>11. QED  BY <1>2, <1>4, <1>8, <1>9, <1>10 DEF ClosedIsClosed, OwnersAgree, At

(* An object goes, and its descriptor with it. *)
LEMMA GoneOwner ==
  ASSUME OwnersInv, NEW s \in Sockets, Destroy(s)
  PROVE  endpoint' \in [Fds -> Endpoint] /\ mSocket' \in [Sockets -> Fds \cup {INVALID_SOCKET, NoObject}]
         /\ ClosedIsClosed' /\ OwnersAgree'
<1>1. /\ mSocket' \in [Sockets -> Fds \cup {INVALID_SOCKET, NoObject}] /\ mSocket'[s] = NoObject
      /\ \A t \in Sockets : t # s => mSocket'[t] = mSocket[t]
  BY DEF Destroy, OwnersInv, TypeOK
<1>2. /\ endpoint' \in [Fds -> Endpoint]
      /\ \A fd \in Fds : fd # mSocket[s] => endpoint'[fd] = endpoint[fd]
      /\ \A fd \in Fds : fd = mSocket[s] => endpoint'[fd] = Closed
  <2>1. endpoint \in [Fds -> Endpoint]  BY DEF OwnersInv, TypeOK
  <2>2. Valid(s) <=> mSocket[s] \in Fds  BY ValidFd DEF OwnersInv
  <2>3. endpoint' = IF Valid(s) THEN [endpoint EXCEPT ![mSocket[s]] = Closed] ELSE endpoint
    BY DEF Destroy
  <2>4. CASE Valid(s)  BY <2>1, <2>2, <2>3, <2>4, ClosedType
  <2>5. CASE ~Valid(s)  BY <2>1, <2>2, <2>3, <2>5
  <2>6. QED  BY <2>4, <2>5
<1>3. ClosedIsClosed'
  BY <1>2, ClosedType DEF ClosedIsClosed, OwnersInv
<1>4. \A t \in Sockets : Valid(t)' <=> t # s /\ Valid(t)
  BY <1>1 DEF Valid, NoObject
<1>5. \A t \in Sockets : Valid(t)' => mSocket'[t] \in Fds /\ endpoint'[mSocket'[t]] # Closed
  <2> SUFFICES ASSUME NEW t \in Sockets, Valid(t)'
               PROVE  mSocket'[t] \in Fds /\ endpoint'[mSocket'[t]] # Closed
    OBVIOUS
  <2>1. t # s /\ Valid(t) /\ mSocket'[t] = mSocket[t]  BY <1>1, <1>4
  <2>2. mSocket[t] \in Fds /\ endpoint[mSocket[t]] # Closed /\ mSocket[t] # mSocket[s]
    BY <2>1 DEF OwnersInv, OwnersAgree, At
  <2>3. QED  BY <1>2, <2>1, <2>2
<1>6. \A t, u \in Sockets : Valid(t)' /\ mSocket'[t] = mSocket'[u] => t = u
  <2> SUFFICES ASSUME NEW t \in Sockets, NEW u \in Sockets, Valid(t)', mSocket'[t] = mSocket'[u]
               PROVE  t = u
    OBVIOUS
  <2>1. u # s  BY <1>1, <1>4, <1>5, ValidFd DEF OwnersInv
  <2>2. Valid(t) /\ mSocket[t] = mSocket[u]  BY <1>1, <1>4, <2>1
  <2>3. QED  BY <2>2 DEF OwnersInv, OwnersAgree
<1>7. \A fd \in Fds : endpoint'[fd] # Closed => \E t \in Sockets : mSocket'[t] = fd
  <2> SUFFICES ASSUME NEW fd \in Fds, endpoint'[fd] # Closed
               PROVE  \E t \in Sockets : mSocket'[t] = fd
    OBVIOUS
  <2>1. fd # mSocket[s] /\ endpoint[fd] # Closed  BY <1>2
  <2>2. PICK t \in Sockets : mSocket[t] = fd  BY <2>1 DEF OwnersInv, OwnersAgree
  <2>3. QED  BY <1>1, <2>1, <2>2
<1>8. QED  BY <1>1, <1>2, <1>3, <1>5, <1>6, <1>7 DEF OwnersAgree, At

(* An object that has no descriptor before and after. *)
LEMMA NoDescriptor ==
  ASSUME OwnersInv, NEW s \in Sockets, ~Valid(s), UNCHANGED endpoint,
         NEW value \in {INVALID_SOCKET, NoObject}, mSocket' = [mSocket EXCEPT ![s] = value]
  PROVE  endpoint' \in [Fds -> Endpoint] /\ mSocket' \in [Sockets -> Fds \cup {INVALID_SOCKET, NoObject}]
         /\ ClosedIsClosed' /\ OwnersAgree'
<1>1. /\ mSocket' \in [Sockets -> Fds \cup {INVALID_SOCKET, NoObject}] /\ mSocket'[s] = value
      /\ \A t \in Sockets : t # s => mSocket'[t] = mSocket[t]
  BY DEF OwnersInv, TypeOK
<1>2. ~(value >= 0) /\ value \notin Fds /\ mSocket[s] \notin Fds
  BY ValidFd DEF OwnersInv, INVALID_SOCKET, NoObject
<1>3. \A t \in Sockets : Valid(t)' <=> t # s /\ Valid(t)
  BY <1>1, <1>2 DEF Valid
<1>4. \A t \in Sockets : Valid(t) => mSocket[t] \in Fds /\ endpoint[mSocket[t]] # Closed
  BY DEF OwnersInv, OwnersAgree, At
<1>5. \A t \in Sockets : Valid(t)' => mSocket'[t] \in Fds /\ endpoint'[mSocket'[t]] # Closed
  BY <1>1, <1>3, <1>4
<1>6. \A t, u \in Sockets : Valid(t)' /\ mSocket'[t] = mSocket'[u] => t = u
  <2> SUFFICES ASSUME NEW t \in Sockets, NEW u \in Sockets, Valid(t)', mSocket'[t] = mSocket'[u]
               PROVE  t = u
    OBVIOUS
  <2>1. u # s  BY <1>1, <1>2, <1>5
  <2>2. Valid(t) /\ mSocket[t] = mSocket[u]  BY <1>1, <1>3, <2>1
  <2>3. QED  BY <2>2 DEF OwnersInv, OwnersAgree
<1>7. \A fd \in Fds : endpoint'[fd] # Closed => \E t \in Sockets : mSocket'[t] = fd
  BY <1>1, <1>2 DEF OwnersInv, OwnersAgree
<1>8. QED  BY <1>1, <1>5, <1>6, <1>7 DEF OwnersInv, TypeOK, ClosedIsClosed, OwnersAgree, At

-----------------------------------------------------------------------------
(* What becomes of the call. *)
LEMMA SimpleCall ==
  ASSUME NEW ok \in BOOLEAN, Simple(ok)
  PROVE  call' \in CallType /\ InProgress'
BY NoCallType DEF Simple, CallType, InProgress

LEMMA ReturnsCall ==
  ASSUME call \in CallType, NEW taken \in Seq(Arrival), NEW success \in BOOLEAN, NEW thrown \in BOOLEAN,
         Returns(taken, success, thrown)
  PROVE  call' \in CallType /\ InProgress'
BY DEF Returns, CallType, InProgress

LEMMA BeginsCall ==
  ASSUME NEW s \in Sockets, NEW op \in Waiting, NEW remote \in Sockets,
         NEW timeout \in Timeouts \cup {Untimed}, BeginCall(op, s, remote, timeout)
  PROVE  call' \in CallType /\ InProgress'
<1> DEFINE left == IF timeout = Untimed THEN 0 ELSE Microseconds(TimeoutInterval(timeout))
<1>1. left \in Int
  <2>1. CASE timeout = Untimed  BY <2>1
  <2>2. CASE timeout # Untimed
    <3>1. timeout \in Nat /\ Thousand \in Nat \ {0}  BY <2>2, SocketAssumption
    <3>2. timeout % Thousand \in Int  BY <3>1
    <3>3. (timeout - (timeout % Thousand)) \div Thousand \in Int  BY <3>1, <3>2
    <3>4. TimeoutInterval(timeout).tv_sec \in Int /\ TimeoutInterval(timeout).tv_usec \in Int
      BY <3>1, <3>2, <3>3 DEF TimeoutInterval
    <3>5. QED  BY <2>2, <3>1, <3>4 DEF Microseconds
  <2>3. QED  BY <2>1, <2>2
<1>2. FirstPhase(timeout) \in {"select", "call"}  BY DEF FirstPhase
<1> HIDE DEF left
<1>3. call' = [NoCall EXCEPT
                !.op = op, !.socket = s, !.remote = remote, !.timeout = timeout,
                !.phase = FirstPhase(timeout), !.left = left]
  BY DEF BeginCall, left
<1>4. QED  BY <1>1, <1>2, <1>3, NoCallType DEF CallType, InProgress, NoCall

-----------------------------------------------------------------------------
(* The steps *)
LEMMA BecomesOwners ==
  ASSUME OwnersInv, NEW s \in Sockets, NEW kind \in Kinds \ {"closed"}, UNCHANGED mSocket, Becomes(s, kind)
  PROVE  endpoint' \in [Fds -> Endpoint] /\ ClosedIsClosed' /\ OwnersAgree'
<1>1. CASE Valid(s) /\ At(s).kind = "stream"
  <2>1. mSocket[s] \in Fds /\ endpoint[mSocket[s]] \in Endpoint /\ endpoint[mSocket[s]].kind = "stream"
    BY <1>1, ValidFd DEF OwnersInv, TypeOK, At
  <2> DEFINE e == [endpoint[mSocket[s]] EXCEPT !.kind = kind]
  <2>2. e \in Endpoint /\ e.kind # "closed"  BY <2>1 DEF Endpoint
  <2>3. endpoint' = [endpoint EXCEPT ![mSocket[s]] = e]  BY <1>1 DEF Becomes
  <2> HIDE DEF e
  <2>4. QED  BY <2>1, <2>2, <2>3, OneEndpoint
<1>2. CASE ~(Valid(s) /\ At(s).kind = "stream")
  BY <1>2, NoEndpoint DEF Becomes
<1>3. QED  BY <1>1, <1>2

LEMMA bindOwners ==
  ASSUME OwnersInv, NEW s \in Sockets, NEW port \in Ports, bind(s, port)
  PROVE  OwnersInv'
<1>1. CanBind(s, port) \in BOOLEAN  BY DEF CanBind
<1>2. call' \in CallType /\ InProgress'  BY <1>1, SimpleCall DEF bind
<1>3. endpoint' \in [Fds -> Endpoint] /\ ClosedIsClosed' /\ OwnersAgree'
  <2>1. CASE CanBind(s, port)
    <3>1. Valid(s) /\ mSocket[s] \in Fds /\ endpoint[mSocket[s]] \in Endpoint /\ endpoint[mSocket[s]] # Closed
      BY <2>1, ValidFd DEF OwnersInv, OwnersAgree, TypeOK, CanBind, At
    <3> DEFINE e == [endpoint[mSocket[s]] EXCEPT !.port = port]
    <3>2. e \in Endpoint /\ e.kind = endpoint[mSocket[s]].kind  BY <3>1 DEF Endpoint
    <3>3. endpoint[mSocket[s]].kind # "closed"  BY <3>1 DEF OwnersInv, ClosedIsClosed
    <3>4. endpoint' = [endpoint EXCEPT ![mSocket[s]] = e]  BY <2>1 DEF bind
    <3> HIDE DEF e
    <3>5. QED  BY <3>1, <3>2, <3>3, <3>4, OneEndpoint DEF bind
  <2>2. CASE ~CanBind(s, port)  BY <2>2, NoEndpoint DEF bind
  <2>3. QED  BY <2>1, <2>2
<1>4. QED  BY <1>2, <1>3 DEF OwnersInv, TypeOK, bind

LEMMA closeOwners ==
  ASSUME OwnersInv, NEW s \in Sockets, close(s)
  PROVE  OwnersInv'
<1> DEFINE connected == Valid(s) /\ At(s).kind = "connected"
<1>1. Simple(connected) /\ connected \in BOOLEAN  BY DEF close
<1>2. call' \in CallType /\ InProgress'
  <2> HIDE DEF connected
  <2>1. QED  BY <1>1, SimpleCall
<1>3. endpoint' \in [Fds -> Endpoint] /\ ClosedIsClosed' /\ OwnersAgree'
  <2>1. CASE connected
    <3>1. mSocket[s] \in Fds /\ endpoint[mSocket[s]] \in Endpoint /\ endpoint[mSocket[s]].kind = "connected"
      BY <2>1, ValidFd DEF OwnersInv, TypeOK, At
    <3> DEFINE e == [endpoint[mSocket[s]] EXCEPT !.ended = TRUE]
    <3>2. e \in Endpoint /\ e.kind = "connected"  BY <3>1 DEF Endpoint
    <3>3. endpoint' = [endpoint EXCEPT ![mSocket[s]] = e]  BY <2>1 DEF close
    <3> HIDE DEF e
    <3>4. QED  BY <3>1, <3>2, <3>3, OneEndpoint DEF close, objectVars
  <2>2. CASE ~connected  BY <2>2, NoEndpoint DEF close, objectVars
  <2>3. QED  BY <2>1, <2>2
<1>4. QED  BY <1>2, <1>3 DEF OwnersInv, TypeOK, close, objectVars

LEMMA ConstructOwners ==
  ASSUME OwnersInv, NEW s \in Sockets, NEW type, Construct(s, type)
  PROVE  OwnersInv'
<1>1. call' \in CallType /\ InProgress'  BY SimpleCall DEF Construct
<1>2. CASE \E fd \in NextFd :
             /\ mSocket' = [mSocket EXCEPT ![s] = fd]
             /\ endpoint' = [endpoint EXCEPT ![fd] = Fresh(TranslateSocketType(type))]
  <2>1. PICK fd \in FreeFds :
               /\ mSocket' = [mSocket EXCEPT ![s] = fd]
               /\ endpoint' = [endpoint EXCEPT ![fd] = Fresh(TranslateSocketType(type))]
    BY <1>2 DEF NextFd
  <2> DEFINE e == Fresh(TranslateSocketType(type))
  <2>2. TranslateSocketType(type) \in Kinds \ {"closed"}  BY DEF TranslateSocketType, Kinds
  <2>3. e \in Endpoint /\ e.kind # "closed"  BY <2>2, FreshType
  <2>4. ~Valid(s)  BY DEF Construct, Exists, Valid, NoObject
  <2> HIDE DEF e
  <2>5. /\ endpoint' \in [Fds -> Endpoint] /\ endpoint'[fd] = e
        /\ \A other \in Fds \ {fd} : endpoint'[other] = endpoint[other]
    BY <2>1, <2>3 DEF OwnersInv, TypeOK, FreeFds, e
  <2>6. endpoint' \in [Fds -> Endpoint] /\ mSocket' \in [Sockets -> Fds \cup {INVALID_SOCKET, NoObject}]
        /\ ClosedIsClosed' /\ OwnersAgree'
    BY <2>1, <2>3, <2>4, <2>5, NewOwner
  <2>7. QED  BY <1>1, <2>6 DEF OwnersInv, TypeOK
<1>3. CASE UNCHANGED <<mSocket, endpoint>>
  BY <1>1, <1>3, NoEndpoint DEF OwnersInv, TypeOK
<1>4. QED  BY <1>2, <1>3 DEF Construct

LEMMA CallsOwners ==
  ASSUME OwnersInv, NEW s \in Sockets, Calls(s)
  PROVE  OwnersInv'
<1>1. CASE ConstructEmpty(s)
  <2>1. ~Valid(s)  BY <1>1 DEF ConstructEmpty, Exists, Valid, NoObject
  <2>2. call' \in CallType /\ InProgress'  BY <1>1, SimpleCall DEF ConstructEmpty
  <2>3. QED  BY <1>1, <2>1, <2>2, NoDescriptor DEF ConstructEmpty, OwnersInv, TypeOK
<1>2. CASE \E type \in {"stream", "raw"} : Construct(s, type)
  BY <1>2, ConstructOwners
<1>3. CASE Destroy(s)
  <2>1. call' \in CallType /\ InProgress'  BY <1>3, SimpleCall DEF Destroy
  <2>2. QED  BY <1>3, <2>1, GoneOwner DEF OwnersInv, TypeOK
<1>4. CASE \E host \in Hosts : bind(s, ntohs(host.sin_port))
  BY <1>4, bindOwners DEF Ports
<1>5. CASE connect(s) \/ listen(s)
  <2>1. call' \in CallType /\ InProgress'  BY <1>5, SimpleCall DEF connect, listen
  <2>2. UNCHANGED mSocket  BY <1>5 DEF connect, listen, objectVars
  <2>3. endpoint' \in [Fds -> Endpoint] /\ ClosedIsClosed' /\ OwnersAgree'
    BY <1>5, <2>2, BecomesOwners, NoEndpoint DEF connect, listen, Kinds
  <2>4. QED  BY <2>1, <2>2, <2>3 DEF OwnersInv, TypeOK
<1>6. CASE close(s)  BY <1>6, closeOwners
<1>7. CASE SendStream(s) \/ \E timeout \in Timeouts : SendStreamTimed(s, timeout)
  <2>1. call' \in CallType /\ InProgress'
    BY <1>7, NoCallType DEF SendStream, SendStreamTimed, CallType, InProgress
  <2>2. UNCHANGED <<mSocket, endpoint>>  BY <1>7 DEF SendStream, SendStreamTimed, objectVars
  <2>3. QED  BY <2>1, <2>2, NoEndpoint DEF OwnersInv, TypeOK
<1>8. CASE (\E host \in Hosts : Membership(s, host.sin_addr)) \/ Options(s) \/ NotImplemented(s)
  <2>1. call' \in CallType /\ InProgress'
    BY <1>8, SimpleCall DEF Membership, Options, NotImplemented
  <2>2. UNCHANGED <<mSocket, endpoint>>  BY <1>8 DEF Membership, Options, NotImplemented, objectVars
  <2>3. QED  BY <2>1, <2>2, NoEndpoint DEF OwnersInv, TypeOK
<1>9. CASE \E op \in Waiting, remote \in Sockets, timeout \in Timeouts \cup {Untimed} :
             BeginCall(op, s, remote, timeout)
  <2>1. call' \in CallType /\ InProgress'  BY <1>9, BeginsCall
  <2>2. UNCHANGED <<mSocket, endpoint>>  BY <1>9 DEF BeginCall, objectVars
  <2>3. QED  BY <2>1, <2>2, NoEndpoint DEF OwnersInv, TypeOK
<1>10. QED  BY <1>1, <1>2, <1>3, <1>4, <1>5, <1>6, <1>7, <1>8, <1>9 DEF Calls

-----------------------------------------------------------------------------
(* The call's own steps.  A call that is not at its end has its sockets. *)
LEMMA AcceptOwners ==
  ASSUME OwnersInv, AcceptConnection
  PROVE  OwnersInv'
<1> DEFINE s == call.socket
<1>1. s \in Sockets /\ call.remote \in Sockets /\ call \in CallType
  BY DEF AcceptConnection, InCall, OwnersInv, TypeOK, InProgress
<1>2. Valid(s) /\ mSocket[s] \in Fds /\ endpoint[mSocket[s]] \in Endpoint
      /\ endpoint[mSocket[s]].kind = "listening" /\ endpoint[mSocket[s]].arrived # <<>>
  BY <1>1, ValidFd DEF AcceptConnection, Listening, At, OwnersInv, TypeOK
<1>3. endpoint[mSocket[s]].arrived \in Seq(Arrival)  BY <1>2 DEF Endpoint
<1>4. Head(endpoint[mSocket[s]].arrived) \in Arrival /\ Tail(endpoint[mSocket[s]].arrived) \in Seq(Arrival)
  BY <1>2, <1>3
<1>5. call' \in CallType /\ InProgress'
  <2> DEFINE taken == <<Head(endpoint[mSocket[s]].arrived)>>
  <2>1. taken \in Seq(Arrival)  BY <1>4
  <2>2. Returns(taken, TRUE, FALSE)  BY DEF AcceptConnection, At
  <2> HIDE DEF taken
  <2>3. QED  BY <1>1, <2>1, <2>2, ReturnsCall
<1>6. PICK fd \in FreeFds :
         /\ mSocket' = [mSocket EXCEPT ![call.remote] = fd]
         /\ endpoint' = [endpoint EXCEPT ![fd] = Fresh("connected"), ![mSocket[s]].arrived = Tail(@)]
  BY DEF AcceptConnection, NextFd
<1>7. fd \in Fds /\ endpoint[fd] = Closed /\ fd # mSocket[s]
  BY <1>2, ClosedType DEF FreeFds
<1>8. Fresh("connected") \in Endpoint /\ Fresh("connected").kind # "closed"
  BY FreshType DEF Kinds
<1> DEFINE e == [endpoint[mSocket[s]] EXCEPT !.arrived = Tail(@)]
<1>9. e \in Endpoint /\ e.kind # "closed"  BY <1>2, <1>4 DEF Endpoint
<1>10. endpoint \in [Fds -> Endpoint]  BY DEF OwnersInv, TypeOK
<1>11. endpoint' = [endpoint EXCEPT ![fd] = Fresh("connected"), ![mSocket[s]] = e]
  BY <1>2, <1>6, <1>7, <1>10
<1> HIDE DEF e
<1>12. /\ endpoint' \in [Fds -> Endpoint] /\ endpoint'[fd] = Fresh("connected")
       /\ \A other \in Fds \ {fd} : \/ endpoint'[other] = endpoint[other]
                                    \/ endpoint'[other].kind # "closed" /\ endpoint[other].kind # "closed"
  <2>1. endpoint'[fd] = Fresh("connected") /\ endpoint'[mSocket[s]] = e
    BY <1>2, <1>7, <1>10, <1>11
  <2>2. \A other \in Fds \ {fd, mSocket[s]} : endpoint'[other] = endpoint[other]
    BY <1>10, <1>11
  <2>3. endpoint' \in [Fds -> Endpoint]  BY <1>2, <1>8, <1>9, <1>10, <1>11
  <2>4. \A other \in Fds \ {fd} : \/ endpoint'[other] = endpoint[other]
                                  \/ endpoint'[other].kind # "closed" /\ endpoint[other].kind # "closed"
    <3> TAKE other \in Fds \ {fd}
    <3>1. CASE other = mSocket[s]  BY <1>2, <1>9, <2>1, <3>1
    <3>2. CASE other # mSocket[s]  BY <2>2, <3>2
    <3>3. QED  BY <3>1, <3>2
  <2>5. QED  BY <2>1, <2>3, <2>4
<1>13. ~Valid(call.remote)  BY DEF AcceptConnection, Vacant, Valid, INVALID_SOCKET
<1>14. endpoint' \in [Fds -> Endpoint] /\ mSocket' \in [Sockets -> Fds \cup {INVALID_SOCKET, NoObject}]
       /\ ClosedIsClosed' /\ OwnersAgree'
  BY <1>1, <1>6, <1>8, <1>12, <1>13, NewOwner
<1>15. QED  BY <1>5, <1>14 DEF OwnersInv, TypeOK

(* What has arrived at an endpoint that is open changes. *)
LEMMA ArrivedOwners ==
  ASSUME OwnersInv, NEW fd \in Fds, endpoint[fd].kind # "closed", NEW arrived \in Seq(Arrival),
         UNCHANGED mSocket, endpoint' = [endpoint EXCEPT ![fd].arrived = arrived]
  PROVE  endpoint' \in [Fds -> Endpoint] /\ ClosedIsClosed' /\ OwnersAgree'
<1> DEFINE e == [endpoint[fd] EXCEPT !.arrived = arrived]
<1>1. e \in Endpoint /\ e.kind # "closed"  BY DEF Endpoint, OwnersInv, TypeOK
<1>2. endpoint' = [endpoint EXCEPT ![fd] = e]  OBVIOUS
<1> HIDE DEF e
<1>3. QED  BY <1>1, <1>2, OneEndpoint

LEMMA TakesOwners ==
  ASSUME OwnersInv, call.phase = "call", NEW s, s = call.socket, CanReceive(s), NEW n \in Amounts(s), Takes(s, n)
  PROVE  OwnersInv'
<1>1. s \in Sockets /\ call \in CallType
  BY DEF OwnersInv, TypeOK, InProgress
<1>2. mSocket[s] \in Fds /\ endpoint[mSocket[s]] \in Endpoint /\ endpoint[mSocket[s]].kind # "closed"
  BY <1>1, ValidFd DEF CanReceive, At, OwnersInv, TypeOK
<1> DEFINE arrived == endpoint[mSocket[s]].arrived
<1>3. arrived \in Seq(Arrival)  BY <1>2 DEF Endpoint
<1>4. /\ n \in 0 .. Len(arrived)
      /\ Returns(SubSeq(arrived, 1, n), TRUE, FALSE)
      /\ endpoint' = [endpoint EXCEPT ![mSocket[s]].arrived = SubSeq(arrived, n + 1, Len(arrived))]
  BY DEF Takes, Amounts, At
<1> HIDE DEF arrived
<1>5. SubSeq(arrived, 1, n) \in Seq(Arrival) /\ SubSeq(arrived, n + 1, Len(arrived)) \in Seq(Arrival)
  BY <1>3, <1>4
<1>6. call' \in CallType /\ InProgress'  BY <1>1, <1>4, <1>5, ReturnsCall
<1>7. UNCHANGED mSocket  BY DEF Takes, objectVars
<1>8. endpoint' \in [Fds -> Endpoint] /\ ClosedIsClosed' /\ OwnersAgree'
  BY <1>2, <1>4, <1>5, <1>7, ArrivedOwners
<1>9. QED  BY <1>6, <1>7, <1>8 DEF OwnersInv, TypeOK

LEMMA ReceivesOwners ==
  ASSUME OwnersInv, ReceiveData \/ ReceiveDatagram
  PROVE  OwnersInv'
<1>1. PICK n \in Amounts(call.socket) : Takes(call.socket, n)
  BY DEF ReceiveData, ReceiveDatagram
<1>2. call.phase = "call" /\ CanReceive(call.socket)
  BY DEF ReceiveData, ReceiveDatagram, InCall
<1>3. QED  BY <1>1, <1>2, TakesOwners

(* The other steps of a call change no socket. *)
QuietSteps ==
  \/ SelectWaits \/ SelectReturns \/ SelectTimesOut \/ SelectFails \/ Return
  \/ AcceptNothing \/ ReceiveError \/ ReceiveDatagramError \/ SendTo

LEMMA QuietOwners ==
  ASSUME OwnersInv, QuietSteps
  PROVE  OwnersInv' /\ UNCHANGED <<objectVars, endpoint>>
<1>1. UNCHANGED <<mSocket, mBindPort, endpoint>>
  BY DEF QuietSteps, SelectWaits, SelectReturns, SelectTimesOut, SelectFails, Return, AcceptNothing,
         ReceiveError, ReceiveDatagramError, SendTo, InSelect, objectVars
<1>2. call \in CallType /\ InProgress /\ <<>> \in Seq(Arrival)  BY DEF OwnersInv, TypeOK
<1>3. call' \in CallType /\ InProgress'
  <2>1. CASE SelectWaits
    <3>1. call' = [call EXCEPT !.left = call.left - 1] /\ call.left \in Int /\ call.left - 1 \in Int
      BY <1>2, <2>1 DEF SelectWaits, CallType
    <3>2. QED  BY <1>2, <3>1 DEF CallType, InProgress
  <2>2. CASE SelectReturns
    <3>1. call' = [call EXCEPT !.phase = "call"] /\ call.phase = "select"
      BY <2>2 DEF SelectReturns, InSelect
    <3>2. QED  BY <1>2, <3>1 DEF CallType, InProgress
  <2>3. CASE SelectTimesOut \/ SelectFails
    <3>1. \/ call' = [call EXCEPT !.phase = "returned"]
          \/ call' = [call EXCEPT !.phase = "returned", !.failed = TRUE]
      BY <2>3 DEF SelectTimesOut, SelectFails
    <3>2. QED  BY <1>2, <3>1 DEF CallType, InProgress
  <2>4. CASE Return
    BY <2>4, NoCallType DEF Return, InProgress, NoCall
  <2>5. CASE AcceptNothing
    <3>1. PICK vacant \in BOOLEAN : Returns(<<>>, FALSE, vacant)
      BY <2>5 DEF AcceptNothing, Vacant
    <3>2. QED  BY <1>2, <3>1, ReturnsCall
  <2>6. CASE ReceiveError \/ ReceiveDatagramError \/ SendTo
    <3>1. \E success \in BOOLEAN : Returns(<<>>, success, FALSE)
      BY <2>6 DEF ReceiveError, ReceiveDatagramError, SendTo
    <3>2. QED  BY <1>2, <3>1, ReturnsCall
  <2>7. QED  BY <2>1, <2>2, <2>3, <2>4, <2>5, <2>6 DEF QuietSteps
<1>4. QED  BY <1>1, <1>3, NoEndpoint DEF OwnersInv, TypeOK, objectVars

LEMMA SystemOwners ==
  ASSUME OwnersInv, System
  PROVE  OwnersInv'
<1>1. PICK fd \in Fds : Arrives(fd) \/ Vanishes(fd) \/ PeerCloses(fd)  BY DEF System
<1>2. UNCHANGED mSocket  BY DEF System, objectVars
<1>3. endpoint[fd] \in Endpoint /\ endpoint[fd].arrived \in Seq(Arrival) /\ call \in CallType /\ InProgress
  BY DEF OwnersInv, TypeOK, Endpoint
<1>4. CASE Arrives(fd)
  <2>1. PICK arrival \in Arrival :
          endpoint' = [endpoint EXCEPT ![fd].arrived = Append(endpoint[fd].arrived, arrival)]
    BY <1>4 DEF Arrives
  <2> DEFINE arrived == Append(endpoint[fd].arrived, arrival)
  <2>2. arrived \in Seq(Arrival) /\ endpoint' = [endpoint EXCEPT ![fd].arrived = arrived]  BY <1>3, <2>1
  <2> HIDE DEF arrived
  <2>3. endpoint[fd].kind # "closed"  BY <1>4 DEF Arrives
  <2>4. endpoint' \in [Fds -> Endpoint] /\ ClosedIsClosed' /\ OwnersAgree'
    BY <1>2, <2>2, <2>3, ArrivedOwners
  <2>5. QED  BY <1>2, <1>3, <1>4, <2>4 DEF Arrives, OwnersInv, TypeOK, InProgress
<1>5. CASE Vanishes(fd)
  <2> DEFINE arrived == Tail(endpoint[fd].arrived)
  <2>1. endpoint[fd].kind # "closed" /\ endpoint[fd].arrived # <<>>  BY <1>5 DEF Vanishes
  <2>2. arrived \in Seq(Arrival)  BY <1>3, <2>1
  <2>3. endpoint' = [endpoint EXCEPT ![fd].arrived = arrived]  BY <1>5 DEF Vanishes
  <2> HIDE DEF arrived
  <2>4. endpoint' \in [Fds -> Endpoint] /\ ClosedIsClosed' /\ OwnersAgree'
    BY <1>2, <2>1, <2>2, <2>3, ArrivedOwners
  <2>5. call' = [call EXCEPT !.vanished = (call.phase = "call")]  BY <1>5 DEF Vanishes
  <2>6. call' \in CallType /\ InProgress'  BY <1>3, <2>5 DEF CallType, InProgress
  <2>7. QED  BY <1>2, <2>4, <2>6 DEF OwnersInv, TypeOK
<1>6. CASE PeerCloses(fd)
  <2> DEFINE e == [endpoint[fd] EXCEPT !.ended = TRUE]
  <2>1. e \in Endpoint /\ e.kind = endpoint[fd].kind  BY <1>3 DEF Endpoint
  <2>2. endpoint' = [endpoint EXCEPT ![fd] = e] /\ endpoint[fd].kind # "closed"
    BY <1>6 DEF PeerCloses
  <2> HIDE DEF e
  <2>3. endpoint' \in [Fds -> Endpoint] /\ ClosedIsClosed' /\ OwnersAgree'
    BY <1>2, <2>1, <2>2, OneEndpoint
  <2>4. QED  BY <1>2, <1>3, <1>6, <2>3 DEF PeerCloses, OwnersInv, TypeOK, InProgress
<1>7. QED  BY <1>1, <1>4, <1>5, <1>6

LEMMA OwnersInit == Init => OwnersInv
<1> SUFFICES ASSUME Init PROVE OwnersInv
  OBVIOUS
<1>1. TypeOK  BY ClosedType, NoCallType DEF Init, TypeOK
<1>2. InProgress  BY DEF Init, InProgress, NoCall
<1>3. ClosedIsClosed  BY ClosedType DEF Init, ClosedIsClosed
<1>4. \A s \in Sockets : ~Valid(s)  BY DEF Init, Valid, NoObject
<1>5. OwnersAgree  BY <1>4 DEF Init, OwnersAgree
<1>6. QED  BY <1>1, <1>2, <1>3, <1>5 DEF OwnersInv

LEMMA OwnersStep ==
  ASSUME OwnersInv, [Next]_vars
  PROVE  OwnersInv'
<1>1. CASE \E s \in Sockets : Calls(s)  BY <1>1, CallsOwners
<1>2. CASE Thread \/ SelectFails \/ Return
  BY <1>2, AcceptOwners, ReceivesOwners, QuietOwners DEF Thread, QuietSteps
<1>3. CASE System  BY <1>3, SystemOwners
<1>4. CASE UNCHANGED vars
  BY <1>4 DEF vars, objectVars, OwnersInv, TypeOK, InProgress, ClosedIsClosed, OwnersAgree, Valid, At
<1>5. QED  BY <1>1, <1>2, <1>3, <1>4 DEF Next

LEMMA OwnersAlways == Spec => []OwnersInv
<1>1. Init => OwnersInv  BY OwnersInit
<1>2. OwnersInv /\ [Next]_vars => OwnersInv'  BY OwnersStep
<1>3. QED  BY <1>1, <1>2, PTL DEF Spec

(* Whatever is constructed, accepted and destroyed, with any numbers of      *)
(* sockets and descriptors, in CSocket's constructors, accept and destructor:*)
(* an open descriptor belongs to exactly one object, and a valid object's    *)
(* descriptor is open.                                                       *)
THEOREM OwnersAgreeHolds == Spec => []OwnersAgree
<1>1. OwnersInv => OwnersAgree  BY DEF OwnersInv
<1>2. QED  BY <1>1, OwnersAlways, PTL

-----------------------------------------------------------------------------
(* A call that ends in an exception. *)
LEMMA ThrowsStep ==
  ASSUME OwnersInv, [Next]_vars, ~call.thrown, call'.thrown
  PROVE  UNCHANGED <<objectVars, endpoint>>
<1>1. NoCall.thrown = FALSE  BY DEF NoCall
<1>2. call \in CallType  BY DEF OwnersInv, TypeOK
<1>3. ~Simple(TRUE)  BY DEF Simple, NoCall
<1>4. \A taken, success : ~Returns(taken, success, FALSE)
  BY <1>2 DEF Returns, CallType
<1>5. CASE \E s \in Sockets : Calls(s)
  <2>1. PICK s \in Sockets : Calls(s)  BY <1>5
  <2>2. CASE \E type \in {"stream", "raw"} : Construct(s, type)
    BY <1>3, <2>2 DEF Construct, objectVars
  <2>3. CASE \E host \in Hosts : bind(s, ntohs(host.sin_port))
    <3>1. PICK host \in Hosts : bind(s, ntohs(host.sin_port))  BY <2>3
    <3>2. ~CanBind(s, ntohs(host.sin_port))  BY <3>1 DEF bind, Simple, NoCall
    <3>3. QED  BY <3>1, <3>2 DEF bind, objectVars
  <2>4. CASE close(s)
    <3>1. ~(Valid(s) /\ At(s).kind = "connected")  BY <2>4 DEF close, Simple, NoCall
    <3>2. QED  BY <2>4, <3>1 DEF close
  <2>5. CASE SendStream(s) \/ \E timeout \in Timeouts : SendStreamTimed(s, timeout)
    BY <2>5 DEF SendStream, SendStreamTimed
  <2>6. CASE (\E host \in Hosts : Membership(s, host.sin_addr)) \/ Options(s) \/ NotImplemented(s)
    BY <2>6 DEF Membership, Options, NotImplemented
  <2>7. CASE \E op \in Waiting, remote \in Sockets, timeout \in Timeouts \cup {Untimed} :
               BeginCall(op, s, remote, timeout)
    BY <2>7 DEF BeginCall
  <2>8. ~ConstructEmpty(s) /\ ~Destroy(s) /\ ~connect(s) /\ ~listen(s)
    BY <1>3 DEF ConstructEmpty, Destroy, connect, listen
  <2>9. QED  BY <2>1, <2>2, <2>3, <2>4, <2>5, <2>6, <2>7, <2>8 DEF Calls
<1>6. CASE QuietSteps  BY <1>6, QuietOwners
<1>7. ~AcceptConnection /\ ~ReceiveData /\ ~ReceiveDatagram
  BY <1>4 DEF AcceptConnection, ReceiveData, ReceiveDatagram, Takes
<1>8. ~System
  <2>1. SUFFICES ASSUME System PROVE FALSE  OBVIOUS
  <2>2. PICK fd \in Fds : Arrives(fd) \/ Vanishes(fd) \/ PeerCloses(fd)  BY <2>1 DEF System
  <2>3. \/ call' = call
        \/ call' = [call EXCEPT !.vanished = (call.phase = "call")]
    BY <2>2 DEF Arrives, Vanishes, PeerCloses
  <2>4. QED  BY <1>2, <2>3 DEF CallType
<1>9. CASE UNCHANGED vars  BY <1>9 DEF vars
<1>10. QED  BY <1>5, <1>6, <1>7, <1>8, <1>9 DEF Next, Thread, QuietSteps

(* A constructor, bind, close, accept or option of CSocket that throws has   *)
(* changed neither an object nor what the system keeps of a descriptor.      *)
THEOREM ThrowsChangeNothingHolds == Spec => ThrowsChangeNothing
<1>1. OwnersInv /\ [Next]_vars => [~call.thrown /\ call'.thrown => UNCHANGED <<objectVars, endpoint>>]_vars
  BY ThrowsStep
<1>2. QED  BY <1>1, OwnersAlways, PTL DEF ThrowsChangeNothing, Spec

-----------------------------------------------------------------------------
(* What a call reports *)
ResultIsRecord ==
  result = [timedOut |-> result.timedOut, recvDataLength |-> result.recvDataLength,
            address |-> result.address, port |-> result.port]

(* A call that is not at its end has nothing to report, and once select has  *)
(* returned, timedOut is cleared.                                            *)
Pending ==
  /\ call.phase \in {"select", "call"} => call.success = FALSE /\ call.taken = <<>>
  /\ call.phase = "call" /\ call.timeout # Untimed => result.timedOut = FALSE

ReportsInv == ResultIsRecord /\ Pending /\ ReportsAreTrue

Byte(b) == b \in Nat /\ b < 256

LEMMA TwoBytes ==
  ASSUME NEW low, NEW high, Byte(low), Byte(high)
  PROVE  (low * 256 + high) % 256 = high /\ (low * 256 + high) \div 256 = low
<1>1. (low * 256 + high) % 256 = high  BY DEF Byte
<1>2. (low * 256 + high) \div 256 = low  BY DEF Byte
<1>3. QED  BY <1>1, <1>2

LEMMA PortRoundTrip ==
  ASSUME NEW port \in Nat, port < 65536
  PROVE  htons(ntohs(port)) = port
<1>1. /\ Byte(port % 256) /\ Byte(port \div 256) /\ port = (port \div 256) * 256 + (port % 256)
  <2>1. Byte(port % 256)  BY DEF Byte
  <2>2. Byte(port \div 256)  BY DEF Byte
  <2>3. port = (port \div 256) * 256 + (port % 256)  OBVIOUS
  <2>4. QED  BY <2>1, <2>2, <2>3
<1>2. ntohs(port) = (port % 256) * 256 + port \div 256  BY DEF ntohs, htons
<1>3. /\ ((port % 256) * 256 + port \div 256) % 256 = port \div 256
      /\ ((port % 256) * 256 + port \div 256) \div 256 = port % 256
  BY <1>1, TwoBytes
<1>4. htons(ntohs(port)) = (port \div 256) * 256 + (port % 256)  BY <1>2, <1>3 DEF htons
<1>5. QED  BY <1>1, <1>4

(* The sender of a datagram can be answered with what its receiver is told.  *)
LEMMA SenderRoundTrip ==
  ASSUME NEW host \in Hosts, NEW address, NEW port
  PROVE  ToSockAddr(FromSockAddr(host, address, port).address, FromSockAddr(host, address, port).port) = host
<1>1. /\ host \in [sin_family : {AF_INET}, sin_addr : [1 .. 4 -> Bytes], sin_port : Nat]
      /\ host.sin_family = AF_INET /\ host.sin_port \in Nat /\ host.sin_port < 65536
  BY HostAssumption
<1>2. FromSockAddr(host, address, port) = [address |-> host.sin_addr, port |-> ntohs(host.sin_port)]
  BY <1>1 DEF FromSockAddr
<1>3. ToSockAddr(host.sin_addr, ntohs(host.sin_port))
        = [sin_family |-> AF_INET, sin_addr |-> host.sin_addr, sin_port |-> host.sin_port]
  BY <1>1, PortRoundTrip DEF ToSockAddr
<1>4. host = [sin_family |-> AF_INET, sin_addr |-> host.sin_addr, sin_port |-> host.sin_port]
  BY <1>1
<1>5. QED  BY <1>2, <1>3, <1>4

LEMMA SimpleReport ==
  ASSUME ReportsInv, NEW ok \in BOOLEAN, Simple(ok)
  PROVE  ReportsInv'
<1>1. call'.phase = "returned" /\ call'.op = "none" /\ call'.timeout = Untimed /\ result' = result
  BY DEF Simple, NoCall
<1>2. QED  BY <1>1 DEF ReportsInv, ResultIsRecord, Pending, ReportsAreTrue

LEMMA CallsReport ==
  ASSUME OwnersInv, ReportsInv, NEW s \in Sockets, Calls(s)
  PROVE  ReportsInv'
<1>1. CASE \E ok \in BOOLEAN : Simple(ok)  BY <1>1, SimpleReport
<1>2. CASE SendStream(s) \/ \E timeout \in Timeouts : SendStreamTimed(s, timeout)
  <2>1. /\ call'.phase = "returned" /\ result' = result
        /\ call'.op = "send" \/ (call'.op = "none" /\ call'.timeout = Untimed)
    BY <1>2 DEF SendStream, SendStreamTimed, NoCall
  <2>2. QED  BY <2>1 DEF ReportsInv, ResultIsRecord, Pending, ReportsAreTrue
<1>3. CASE \E op \in Waiting, remote \in Sockets, timeout \in Timeouts \cup {Untimed} :
             BeginCall(op, s, remote, timeout)
  <2>1. PICK op \in Waiting, remote \in Sockets, timeout \in Timeouts \cup {Untimed} :
               BeginCall(op, s, remote, timeout)
    BY <1>3
  <2>2. /\ call'.phase = FirstPhase(timeout) /\ call'.timeout = timeout /\ result' = result
        /\ call'.success = FALSE /\ call'.taken = <<>>
    BY <2>1 DEF BeginCall, NoCall
  <2>3. call'.phase # "returned" /\ (call'.phase = "call" => timeout = Untimed)
    BY <2>2 DEF FirstPhase
  <2>4. QED  BY <2>2, <2>3 DEF ReportsInv, ResultIsRecord, Pending, ReportsAreTrue
<1>4. (\E ok \in BOOLEAN : Simple(ok))
      \/ SendStream(s) \/ (\E timeout \in Timeouts : SendStreamTimed(s, timeout))
      \/ \E op \in Waiting, remote \in Sockets, timeout \in Timeouts \cup {Untimed} :
           BeginCall(op, s, remote, timeout)
  <2>1. CASE \/ ConstructEmpty(s) \/ (\E type \in {"stream", "raw"} : Construct(s, type)) \/ Destroy(s)
             \/ connect(s) \/ listen(s) \/ NotImplemented(s)
    BY <2>1 DEF ConstructEmpty, Construct, Destroy, connect, listen, NotImplemented
  <2>2. CASE \E host \in Hosts : bind(s, ntohs(host.sin_port))
    <3>1. PICK host \in Hosts : bind(s, ntohs(host.sin_port))  BY <2>2
    <3>2. CanBind(s, ntohs(host.sin_port)) \in BOOLEAN  BY DEF CanBind
    <3>3. QED  BY <3>1, <3>2 DEF bind
  <2>3. CASE close(s)
    <3>1. (Valid(s) /\ At(s).kind = "connected") \in BOOLEAN  OBVIOUS
    <3>2. QED  BY <2>3, <3>1 DEF close
  <2>4. CASE (\E host \in Hosts : Membership(s, host.sin_addr)) \/ Options(s)
    BY <2>4 DEF Membership, Options
  <2>5. QED  BY <2>1, <2>2, <2>3, <2>4 DEF Calls
<1>5. QED  BY <1>1, <1>2, <1>3, <1>4

(* A call that returns from "call", with the caller's timedOut as it was.    *)
LEMMA ReturnsReport ==
  ASSUME OwnersInv, ReportsInv, call.phase = "call",
         NEW taken \in Seq(Arrival), NEW success \in BOOLEAN, NEW thrown \in BOOLEAN,
         Returns(taken, success, thrown), ResultIsRecord', result'.timedOut = result.timedOut,
         call.op \in {"receive", "receiveFrom"} /\ success => result'.recvDataLength = ByteCount(taken),
         call.op = "receiveFrom" /\ success /\ taken # <<>> /\ taken[1] # Piece =>
           ToSockAddr(result'.address, result'.port) = taken[1].from
  PROVE  ReportsInv'
<1>1. /\ call'.phase = "returned" /\ call'.op = call.op /\ call'.timeout = call.timeout
      /\ call'.success = success /\ call'.taken = taken
  BY DEF Returns, OwnersInv, TypeOK, CallType
<1>2. call'.timeout # Untimed => result'.timedOut = FALSE
  BY <1>1 DEF ReportsInv, Pending
<1>3. QED  BY <1>1, <1>2 DEF ReportsInv, Pending, ReportsAreTrue

LEMMA TakenType ==
  ASSUME OwnersInv, NEW s \in Sockets, CanReceive(s), NEW n \in Amounts(s)
  PROVE  SubSeq(At(s).arrived, 1, n) \in Seq(Arrival)
<1>1. At(s) \in Endpoint  BY ValidFd DEF CanReceive, At, OwnersInv, TypeOK
<1>2. PICK arrived \in Seq(Arrival) : arrived = At(s).arrived  BY <1>1 DEF Endpoint
<1>3. n \in 0 .. Len(arrived)  BY <1>2 DEF Amounts
<1>4. SubSeq(arrived, 1, n) \in Seq(Arrival)  BY <1>3
<1>5. QED  BY <1>2, <1>4

LEMMA ThreadReport ==
  ASSUME OwnersInv, ReportsInv, Thread \/ SelectFails \/ Return
  PROVE  ReportsInv'
<1>1. call \in CallType /\ <<>> \in Seq(Arrival)  BY DEF OwnersInv, TypeOK
<1>2. CASE SelectWaits
  <2>1. call' = [call EXCEPT !.left = call.left - 1] /\ call.phase = "select" /\ result' = result
    BY <1>2 DEF SelectWaits, InSelect
  <2>2. /\ call'.phase = "select" /\ call'.success = call.success /\ call'.taken = call.taken
    BY <1>1, <2>1 DEF CallType
  <2>3. QED  BY <2>1, <2>2 DEF ReportsInv, ResultIsRecord, Pending, ReportsAreTrue
<1>3. CASE SelectReturns
  <2>1. call' = [call EXCEPT !.phase = "call"] /\ call.phase = "select" /\ result' = Cleared
    BY <1>3 DEF SelectReturns, InSelect
  <2>2. call'.phase = "call" /\ call'.success = call.success /\ call'.taken = call.taken
    BY <1>1, <2>1 DEF CallType
  <2>3. ResultIsRecord' /\ result'.timedOut = FALSE
    BY <2>1 DEF ReportsInv, ResultIsRecord, Cleared
  <2>4. QED  BY <2>1, <2>2, <2>3 DEF ReportsInv, Pending, ReportsAreTrue
<1>4. CASE SelectTimesOut
  <2>1. /\ call' = [call EXCEPT !.phase = "returned"] /\ call.phase = "select" /\ call.left = 0
        /\ result' = [Cleared EXCEPT !.timedOut = TRUE]
    BY <1>4 DEF SelectTimesOut, InSelect
  <2>2. /\ call'.phase = "returned" /\ call'.success = FALSE /\ call'.taken = <<>> /\ call'.left = 0
    BY <1>1, <2>1 DEF CallType, ReportsInv, Pending
  <2>3. ResultIsRecord'  BY <2>1 DEF ReportsInv, ResultIsRecord, Cleared
  <2>4. QED  BY <2>2, <2>3 DEF ReportsInv, Pending, ReportsAreTrue
<1>5. CASE SelectFails
  <2>1. /\ call' = [call EXCEPT !.phase = "returned", !.failed = TRUE] /\ call.phase = "select"
        /\ result' = [Cleared EXCEPT !.timedOut = (call.op = "receiveFrom")]
    BY <1>5 DEF SelectFails, InSelect
  <2>2. /\ call'.phase = "returned" /\ call'.success = FALSE /\ call'.taken = <<>> /\ call'.failed
        /\ call'.op = call.op
    BY <1>1, <2>1 DEF CallType, ReportsInv, Pending
  <2>3. ResultIsRecord' /\ result'.timedOut = (call.op = "receiveFrom")
    BY <2>1 DEF ReportsInv, ResultIsRecord, Cleared
  <2>4. QED  BY <2>2, <2>3 DEF ReportsInv, Pending, ReportsAreTrue
<1>6. CASE Return
  <2>1. call'.phase = "none" /\ result' = result  BY <1>6 DEF Return, NoCall
  <2>2. QED  BY <2>1 DEF ReportsInv, ResultIsRecord, Pending, ReportsAreTrue
<1>7. CASE AcceptConnection \/ AcceptNothing
  <2>1. call.op = "accept" /\ call.phase = "call" /\ result' = result
    BY <1>7 DEF AcceptConnection, AcceptNothing, InCall
  <2>2. PICK taken \in Seq(Arrival), success \in BOOLEAN, thrown \in BOOLEAN : Returns(taken, success, thrown)
    <3>1. CASE AcceptConnection
      <4>1. call.socket \in Sockets  BY <2>1 DEF OwnersInv, InProgress
      <4>2. endpoint[mSocket[call.socket]] \in Endpoint /\ endpoint[mSocket[call.socket]].arrived # <<>>
        BY <3>1, <4>1, ValidFd DEF AcceptConnection, Listening, At, OwnersInv, TypeOK
      <4>3. <<Head(endpoint[mSocket[call.socket]].arrived)>> \in Seq(Arrival)
        BY <4>2 DEF Endpoint
      <4>4. QED  BY <3>1, <4>3 DEF AcceptConnection, At
    <3>2. CASE AcceptNothing  BY <1>1, <3>2 DEF AcceptNothing, Vacant
    <3>3. QED  BY <1>7, <3>1, <3>2
  <2>3. QED  BY <2>1, <2>2, ReturnsReport DEF ReportsInv, ResultIsRecord
<1>8. CASE ReceiveData
  <2> DEFINE s == call.socket
  <2>1. call.op = "receive" /\ call.phase = "call" /\ s \in Sockets /\ CanReceive(s)
    BY <1>8 DEF ReceiveData, InCall, OwnersInv, InProgress
  <2>2. PICK n \in Amounts(s) :
          Takes(s, n) /\ result' = [result EXCEPT !.recvDataLength = ByteCount(SubSeq(At(s).arrived, 1, n))]
    BY <1>8 DEF ReceiveData
  <2>3. PICK taken \in Seq(Arrival) : taken = SubSeq(At(s).arrived, 1, n)  BY <2>1, TakenType
  <2>4. Returns(taken, TRUE, FALSE)  BY <2>2, <2>3 DEF Takes
  <2>5. ResultIsRecord' /\ result'.timedOut = result.timedOut /\ result'.recvDataLength = ByteCount(taken)
    BY <2>2, <2>3 DEF ReportsInv, ResultIsRecord
  <2>6. QED  BY <2>1, <2>4, <2>5, ReturnsReport
<1>9. CASE ReceiveError
  <2>1. call.op = "receive" /\ call.phase = "call" /\ Returns(<<>>, FALSE, FALSE)
    BY <1>9 DEF ReceiveError, InCall
  <2>2. ResultIsRecord' /\ result'.timedOut = result.timedOut
    BY <1>9 DEF ReceiveError, ReportsInv, ResultIsRecord
  <2>3. QED  BY <1>1, <2>1, <2>2, ReturnsReport
<1>10. CASE ReceiveDatagram
  <2> DEFINE s == call.socket
  <2>1. call.op = "receiveFrom" /\ call.phase = "call" /\ s \in Sockets /\ CanReceive(s)
    BY <1>10 DEF ReceiveDatagram, InCall, OwnersInv, InProgress
  <2>2. PICK n \in Amounts(s) :
          /\ Takes(s, n)
          /\ \E sockAddr \in Senders(SubSeq(At(s).arrived, 1, n)) :
               result' = [ReceivedFrom(sockAddr) EXCEPT
                            !.recvDataLength = ByteCount(SubSeq(At(s).arrived, 1, n))]
    BY <1>10 DEF ReceiveDatagram
  <2>3. PICK taken \in Seq(Arrival) : taken = SubSeq(At(s).arrived, 1, n)  BY <2>1, TakenType
  <2>4. Returns(taken, TRUE, FALSE)  BY <2>2, <2>3 DEF Takes
  <2>5. PICK sockAddr \in Senders(taken) :
          result' = [ReceivedFrom(sockAddr) EXCEPT !.recvDataLength = ByteCount(taken)]
    BY <2>2, <2>3
  <2> DEFINE from == FromSockAddr(sockAddr, result.address, result.port)
  <2>6. result' = [[result EXCEPT !.address = from.address, !.port = from.port]
                     EXCEPT !.recvDataLength = ByteCount(taken)]
    BY <2>5 DEF ReceivedFrom
  <2>7. taken # <<>> /\ taken[1] # Piece => ToSockAddr(from.address, from.port) = taken[1].from
    <3>1. SUFFICES ASSUME taken # <<>>, taken[1] # Piece
                   PROVE  ToSockAddr(from.address, from.port) = taken[1].from
      OBVIOUS
    <3>2. taken[1] \in Arrival
      <4>1. Len(taken) \in Nat /\ Len(taken) # 0  BY <2>3, <3>1
      <4>2. QED  BY <2>3, <4>1
    <3>3. taken[1].from \in Hosts  BY <3>1, <3>2 DEF Arrival, Datagram
    <3>4. sockAddr = taken[1].from  BY <2>5, <3>1 DEF Senders
    <3>5. QED  BY <3>3, <3>4, SenderRoundTrip
  <2> HIDE DEF from
  <2>8. /\ ResultIsRecord' /\ result'.timedOut = result.timedOut /\ result'.recvDataLength = ByteCount(taken)
        /\ result'.address = from.address /\ result'.port = from.port
    BY <2>6 DEF ReportsInv, ResultIsRecord
  <2>9. QED  BY <2>1, <2>4, <2>7, <2>8, ReturnsReport
<1>11. CASE ReceiveDatagramError
  <2>1. call.phase = "call" /\ Returns(<<>>, FALSE, FALSE)
    BY <1>11 DEF ReceiveDatagramError, InCall
  <2>2. PICK sockAddr : result' = ReceivedFrom(sockAddr)  BY <1>11 DEF ReceiveDatagramError
  <2>3. ResultIsRecord' /\ result'.timedOut = result.timedOut
    BY <2>2 DEF ReceivedFrom, ReportsInv, ResultIsRecord
  <2>4. QED  BY <1>1, <2>1, <2>3, ReturnsReport
<1>12. CASE SendTo
  <2>1. call.op = "sendTo" /\ call.phase = "call" /\ result' = result  BY <1>12 DEF SendTo, InCall
  <2>2. PICK success \in BOOLEAN : Returns(<<>>, success, FALSE)  BY <1>12 DEF SendTo
  <2>3. QED  BY <1>1, <2>1, <2>2, ReturnsReport DEF ReportsInv, ResultIsRecord
<1>13. QED
  BY <1>2, <1>3, <1>4, <1>5, <1>6, <1>7, <1>8, <1>9, <1>10, <1>11, <1>12 DEF Thread

LEMMA ReportsStep ==
  ASSUME OwnersInv, ReportsInv, [Next]_vars
  PROVE  ReportsInv'
<1>1. CASE System
  <2>1. result' = result /\ (call' = call \/ call' = [call EXCEPT !.vanished = (call.phase = "call")])
    BY <1>1 DEF System, Arrives, Vanishes, PeerCloses
  <2>2. /\ call'.phase = call.phase /\ call'.op = call.op /\ call'.timeout = call.timeout
        /\ call'.success = call.success /\ call'.taken = call.taken /\ call'.failed = call.failed
        /\ call'.left = call.left
    BY <2>1 DEF OwnersInv, TypeOK, CallType
  <2>3. QED  BY <2>1, <2>2 DEF ReportsInv, ResultIsRecord, Pending, ReportsAreTrue
<1>2. CASE UNCHANGED vars
  BY <1>2 DEF vars, ReportsInv, ResultIsRecord, Pending, ReportsAreTrue
<1>3. QED  BY <1>1, <1>2, CallsReport, ThreadReport DEF Next

(* For any sockets, hosts and timeouts, what receive, receiveFrom and the    *)
(* calls with a timeout of CSocket leave in the caller's variables is about  *)
(* that call: the length of what was taken, the sender of a datagram, and a  *)
(* timeout only when nothing was taken.  The address after a receiveFrom     *)
(* from a stream is excepted, and the stream send with timeout.              *)
THEOREM ReportsAreTrueHolds == Spec => []ReportsAreTrue
<1>1. Init => ReportsInv
  BY DEF Init, ReportsInv, ResultIsRecord, Pending, ReportsAreTrue, NoCall
<1>2. ReportsInv /\ OwnersInv /\ [Next]_vars => ReportsInv'  BY ReportsStep
<1>3. ReportsInv => ReportsAreTrue  BY DEF ReportsInv
<1>4. QED  BY <1>1, <1>2, <1>3, OwnersAlways, PTL DEF Spec
=============================================================================
