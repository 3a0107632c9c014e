-------------------------- MODULE EventServer_proofs -------------------------
(***************************************************************************)
(* The event server's records of its sockets agree, and it never uses a    *)
(* socket that it has deleted, for any number of clients and descriptors.  *)
(***************************************************************************)
EXTENDS EventServer, Sums_proofs

-----------------------------------------------------------------------------
(* Numbers and sequences.                                                    *)

LEMMA MinIs ==
  ASSUME NEW T \in SUBSET Nat, T # {}
  PROVE  Min(T) \in T /\ \A m \in T : Min(T) <= m
<1>1. \E n \in T : \A m \in T : n =< m
  BY LeastOf
<1>. QED  BY <1>1, Zenon DEF Min

LEMMA MaxIs ==
  ASSUME NEW b \in Nat, NEW T \in SUBSET (0 .. b), T # {}
  PROVE  Max(T) \in T /\ \A m \in T : m <= Max(T)
<1> DEFINE U == {b - x : x \in T}
<1>1. U \in SUBSET Nat /\ U # {}
  <2>1. \A x \in T : b - x \in Nat  BY SMT
  <2>2. PICK x \in T : TRUE  BY Zenon
  <2>3. U \in SUBSET Nat  BY <2>1, Zenon
  <2>4. b - x \in U  BY Zenon
  <2>. QED  BY <2>3, <2>4, Zenon
<1>2. PICK n \in U : \A m \in U : n <= m
  BY <1>1, LeastOf
<1>3. PICK x \in T : n = b - x
  OBVIOUS
<1>4. ASSUME NEW y \in T PROVE x >= y
  <2>1. b - y \in U  OBVIOUS
  <2>2. n <= b - y  BY <1>2, <2>1
  <2>. QED  BY <1>3, <2>2
<1>5. \E z \in T : \A y \in T : z >= y
  BY <1>3, <1>4
<1>6. Max(T) \in T /\ \A m \in T : Max(T) >= m
  BY <1>5, Zenon DEF Max
<1>. QED  BY <1>6

LEMMA AppendToSet ==
  ASSUME NEW S, NEW s \in Seq(S), NEW c \in S, IsInjective(s), c \notin ToSet(s)
  PROVE  /\ Append(s, c) \in Seq(S)
         /\ ToSet(Append(s, c)) = ToSet(s) \cup {c}
         /\ IsInjective(Append(s, c))
<1> DEFINE t == Append(s, c)
<1>1. /\ t \in Seq(S) /\ Len(s) \in Nat
      /\ DOMAIN s = 1 .. Len(s) /\ DOMAIN t = 1 .. Len(s) + 1
      /\ \A i \in 1 .. Len(s) : t[i] = s[i]
      /\ t[Len(s) + 1] = c
  BY SMT
<1> HIDE DEF t
<1>2. ToSet(t) = ToSet(s) \cup {c}
  BY <1>1 DEF ToSet
<1>3. ASSUME NEW i \in DOMAIN t, NEW j \in DOMAIN t, t[i] = t[j] PROVE i = j
  <2>1. \A k \in 1 .. Len(s) : s[k] # c
    BY <1>1 DEF ToSet
  <2>2. \A k, l \in 1 .. Len(s) : s[k] = s[l] => k = l
    BY <1>1, Zenon DEF IsInjective
  <2>. QED  BY <1>1, <1>3, <2>1, <2>2
<1>4. IsInjective(t)
  BY <1>3, Zenon DEF IsInjective
<1>. QED  BY <1>1, <1>2, <1>4 DEF t

LEMMA TailOfSet ==
  ASSUME NEW S, NEW s \in Seq(S), s # <<>>, IsInjective(s)
  PROVE  /\ Tail(s) \in Seq(S) /\ Head(s) \in ToSet(s)
         /\ ToSet(Tail(s)) \subseteq ToSet(s)
         /\ IsInjective(Tail(s))
<1> DEFINE t == Tail(s)
<1>1. /\ t \in Seq(S) /\ Len(s) \in Nat \ {0} /\ Head(s) = s[1]
      /\ DOMAIN s = 1 .. Len(s) /\ DOMAIN t = 1 .. Len(s) - 1
      /\ \A i \in 1 .. Len(s) - 1 : t[i] = s[i + 1]
  BY SMT
<1> HIDE DEF t
<1>2. Head(s) \in ToSet(s) /\ ToSet(t) \subseteq ToSet(s)
  BY <1>1, SMTT(40) DEF ToSet
<1>3. ASSUME NEW i \in DOMAIN t, NEW j \in DOMAIN t, t[i] = t[j] PROVE i = j
  <2>1. \A k, l \in 1 .. Len(s) : s[k] = s[l] => k = l
    BY <1>1, Zenon DEF IsInjective
  <2>. QED  BY <1>1, <1>3, <2>1
<1>4. IsInjective(t)
  BY <1>3, Zenon DEF IsInjective
<1>. QED  BY <1>1, <1>2, <1>4 DEF t

LEMMA JoinedElements ==
  ASSUME NEW S, NEW u \in Seq(S), NEW v \in Seq(S)
  PROVE  /\ u \o v \in Seq(S)
         /\ Len(u \o v) = Len(u) + Len(v)
         /\ \A i \in 1 .. Len(u) + Len(v) : i <= Len(u) => (u \o v)[i] = u[i]
         /\ \A i \in 1 .. Len(u) + Len(v) : ~(i <= Len(u)) => (u \o v)[i] = v[i - Len(u)]
BY ConcatProperties, Zenon

LEMMA RemovedFromSet ==
  ASSUME NEW S, NEW s \in Seq(S), IsInjective(s), NEW k \in 1 .. Len(s)
  PROVE  /\ RemoveAt(s, k) \in Seq(S)
         /\ ToSet(RemoveAt(s, k)) = ToSet(s) \ {s[k]}
         /\ IsInjective(RemoveAt(s, k))
<1> DEFINE t == RemoveAt(s, k)
           u == SubSeq(s, 1, k - 1)
           v == SubSeq(s, k + 1, Len(s))
<1>1. /\ Len(s) \in Nat /\ DOMAIN s = 1 .. Len(s)
      /\ u \in Seq(S) /\ Len(u) = k - 1 /\ \A i \in 1 .. k - 1 : u[i] = s[i]
  BY SMT
<1>2. v \in Seq(S) /\ Len(v) = Len(s) - k /\ \A i \in 1 .. Len(s) - k : v[i] = s[i + k]
  BY SMT
<1>3. t = u \o v
  BY DEF RemoveAt
<1> HIDE DEF t, u, v
<1>4. /\ t \in Seq(S) /\ DOMAIN t = 1 .. Len(s) - 1
      /\ \A i \in 1 .. k - 1 : t[i] = s[i]
      /\ \A i \in k .. Len(s) - 1 : t[i] = s[i + 1]
  <2>0. Len(u) + Len(v) = Len(s) - 1
    BY <1>1, <1>2
  <2>1. /\ t \in Seq(S) /\ Len(t) = Len(s) - 1
        /\ \A i \in 1 .. Len(s) - 1 : i <= k - 1 => t[i] = u[i]
        /\ \A i \in 1 .. Len(s) - 1 : ~(i <= k - 1) => t[i] = v[i - (k - 1)]
    <3>1. /\ t \in Seq(S)
          /\ Len(t) = Len(u) + Len(v)
          /\ \A i \in 1 .. Len(u) + Len(v) : i <= Len(u) => t[i] = u[i]
          /\ \A i \in 1 .. Len(u) + Len(v) : ~(i <= Len(u)) => t[i] = v[i - Len(u)]
      <4>1. u \in Seq(S) /\ v \in Seq(S)  BY <1>1, <1>2, Zenon
      <4>2. /\ u \o v \in Seq(S)
            /\ Len(u \o v) = Len(u) + Len(v)
            /\ \A i \in 1 .. Len(u) + Len(v) : i <= Len(u) => (u \o v)[i] = u[i]
            /\ \A i \in 1 .. Len(u) + Len(v) : ~(i <= Len(u)) => (u \o v)[i] = v[i - Len(u)]
        BY <4>1, JoinedElements, Zenon
      <4>. QED  BY <1>3, <4>2, Zenon
    <3>. QED  BY <1>1, <2>0, <3>1, Zenon
  <2>2. DOMAIN t = 1 .. Len(s) - 1
    BY <2>1, SMT
  <2>3. ASSUME NEW i \in 1 .. k - 1 PROVE t[i] = s[i]
    <3>1. i \in 1 .. Len(s) - 1 /\ i <= k - 1  BY <1>1
    <3>. QED  BY <1>1, <2>1, <3>1, Zenon
  <2>4. ASSUME NEW i \in k .. Len(s) - 1 PROVE t[i] = s[i + 1]
    <3>1. i \in 1 .. Len(s) - 1 /\ ~(i <= k - 1)  BY <1>1
    <3>3. t[i] = v[i - (k - 1)]  BY <2>1, <3>1, Zenon
    <3>2. i - (k - 1) \in 1 .. Len(s) - k /\ (i - (k - 1)) + k = i + 1
      BY <1>1
    <3>4. v[i - (k - 1)] = s[(i - (k - 1)) + k]  BY <1>2, <3>2, Zenon
    <3>. QED  BY <3>2, <3>3, <3>4, Zenon
  <2>. QED  BY <2>1, <2>2, <2>3, <2>4
<1>5. \A i, j \in 1 .. Len(s) : s[i] = s[j] => i = j
  BY <1>1, Zenon DEF IsInjective
<1>6. ASSUME NEW i \in DOMAIN t, NEW j \in DOMAIN t, t[i] = t[j] PROVE i = j
  <2> DEFINE at(n, m) == n \in 1 .. Len(s) /\ t[n] = s[m] /\ m \in 1 .. Len(s)
                         /\ ((m = n /\ n < k) \/ (m = n + 1 /\ n >= k))
  <2>1. ASSUME NEW n \in DOMAIN t PROVE \E m \in 1 .. Len(s) : at(n, m)
    <3>1. CASE n \in 1 .. k - 1
      <4>1. t[n] = s[n] /\ n \in 1 .. Len(s) /\ n < k  BY <1>1, <1>4, <3>1
      <4>. QED  BY <4>1, Zenon
    <3>2. CASE n \in k .. Len(s) - 1
      <4>1. t[n] = s[n + 1] /\ n \in 1 .. Len(s) /\ n + 1 \in 1 .. Len(s) /\ n >= k
        BY <1>1, <1>4, <3>2
      <4>. QED  BY <4>1, Zenon
    <3>3. n \in 1 .. k - 1 \/ n \in k .. Len(s) - 1  BY <1>1, <1>4
    <3>. QED  BY <3>1, <3>2, <3>3
  <2>2. PICK a \in 1 .. Len(s) : at(i, a)  BY <2>1, Zenon
  <2>3. PICK b \in 1 .. Len(s) : at(j, b)  BY <2>1, Zenon
  <2>4. a = b  BY <1>5, <1>6, <2>2, <2>3, Zenon
  <2>. QED  BY <1>1, <2>2, <2>3, <2>4
<1>7. ToSet(t) \subseteq ToSet(s) \ {s[k]}
  <2> SUFFICES ASSUME NEW i \in DOMAIN t
               PROVE  \E j \in DOMAIN s : t[i] = s[j] /\ j # k
    BY <1>1, <1>5 DEF ToSet
  <2>1. CASE i \in 1 .. k - 1
    <3>1. t[i] = s[i] /\ i \in DOMAIN s /\ i # k
      BY <1>1, <1>4, <2>1
    <3>. QED  BY <3>1, Zenon
  <2>2. CASE i \in k .. Len(s) - 1
    <3>1. t[i] = s[i + 1] /\ i + 1 \in DOMAIN s /\ i + 1 # k
      BY <1>1, <1>4, <2>2
    <3>. QED  BY <3>1, Zenon
  <2>3. i \in 1 .. k - 1 \/ i \in k .. Len(s) - 1
    BY <1>1, <1>4
  <2>. QED  BY <2>1, <2>2, <2>3
<1>8. ToSet(s) \ {s[k]} \subseteq ToSet(t)
  <2> SUFFICES ASSUME NEW j \in DOMAIN s, j # k
               PROVE  \E i \in DOMAIN t : s[j] = t[i]
    BY DEF ToSet
  <2>1. CASE j < k
    BY <1>1, <1>4, <2>1
  <2>2. CASE j > k
    <3>1. j - 1 \in k .. Len(s) - 1 /\ j - 1 \in DOMAIN t /\ (j - 1) + 1 = j
      BY <1>1, <1>4, <2>2
    <3>2. t[j - 1] = s[(j - 1) + 1]
      BY <1>4, <3>1
    <3>. QED  BY <3>1, <3>2
  <2>. QED  BY <1>1, <2>1, <2>2
<1>9. IsInjective(t)
  BY <1>6, Zenon DEF IsInjective
<1>. QED  BY <1>4, <1>7, <1>8, <1>9 DEF t

-----------------------------------------------------------------------------
(* What the server's operators return.                                       *)

(* removeClient takes the client out of the list, and no other.              *)
LEMMA WithoutIs ==
  ASSUME NEW S, NEW er \in Seq(S), IsInjective(er), NEW c \in ToSet(er),
         \A s \in ToSet(er) : descriptor[s] = descriptor[c] => s = c
  PROVE  /\ Without(er, descriptor[c]) \in Seq(S)
         /\ ToSet(Without(er, descriptor[c])) = ToSet(er) \ {c}
         /\ IsInjective(Without(er, descriptor[c]))
<1>1. DOMAIN er = 1 .. Len(er) /\ Len(er) \in Nat
  BY LenProperties, Zenon
<1>2. PICK k \in 1 .. Len(er) : er[k] = c
  BY <1>1 DEF ToSet
<1>3. \A i \in 1 .. Len(er) : er[i] \in ToSet(er)
  BY <1>1 DEF ToSet
<1>4. \A i, j \in 1 .. Len(er) : er[i] = er[j] => i = j
  BY <1>1, Zenon DEF IsInjective
<1>5. {i \in 1 .. Len(er) : descriptor[er[i]] = descriptor[c]} = {k}
  BY <1>2, <1>3, <1>4
<1>6. Min({k}) = k
  <2>1. {k} \in SUBSET Nat /\ {k} # {}  BY <1>1
  <2>2. Min({k}) \in {k}  BY <2>1, MinIs, Zenon
  <2>. QED  BY <2>2, Zenon
<1>7. Without(er, descriptor[c]) = RemoveAt(er, k)
  BY <1>2, <1>5, <1>6, Zenon DEF Without, RemoveFirstMatch, SelectInSeq, SameSocket
<1>8. /\ RemoveAt(er, k) \in Seq(S)
      /\ ToSet(RemoveAt(er, k)) = ToSet(er) \ {er[k]}
      /\ IsInjective(RemoveAt(er, k))
  BY RemovedFromSet
<1>. QED  BY <1>2, <1>7, <1>8, Zenon

(* A list of sockets that Select made is taken in the order of descriptors.  *)
LEMMA FirstIs ==
  ASSUME NEW T, T # {}, \A s \in T : descriptor[s] \in Nat
  PROVE  First(T) \in T
<1> DEFINE D == {descriptor[s] : s \in T}
<1>1. D \in SUBSET Nat /\ D # {}
  OBVIOUS
<1>2. PICK n \in D : \A m \in D : n <= m
  BY <1>1, LeastOf
<1>3. PICK s \in T : n = descriptor[s]
  OBVIOUS
<1>4. \A t \in T : descriptor[s] <= descriptor[t]
  BY <1>2, <1>3, Zenon
<1>. QED  BY <1>3, <1>4, Zenon DEF First

-----------------------------------------------------------------------------
(* The inductive invariant: besides the two properties to be proved, the     *)
(* watched sockets are open; the sockets Select found are watched ones, and  *)
(* there are none but while they are handled; an event goes to clients of    *)
(* the list, and to none but while it is sent; and a client has no           *)
(* descriptor before it is accepted, which happens once.                     *)

WatchedAreOpen == \A s \in listeningGroup : descriptor[s] \in Fds

FoundAreWatched ==
  /\ incoming \subseteq listeningGroup
  /\ pc \notin {"handle", "stopped"} => incoming = {}

EventsGoToClients ==
  /\ ToSet(unsent) \subseteq ToSet(eventReceivers)
  /\ pc \notin {"send", "killed"} => unsent = <<>>

NewHaveNoDescriptor ==
  \A c \in Clients :
    /\ c \in backlog => descriptor[c] = NoFd /\ peer[c] # "away"
    /\ peer[c] = "away" => descriptor[c] = NoFd

IInv ==
  /\ TypeOK /\ GroupsAgree
  /\ WatchedAreOpen /\ FoundAreWatched /\ EventsGoToClients /\ NewHaveNoDescriptor

USE ServerAssumption

LEMMA FdsAre ==
  /\ Fds \subseteq Nat /\ Fds # {} /\ NoFd \notin Fds
  /\ FD_SETSIZE - 1 \in Nat /\ Fds \subseteq 0 .. FD_SETSIZE - 1
<1>1. PICK fd \in Fds : fd \in 0 .. FD_SETSIZE - 1
  BY FdAssumption
<1>. QED  BY <1>1, FdAssumption

LEMMA EmptyIs ==
  ASSUME NEW S
  PROVE  <<>> \in Seq(S) /\ IsInjective(<<>>) /\ ToSet(<<>>) = {}
<1>1. <<>> \in Seq(S) /\ DOMAIN <<>> = {}  OBVIOUS
<1>. QED  BY <1>1, Zenon DEF IsInjective, ToSet

LEMMA InitIInv == Init => IInv
<1> SUFFICES ASSUME Init PROVE IInv
  OBVIOUS
<1> DEFINE fd == Min(Fds)
<1>1. fd \in Fds
  BY FdsAre, MinIs
<1> HIDE DEF fd
<1>2. /\ descriptor = [s \in Sockets |-> IF s = Listener THEN fd ELSE NoFd]
      /\ listeningGroup = {Listener} /\ listening_set = {fd} /\ max_fd = fd
  BY Zenon DEF Init, fd
<1>3. descriptor[Listener] = fd /\ Listener \notin Clients /\ Clients \subseteq Sockets
  BY <1>2 DEF Clients
<1>4. \A c \in Clients : descriptor[c] = NoFd
  BY <1>2 DEF Clients
<1>5. /\ eventReceivers = <<>> /\ incoming = {} /\ unsent = <<>> /\ pc = "packet" /\ events = 0
      /\ peer = [c \in Clients |-> "away"] /\ backlog = {} /\ inbox = {} /\ outbox = {}
  BY Zenon DEF Init
<1>6. /\ eventReceivers \in Seq(Clients) /\ IsInjective(eventReceivers) /\ ToSet(eventReceivers) = {}
      /\ unsent \in Seq(Clients) /\ IsInjective(unsent) /\ ToSet(unsent) = {}
  BY <1>5, EmptyIs, Zenon
<1>7. TypeOK
  <2>1. descriptor \in [Sockets -> Fds \cup {NoFd}]  BY <1>1, <1>2
  <2>2. peer \in [Clients -> Peers] /\ events \in 0 .. MaxEvents  BY <1>5 DEF Peers
  <2>3. listeningGroup \subseteq Sockets /\ listening_set \subseteq Fds /\ max_fd \in Fds
    BY <1>1, <1>2
  <2>. QED  BY <1>5, <1>6, <2>1, <2>2, <2>3, Zenon DEF TypeOK
<1>8. GroupsAgree
  <2>1. fd <= fd  BY <1>1, FdsAre
  <2>2. listening_set = {descriptor[s] : s \in listeningGroup}  BY <1>2, <1>3
  <2>. QED  BY <1>2, <1>6, <2>1, <2>2 DEF GroupsAgree
<1>9. WatchedAreOpen /\ FoundAreWatched /\ EventsGoToClients /\ NewHaveNoDescriptor
  BY <1>1, <1>2, <1>3, <1>4, <1>5, <1>6
  DEF WatchedAreOpen, FoundAreWatched, EventsGoToClients, NewHaveNoDescriptor
<1>. QED  BY <1>7, <1>8, <1>9 DEF IInv

-----------------------------------------------------------------------------
(* The steps that leave the sockets and their records alone.                 *)

LEMMA RecordsUnchanged ==
  ASSUME IInv, UNCHANGED <<descriptor, group, eventReceivers>>
  PROVE  GroupsAgree' /\ WatchedAreOpen'
<1>1. UNCHANGED <<descriptor, listeningGroup, listening_set, max_fd, eventReceivers>>
  BY DEF group
<1>2. GroupsAgree' <=> GroupsAgree
  BY <1>1 DEF GroupsAgree
<1>3. WatchedAreOpen' <=> WatchedAreOpen
  BY <1>1 DEF WatchedAreOpen
<1>. QED  BY <1>2, <1>3, Zenon DEF IInv

(* The conjuncts of the type invariant that these steps can disturb.         *)
LEMMA TypeKept ==
  ASSUME TypeOK, UNCHANGED <<descriptor, group, eventReceivers>>,
         incoming' \subseteq Sockets,
         unsent' \in Seq(Clients), IsInjective(unsent'),
         pc' \in {"packet", "send", "select", "handle", "stopped", "killed"},
         events' \in 0 .. MaxEvents, peer' \in [Clients -> Peers],
         backlog' \subseteq Clients, inbox' \subseteq Clients, outbox' \subseteq Clients
  PROVE  TypeOK'
<1>1. UNCHANGED <<descriptor, listeningGroup, listening_set, max_fd, eventReceivers>>
  BY DEF group
<1>. QED  BY <1>1, Zenon DEF TypeOK

LEMMA TypeFacts ==
  ASSUME TypeOK
  PROVE  /\ incoming \subseteq Sockets
         /\ unsent \in Seq(Clients) /\ IsInjective(unsent)
         /\ eventReceivers \in Seq(Clients) /\ IsInjective(eventReceivers)
         /\ pc \in {"packet", "send", "select", "handle", "stopped", "killed"}
         /\ events \in 0 .. MaxEvents /\ peer \in [Clients -> Peers]
         /\ backlog \subseteq Clients /\ inbox \subseteq Clients /\ outbox \subseteq Clients
BY Zenon DEF TypeOK

LEMMA LoopStep ==
  ASSUME IInv, PacketDone \/ SendDone \/ SelectSockets \/ HandleDone
  PROVE  IInv'
<1>1. TypeOK /\ UNCHANGED <<descriptor, group, eventReceivers>> /\ UNCHANGED <<unsent, events, network>>
  BY Zenon DEF IInv, PacketDone, SendDone, SelectSockets, HandleDone
<1>2. pc' \in {"packet", "select", "handle"}
  BY DEF PacketDone, SendDone, SelectSockets, HandleDone
<1>3. incoming' \subseteq listeningGroup /\ (pc' # "handle" => incoming' = {})
  BY DEF IInv, FoundAreWatched, PacketDone, SendDone, SelectSockets, HandleDone, Select
<1>4. TypeOK'
  <2>1. incoming' \subseteq Sockets  BY <1>1, <1>3 DEF TypeOK
  <2>2. pc' \in {"packet", "send", "select", "handle", "stopped", "killed"}
    BY <1>2
  <2>. QED  BY <1>1, <2>1, <2>2, TypeFacts, TypeKept, Zenon DEF network
<1>5. FoundAreWatched'
  BY <1>1, <1>2, <1>3 DEF FoundAreWatched, group
<1>6. EventsGoToClients'
  <2>1. unsent = <<>>
    BY DEF IInv, EventsGoToClients, PacketDone, SendDone, SelectSockets, HandleDone
  <2>. QED  BY <1>1, <2>1, Zenon DEF IInv, EventsGoToClients
<1>7. NewHaveNoDescriptor'
  BY <1>1, Zenon DEF IInv, NewHaveNoDescriptor, network
<1>. QED  BY <1>1, <1>4, <1>5, <1>6, <1>7, RecordsUnchanged, Zenon DEF IInv

LEMMA OnEventStep ==
  ASSUME IInv, OnEvent
  PROVE  IInv'
<1>1. TypeOK /\ UNCHANGED <<descriptor, group, eventReceivers>> /\ UNCHANGED <<incoming, network>>
  BY Zenon DEF IInv, OnEvent
<1>2. /\ unsent' = eventReceivers /\ pc' = "send"
      /\ events' \in 0 .. MaxEvents /\ incoming = {}
  BY DEF IInv, TypeOK, FoundAreWatched, OnEvent
<1>3. TypeOK'
  <2>1. /\ incoming' \subseteq Sockets
        /\ unsent' \in Seq(Clients) /\ IsInjective(unsent')
        /\ pc' \in {"packet", "send", "select", "handle", "stopped", "killed"}
    BY <1>1, <1>2, TypeFacts, Zenon
  <2>2. /\ peer' \in [Clients -> Peers]
        /\ backlog' \subseteq Clients /\ inbox' \subseteq Clients /\ outbox' \subseteq Clients
    BY <1>1, TypeFacts, Zenon DEF network
  <2>. QED  BY <1>1, <1>2, <2>1, <2>2, TypeKept
<1>4. FoundAreWatched'
  BY <1>1, <1>2 DEF FoundAreWatched
<1>5. EventsGoToClients'
  BY <1>1, <1>2 DEF EventsGoToClients
<1>6. NewHaveNoDescriptor'
  BY <1>1, Zenon DEF IInv, NewHaveNoDescriptor, network
<1>. QED  BY <1>1, <1>3, <1>4, <1>5, <1>6, RecordsUnchanged, Zenon DEF IInv

LEMMA SendToStep ==
  ASSUME IInv, NEW c \in Clients, SendTo(c)
  PROVE  IInv'
<1>1. TypeOK /\ UNCHANGED <<descriptor, group, eventReceivers>> /\ UNCHANGED <<incoming, backlog, inbox, events>>
  BY Zenon DEF IInv, SendTo
<1>2. /\ unsent' = Tail(unsent) /\ unsent # <<>>
      /\ pc = "send" /\ pc' \in {"send", "killed"}
      /\ peer' = [peer EXCEPT ![c] = AfterSend(@)]
      /\ outbox' \subseteq Clients
  BY <1>1, TypeFacts DEF SendTo
<1>3. /\ Tail(unsent) \in Seq(Clients)
      /\ ToSet(Tail(unsent)) \subseteq ToSet(unsent)
      /\ IsInjective(Tail(unsent))
  BY <1>1, <1>2, TypeFacts, TailOfSet
<1>4. /\ peer' \in [Clients -> Peers]
      /\ \A d \in Clients : peer'[d] = "away" => peer[d] = "away"
  BY <1>1, <1>2, TypeFacts DEF AfterSend, Peers
<1>5. TypeOK'
  <2>1. /\ incoming' \subseteq Sockets
        /\ unsent' \in Seq(Clients) /\ IsInjective(unsent')
    BY <1>1, <1>2, <1>3, TypeFacts, Zenon
  <2>2. pc' \in {"packet", "send", "select", "handle", "stopped", "killed"}
    BY <1>2
  <2>3. events' \in 0 .. MaxEvents /\ backlog' \subseteq Clients /\ inbox' \subseteq Clients
    BY <1>1, TypeFacts, Zenon
  <2>. QED  BY <1>1, <1>2, <1>4, <2>1, <2>2, <2>3, TypeKept
<1>6. FoundAreWatched'
  BY <1>1, <1>2 DEF IInv, FoundAreWatched, group
<1>7. EventsGoToClients'
  BY <1>1, <1>2, <1>3 DEF IInv, EventsGoToClients
<1>8. NewHaveNoDescriptor'
  <2>1. \A d \in Clients : peer[d] # "away" => peer'[d] # "away"
    BY <1>1, <1>2, TypeFacts DEF AfterSend, Peers
  <2>. QED  BY <1>1, <1>4, <2>1 DEF IInv, NewHaveNoDescriptor
<1>. QED  BY <1>1, <1>5, <1>6, <1>7, <1>8, RecordsUnchanged, Zenon DEF IInv

LEMMA ReceiveStep ==
  ASSUME IInv, ReceiveData
  PROVE  IInv'
<1>1. TypeOK /\ UNCHANGED <<descriptor, group, eventReceivers>> /\ UNCHANGED <<unsent, pc, events, backlog, outbox>>
  BY Zenon DEF IInv, ReceiveData
<1> DEFINE c == First(incoming)
<1>2. /\ pc = "handle"
      /\ inbox' \subseteq inbox /\ incoming' \subseteq incoming
      /\ peer' = peer \/ peer' = [peer EXCEPT ![c] = "reset"]
      /\ Receives(c) => peer' = peer
      /\ ~Receives(c) => peer' = [peer EXCEPT ![c] = "reset"]
  BY DEF ReceiveData
<1> HIDE DEF c
<1>3. /\ peer' \in [Clients -> Peers]
      /\ \A d \in Clients : peer'[d] = "away" => peer[d] = "away"
      /\ \A d \in Clients : peer[d] # "away" => peer'[d] # "away"
  <2>1. peer \in [Clients -> Peers]  BY <1>1, TypeFacts, Zenon
  <2>2. CASE peer' = peer
    BY <2>1, <2>2, Zenon
  <2>3. CASE peer' = [peer EXCEPT ![c] = "reset"] /\ ~Receives(c)
    <3>1. c \in Clients => peer[c] = "failed"  BY <2>3, Zenon DEF Receives
    <3>. QED  BY <2>1, <2>3, <3>1 DEF Peers
  <2>. QED  BY <1>2, <2>2, <2>3, Zenon
<1>4. TypeOK'
  <2>1. incoming' \subseteq Sockets /\ inbox' \subseteq Clients
    BY <1>1, <1>2, TypeFacts, Zenon
  <2>. QED  BY <1>1, <1>3, <2>1, TypeFacts, TypeKept, Zenon
<1>5. FoundAreWatched'
  BY <1>1, <1>2 DEF IInv, FoundAreWatched, group
<1>6. EventsGoToClients'
  BY <1>1, Zenon DEF IInv, EventsGoToClients
<1>7. NewHaveNoDescriptor'
  BY <1>1, <1>3, Zenon DEF IInv, NewHaveNoDescriptor
<1>. QED  BY <1>1, <1>4, <1>5, <1>6, <1>7, RecordsUnchanged, Zenon DEF IInv

LEMMA ClientStep ==
  ASSUME IInv, NEW c \in Clients, Client(c)
  PROVE  IInv'
<1>1. TypeOK /\ UNCHANGED server
  BY Zenon DEF IInv, Client, Connect, Say, Read, Leave, Reset
<1>2. UNCHANGED <<descriptor, group, eventReceivers>> /\ UNCHANGED <<incoming, unsent, pc, events>>
  BY <1>1 DEF server
<1>3. /\ peer' \in [Clients -> Peers]
      /\ backlog' \subseteq Clients /\ inbox' \subseteq Clients /\ outbox' \subseteq Clients
  BY <1>1, TypeFacts DEF Client, Connect, Say, Read, Leave, Reset, Peers
<1>4. NewHaveNoDescriptor'
  BY <1>1, <1>2, TypeFacts DEF IInv, NewHaveNoDescriptor, Client, Connect, Say, Read, Leave, Reset, Peers
<1>5. TypeOK'
  BY <1>1, <1>2, <1>3, TypeFacts, TypeKept, Zenon
<1>6. FoundAreWatched' /\ EventsGoToClients'
  BY <1>2, Zenon DEF IInv, FoundAreWatched, EventsGoToClients, group
<1>. QED  BY <1>2, <1>4, <1>5, <1>6, RecordsUnchanged, Zenon DEF IInv

-----------------------------------------------------------------------------
(* A client is added, and one is removed.                                    *)

(* accept returns a descriptor that no socket has.                           *)
LEMMA NewDescriptor ==
  ASSUME TypeOK, FreeFds # {}
  PROVE  /\ Min(FreeFds) \in Fds
         /\ \A s \in Sockets : descriptor[s] # Min(FreeFds)
<1>1. FreeFds \in SUBSET Nat
  BY FdsAre DEF FreeFds
<1>2. Min(FreeFds) \in FreeFds
  BY <1>1, MinIs, Zenon
<1> DEFINE fd == Min(FreeFds)
<1>3. fd \in Fds /\ fd \notin OpenFds /\ fd # NoFd
  BY <1>2, FdsAre DEF FreeFds
<1>. QED  BY <1>3 DEF OpenFds

LEMMA AddClientStep ==
  ASSUME IInv, AddClient
  PROVE  /\ IInv'
         /\ ToSet(eventReceivers) \subseteq ToSet(eventReceivers')
         /\ listeningGroup \subseteq listeningGroup'
         /\ \A s \in Sockets : s \in listeningGroup' \/ descriptor'[s] = descriptor[s]
<1>1. TypeOK /\ UNCHANGED <<unsent, events, peer, inbox, outbox>> /\ pc = "handle"
  BY Zenon DEF IInv, AddClient
<1>2. unsent = <<>>
  BY <1>1 DEF IInv, EventsGoToClients
<1>3. CASE FreeFds = {} /\ pc' = "stopped"
           /\ UNCHANGED <<descriptor, group, eventReceivers, incoming, backlog>>
  <2>1. TypeOK'
    <3>1. pc' \in {"packet", "send", "select", "handle", "stopped", "killed"}  BY <1>3
    <3>. QED  BY <1>1, <1>3, <3>1, TypeFacts, TypeKept, Zenon
  <2>2. FoundAreWatched'
    BY <1>3 DEF IInv, FoundAreWatched, group
  <2>3. EventsGoToClients' /\ NewHaveNoDescriptor'
    BY <1>1, <1>2, <1>3, Zenon DEF IInv, EventsGoToClients, NewHaveNoDescriptor
  <2>4. IInv'
    BY <1>3, <2>1, <2>2, <2>3, RecordsUnchanged, Zenon DEF IInv
  <2>. QED  BY <1>3, <2>4, Zenon DEF group
<1>4. CASE /\ FreeFds # {}
           /\ \E c \in backlog :
                /\ backlog' = backlog \ {c}
                /\ descriptor' = [descriptor EXCEPT ![c] = Min(FreeFds)]
                /\ eventReceivers' = Append(eventReceivers, c)
                /\ addSocket(c, Min(FreeFds))
           /\ incoming' = incoming \ {Listener}
           /\ UNCHANGED pc
  <2> DEFINE fd == Min(FreeFds)
  <2>1. fd \in Fds /\ \A s \in Sockets : descriptor[s] # fd
    BY <1>1, <1>4, NewDescriptor, Zenon
  <2> HIDE DEF fd
  <2>2. PICK c \in backlog :
          /\ backlog' = backlog \ {c}
          /\ descriptor' = [descriptor EXCEPT ![c] = fd]
          /\ eventReceivers' = Append(eventReceivers, c)
          /\ addSocket(c, fd)
    BY <1>4, Zenon DEF fd
  <2>3. /\ listeningGroup' = listeningGroup \cup {c}
        /\ listening_set' = listening_set \cup {fd}
        /\ fd > max_fd => max_fd' = fd
        /\ ~(fd > max_fd) => max_fd' = max_fd
    BY <2>2, Zenon DEF addSocket
  <2>4. c \in Clients /\ c \in Sockets /\ descriptor[c] = NoFd
    BY <1>1, TypeFacts DEF IInv, NewHaveNoDescriptor, Clients
  <2>5. /\ descriptor \in [Sockets -> Fds \cup {NoFd}]
        /\ listeningGroup \subseteq Sockets /\ listening_set \subseteq Fds /\ max_fd \in Fds
    BY <1>1, Zenon DEF TypeOK
  <2>6. /\ listening_set = {descriptor[s] : s \in listeningGroup}
        /\ \A s, t \in listeningGroup : descriptor[s] = descriptor[t] => s = t
        /\ max_fd \in listening_set /\ \A f \in listening_set : f <= max_fd
        /\ listeningGroup = {Listener} \cup ToSet(eventReceivers)
        /\ \A s \in listeningGroup : descriptor[s] \in Fds
    BY Zenon DEF IInv, GroupsAgree, WatchedAreOpen
  <2>7. c \notin listeningGroup /\ c \notin ToSet(eventReceivers)
    BY <2>4, <2>6, FdsAre
  <2>8. /\ descriptor'[c] = fd
        /\ \A s \in Sockets : s # c => descriptor'[s] = descriptor[s]
        /\ descriptor' \in [Sockets -> Fds \cup {NoFd}]
    BY <2>1, <2>2, <2>4, <2>5
  <2>9. \A s \in listeningGroup : descriptor'[s] = descriptor[s]
    BY <2>5, <2>7, <2>8
  <2>10. /\ eventReceivers' \in Seq(Clients) /\ IsInjective(eventReceivers')
         /\ ToSet(eventReceivers') = ToSet(eventReceivers) \cup {c}
    <3>1. /\ Append(eventReceivers, c) \in Seq(Clients)
          /\ ToSet(Append(eventReceivers, c)) = ToSet(eventReceivers) \cup {c}
          /\ IsInjective(Append(eventReceivers, c))
      BY <1>1, <2>4, <2>7, TypeFacts, AppendToSet
    <3>. QED  BY <2>2, <3>1, Zenon
  <2>11. TypeOK'
    <3>1. /\ listeningGroup' \subseteq Sockets /\ listening_set' \subseteq Fds /\ max_fd' \in Fds
      BY <2>1, <2>3, <2>4, <2>5
    <3>2. incoming' \subseteq Sockets /\ backlog' \subseteq Clients
      BY <1>1, <1>4, <2>2, TypeFacts
    <3>. QED  BY <1>1, <1>4, <2>8, <2>10, <3>1, <3>2, TypeFacts, Zenon DEF TypeOK
  <2>12. GroupsAgree'
    <3>1. listening_set' = {descriptor'[s] : s \in listeningGroup'}
      BY <2>3, <2>6, <2>8, <2>9
    <3>2. \A s, t \in listeningGroup' : descriptor'[s] = descriptor'[t] => s = t
      <4>1. \A s \in listeningGroup : descriptor'[s] # fd
        BY <2>1, <2>5, <2>9
      <4>. QED  BY <2>3, <2>6, <2>8, <2>9, <4>1
    <3>3. max_fd' \in listening_set' /\ \A f \in listening_set' : f <= max_fd'
      <4>1. fd \in Nat /\ max_fd \in Nat /\ listening_set \subseteq Nat
        BY <2>1, <2>5, FdsAre
      <4>2. \A f \in listening_set : f <= max_fd
        BY <2>6
      <4>3. CASE fd > max_fd
        <5>1. max_fd' = fd  BY <2>3, <4>3
        <5>2. \A f \in listening_set : f <= fd  BY <4>1, <4>2, <4>3
        <5>. QED  BY <2>3, <4>1, <5>1, <5>2
      <4>4. CASE ~(fd > max_fd)
        <5>1. max_fd' = max_fd /\ max_fd \in listening_set  BY <2>3, <2>6, <4>4
        <5>2. fd <= max_fd  BY <4>1, <4>4
        <5>. QED  BY <2>3, <4>2, <5>1, <5>2
      <4>. QED  BY <4>3, <4>4
    <3>4. listeningGroup' = {Listener} \cup ToSet(eventReceivers')
      BY <2>3, <2>6, <2>10
    <3>. QED  BY <3>1, <3>2, <3>3, <3>4, Zenon DEF GroupsAgree
  <2>13. WatchedAreOpen'
    BY <2>1, <2>3, <2>6, <2>8, <2>9 DEF WatchedAreOpen
  <2>14. FoundAreWatched'
    BY <1>1, <1>4, <2>3 DEF IInv, FoundAreWatched
  <2>15. EventsGoToClients'
    BY <1>1, <1>2, <2>10 DEF IInv, EventsGoToClients
  <2>16. NewHaveNoDescriptor'
    <3>1. peer[c] # "away"
      BY <2>2, <2>4 DEF IInv, NewHaveNoDescriptor
    <3>. QED  BY <1>1, <2>2, <2>8, <3>1 DEF IInv, NewHaveNoDescriptor, Clients
  <2>17. IInv'
    BY <2>11, <2>12, <2>13, <2>14, <2>15, <2>16 DEF IInv
  <2>. QED  BY <2>3, <2>8, <2>10, <2>17
<1>. QED  BY <1>3, <1>4, Zenon DEF AddClient

LEMMA RemoveClientStep ==
  ASSUME IInv, RemoveClient
  PROVE  /\ IInv'
         /\ First(incoming) \in incoming
         /\ ToSet(eventReceivers') = ToSet(eventReceivers) \ {First(incoming)}
         /\ listeningGroup' = listeningGroup \ {First(incoming)}
         /\ \A s \in Sockets : descriptor'[s] = NoFd \/ descriptor'[s] = descriptor[s]
         /\ descriptor'[First(incoming)] = NoFd
<1>1. TypeOK /\ UNCHANGED <<unsent, events, peer, backlog, inbox>> /\ pc = "handle"
  BY Zenon DEF IInv, RemoveClient
<1>2. unsent = <<>>
  BY <1>1 DEF IInv, EventsGoToClients
<1> DEFINE c == First(incoming)
           fd == descriptor[c]
<1>3. /\ incoming # {} /\ c # Listener /\ Forget(c)
      /\ outbox' = outbox \ {c} /\ incoming' = {} /\ pc' = "packet"
  BY Zenon DEF RemoveClient
<1>4. /\ descriptor \in [Sockets -> Fds \cup {NoFd}]
      /\ listeningGroup \subseteq Sockets /\ listening_set \subseteq Fds /\ max_fd \in Fds
  BY <1>1, Zenon DEF TypeOK
<1>5. /\ listening_set = {descriptor[s] : s \in listeningGroup}
      /\ \A s, t \in listeningGroup : descriptor[s] = descriptor[t] => s = t
      /\ max_fd \in listening_set /\ \A f \in listening_set : f <= max_fd
      /\ listeningGroup = {Listener} \cup ToSet(eventReceivers)
      /\ \A s \in listeningGroup : descriptor[s] \in Fds
  BY Zenon DEF IInv, GroupsAgree, WatchedAreOpen
<1>6. c \in listeningGroup /\ c \in incoming
  <2>1. incoming \subseteq listeningGroup  BY Zenon DEF IInv, FoundAreWatched
  <2>2. \A s \in incoming : descriptor[s] \in Nat  BY <1>5, <2>1, FdsAre
  <2>3. First(incoming) \in incoming  BY <1>3, <2>2, FirstIs, Zenon
  <2>. QED  BY <2>1, <2>3, Zenon
<1>7. /\ Without(eventReceivers, fd) \in Seq(Clients)
      /\ ToSet(Without(eventReceivers, fd)) = ToSet(eventReceivers) \ {c}
      /\ IsInjective(Without(eventReceivers, fd))
  <2>1. c \in ToSet(eventReceivers)  BY <1>3, <1>5, <1>6, Zenon
  <2>2. \A s \in ToSet(eventReceivers) : descriptor[s] = descriptor[c] => s = c
    BY <1>5, <1>6, Zenon
  <2> HIDE DEF c
  <2>. QED  BY <1>1, <2>1, <2>2, WithoutIs, TypeFacts
<1> DEFINE others == listeningGroup \ {c}
<1> HIDE DEF c
<1>8. /\ listeningGroup' = others /\ listening_set' = listening_set \ {fd}
      /\ max_fd = fd => max_fd' = Max({descriptor[s] : s \in others} \cup {0})
      /\ max_fd # fd => max_fd' = max_fd
      /\ eventReceivers' = Without(eventReceivers, fd)
      /\ descriptor' = [descriptor EXCEPT ![c] = NoFd]
  <2> DEFINE same == {t \in listeningGroup : descriptor[t] = fd}
  <2>1. same = {c}  BY <1>5, <1>6
  <2>2. /\ listeningGroup' \in
             IF same = {} THEN {listeningGroup} ELSE {listeningGroup \ {t} : t \in same}
        /\ listening_set' = IF same = {} THEN listening_set ELSE listening_set \ {fd}
        /\ max_fd' = IF max_fd = fd THEN LargestFd(listeningGroup') ELSE max_fd
        /\ eventReceivers' = Without(eventReceivers, fd)
        /\ descriptor' = [descriptor EXCEPT ![c] = NoFd]
    BY <1>3, Zenon DEF Forget, removeSocket
  <2> HIDE DEF same
  <2>3. same # {}  BY <2>1
  <2>4. listeningGroup' \in {listeningGroup \ {t} : t \in same}  BY <2>2, <2>3, Zenon
  <2>5. listeningGroup' = others  BY <2>1, <2>4
  <2>6. listening_set' = listening_set \ {fd}  BY <2>2, <2>3, Zenon
  <2>7. max_fd = fd => max_fd' = Max({descriptor[s] : s \in others} \cup {0})
    BY <2>2, <2>5, Zenon DEF LargestFd
  <2>8. max_fd # fd => max_fd' = max_fd  BY <2>2, Zenon
  <2>. QED  BY <2>2, <2>5, <2>6, <2>7, <2>8, Zenon
<1>9. /\ \A s \in Sockets : s # c => descriptor'[s] = descriptor[s]
      /\ descriptor'[c] = NoFd
      /\ descriptor' \in [Sockets -> Fds \cup {NoFd}]
  BY <1>4, <1>6, <1>8
<1>10. /\ eventReceivers' \in Seq(Clients) /\ IsInjective(eventReceivers')
       /\ ToSet(eventReceivers') = ToSet(eventReceivers) \ {c}
  BY <1>7, <1>8, Zenon
<1>11. Listener \in others
  BY <1>3, <1>5
<1>12. listening_set' = {descriptor[s] : s \in others}
  BY <1>5, <1>6, <1>8
<1>13. /\ max_fd' \in listening_set'
       /\ \A f \in listening_set' : f <= max_fd'
  <2>1. CASE max_fd = fd
    <3> DEFINE T == {descriptor[s] : s \in others} \cup {0}
    <3>1. /\ FD_SETSIZE - 1 \in Nat /\ T \in SUBSET (0 .. FD_SETSIZE - 1) /\ T # {}
      <4>1. \A s \in others : descriptor[s] \in Fds  BY <1>5
      <4>2. {descriptor[s] : s \in others} \subseteq Fds  BY <4>1
      <4>3. 0 \in 0 .. FD_SETSIZE - 1  BY FdsAre
      <4>. QED  BY <4>2, <4>3, FdsAre, Zenon
    <3> HIDE DEF T
    <3>2. Max(T) \in T /\ \A m \in T : m <= Max(T)
      BY <3>1, MaxIs
    <3>3. max_fd' = Max(T)  BY <1>8, <2>1, Zenon DEF T
    <3>4. descriptor[Listener] \in Nat /\ descriptor[Listener] \in T
      BY <1>5, <1>11, FdsAre DEF T
    <3>5. Max(T) # 0 \/ descriptor[Listener] = 0
      BY <3>2, <3>4
    <3>6. Max(T) \in listening_set'
      BY <1>11, <1>12, <3>2, <3>5 DEF T
    <3>7. listening_set' \subseteq T
      BY <1>12 DEF T
    <3>. QED  BY <3>2, <3>3, <3>6, <3>7, Zenon
  <2>2. CASE max_fd # fd
    BY <1>5, <1>8, <2>2
  <2>. QED  BY <2>1, <2>2
<1>14. TypeOK'
  <2>1. listeningGroup' \subseteq Sockets /\ listening_set' \subseteq Fds
    BY <1>4, <1>8
  <2>2. max_fd' \in Fds  BY <1>13, <2>1
  <2>3. outbox' \subseteq Clients /\ incoming' \subseteq Sockets
    BY <1>1, <1>3, TypeFacts
  <2>4. pc' \in {"packet", "send", "select", "handle", "stopped", "killed"}
    BY <1>3
  <2>. QED  BY <1>1, <1>9, <1>10, <2>1, <2>2, <2>3, <2>4, TypeFacts, Zenon DEF TypeOK
<1>15. \A s \in others : descriptor'[s] = descriptor[s]
  BY <1>4, <1>9
<1>16. GroupsAgree'
  <2>1. listening_set' = {descriptor'[s] : s \in listeningGroup'}
    BY <1>8, <1>12, <1>15
  <2>2. \A s, t \in listeningGroup' : descriptor'[s] = descriptor'[t] => s = t
    BY <1>5, <1>8, <1>15
  <2>3. listeningGroup' = {Listener} \cup ToSet(eventReceivers')
    BY <1>3, <1>5, <1>8, <1>10
  <2>. QED  BY <1>13, <2>1, <2>2, <2>3, Zenon DEF GroupsAgree
<1>17. WatchedAreOpen'
  BY <1>5, <1>8, <1>15 DEF WatchedAreOpen
<1>18. FoundAreWatched' /\ EventsGoToClients'
  <2>1. ToSet(unsent') = {}  BY <1>1, <1>2, EmptyIs, Zenon
  <2>. QED  BY <1>1, <1>2, <1>3, <2>1 DEF FoundAreWatched, EventsGoToClients
<1>19. NewHaveNoDescriptor'
  BY <1>1, <1>9 DEF IInv, NewHaveNoDescriptor, Clients
<1>20. IInv'
  BY <1>14, <1>16, <1>17, <1>18, <1>19 DEF IInv
<1>. QED  BY <1>6, <1>8, <1>9, <1>10, <1>20 DEF c

-----------------------------------------------------------------------------
LEMMA NextIInv == IInv /\ [Next]_vars => IInv'
<1> SUFFICES ASSUME IInv, [Next]_vars PROVE IInv'
  OBVIOUS
<1>1. CASE Server
  BY <1>1, LoopStep, OnEventStep, AddClientStep, ReceiveStep, RemoveClientStep, SendToStep,
     Zenon DEF Server
<1>2. CASE \E c \in Clients : Client(c)
  BY <1>2, ClientStep, Zenon
<1>3. CASE UNCHANGED vars
  <2>1. UNCHANGED <<descriptor, group, eventReceivers>> /\ UNCHANGED <<incoming, unsent, pc, events>>
        /\ UNCHANGED <<peer, backlog, inbox, outbox>>
    BY <1>3 DEF vars, server, network
  <2>2. TypeOK'
    BY <2>1, TypeFacts, TypeKept, Zenon DEF IInv
  <2>3. FoundAreWatched' /\ EventsGoToClients' /\ NewHaveNoDescriptor'
    BY <2>1, Zenon DEF IInv, FoundAreWatched, EventsGoToClients, NewHaveNoDescriptor, group
  <2>. QED  BY <2>1, <2>2, <2>3, RecordsUnchanged, Zenon DEF IInv
<1>. QED  BY <1>1, <1>2, <1>3, Zenon DEF Next

LEMMA Invariance == Spec => []IInv
BY InitIInv, NextIInv, PTL DEF Spec

(* The types hold, whatever the numbers of clients, descriptors and events:  *)
(* max_fd always is a descriptor that an fd_set has room for, and no list    *)
(* has a client twice.                                                       *)
THEOREM TypeCorrect == Spec => []TypeOK
<1>1. IInv => TypeOK  BY Zenon DEF IInv
<1>. QED  BY <1>1, Invariance, PTL

(* The descriptor set, the largest descriptor, the group and the list of     *)
(* clients agree with each other at all times.                               *)
THEOREM GroupsAgreeHolds == Spec => []GroupsAgree
<1>1. IInv => GroupsAgree  BY Zenon DEF IInv
<1>. QED  BY <1>1, Invariance, PTL

(* Whatever the server looks at, sends to or watches is a socket with an     *)
(* open descriptor, never one it has deleted.                                *)
THEOREM NoSocketIsUsedAfterDeleteHolds == Spec => []NoSocketIsUsedAfterDelete
<1>1. ASSUME IInv PROVE NoSocketIsUsedAfterDelete
  <2>1. /\ incoming \subseteq listeningGroup
        /\ ToSet(unsent) \subseteq ToSet(eventReceivers)
        /\ listeningGroup = {Listener} \cup ToSet(eventReceivers)
        /\ \A s \in listeningGroup : descriptor[s] \in Fds
    BY <1>1, Zenon DEF IInv, FoundAreWatched, EventsGoToClients, GroupsAgree, WatchedAreOpen
  <2>. QED  BY <2>1, FdsAre DEF NoSocketIsUsedAfterDelete
<1>. QED  BY <1>1, Invariance, PTL

-----------------------------------------------------------------------------
(* For what is removed, more has to be known: every open socket is watched,  *)
(* so the descriptor that can be read is that of the socket Select returns;  *)
(* and what made that socket readable lasts until it is handled.             *)

OpenAreWatched == \A s \in Sockets : descriptor[s] # NoFd => s \in listeningGroup

FoundAreReadable == \A c \in incoming \ {Listener} : c \in inbox \/ Gone(c)

LEMMA InitFound == Init => OpenAreWatched /\ FoundAreReadable
<1> SUFFICES ASSUME Init PROVE OpenAreWatched /\ FoundAreReadable
  OBVIOUS
<1>1. \A s \in Sockets : s # Listener => descriptor[s] = NoFd
  BY DEF Init
<1>2. listeningGroup = {Listener} /\ incoming = {}
  BY Zenon DEF Init
<1>. QED  BY <1>1, <1>2 DEF OpenAreWatched, FoundAreReadable

LEMMA NextOpenAreWatched ==
  ASSUME IInv, OpenAreWatched, [Next]_vars
  PROVE  OpenAreWatched'
<1>1. CASE UNCHANGED <<descriptor, group>>
  <2>1. UNCHANGED <<descriptor, listeningGroup>>  BY <1>1 DEF group
  <2>. QED  BY <2>1 DEF OpenAreWatched
<1>2. CASE AddClient
  BY <1>2, AddClientStep DEF OpenAreWatched
<1>3. CASE RemoveClient
  BY <1>3, RemoveClientStep DEF OpenAreWatched
<1>4. CASE ReceiveData \/ PacketDone \/ OnEvent \/ SendDone \/ SelectSockets \/ HandleDone
  BY <1>1, <1>4, Zenon DEF ReceiveData, PacketDone, OnEvent, SendDone, SelectSockets, HandleDone
<1>5. CASE \E c \in Clients : SendTo(c)
  BY <1>1, <1>5, Zenon DEF SendTo
<1>6. CASE UNCHANGED server
  BY <1>1, <1>6 DEF server
<1>7. CASE \E c \in Clients : Client(c)
  BY <1>6, <1>7, Zenon DEF Client, Connect, Say, Read, Leave, Reset
<1>8. CASE UNCHANGED vars
  BY <1>6, <1>8 DEF vars
<1>. QED  BY <1>2, <1>3, <1>4, <1>5, <1>7, <1>8, Zenon DEF Next, Server

LEMMA NextFoundAreReadable ==
  ASSUME IInv, OpenAreWatched, FoundAreReadable, [Next]_vars
  PROVE  FoundAreReadable'
<1>1. TypeOK /\ incoming \subseteq listeningGroup /\ listeningGroup \subseteq Sockets
  BY Zenon DEF IInv, FoundAreWatched, TypeOK
<1>2. peer \in [Clients -> Peers]
  BY <1>1, TypeFacts, Zenon
<1>3. CASE incoming' = {}
  BY <1>3 DEF FoundAreReadable
<1>4. CASE PacketDone \/ OnEvent \/ SendDone \/ HandleDone \/ AddClient \/ UNCHANGED vars
  <2>1. incoming' \subseteq incoming /\ UNCHANGED <<peer, inbox>>
    BY <1>4 DEF PacketDone, OnEvent, SendDone, HandleDone, AddClient, vars, server, network
  <2>. QED  BY <2>1 DEF FoundAreReadable, Gone
<1>5. CASE \E c \in Clients : SendTo(c)
  <2>1. pc = "send" /\ incoming' = incoming
    BY <1>5, Zenon DEF SendTo
  <2>2. incoming = {}
    BY <2>1 DEF IInv, FoundAreWatched
  <2>. QED  BY <1>3, <2>1, <2>2, Zenon
<1>6. CASE SelectSockets
  <2> SUFFICES ASSUME NEW c \in incoming', c # Listener
               PROVE  c \in inbox' \/ Gone(c)'
    BY DEF FoundAreReadable
  <2>1. UNCHANGED <<peer, inbox>>
    BY <1>6 DEF SelectSockets, network
  <2>2. c \in listeningGroup /\ descriptor[c] \in ReadableFds
    BY <1>6 DEF SelectSockets, Select
  <2>3. PICK t \in Sockets : descriptor[t] # NoFd /\ Readable(t) /\ descriptor[c] = descriptor[t]
    BY <2>2, Zenon DEF ReadableFds
  <2>4. t = c
    BY <2>2, <2>3, Zenon DEF OpenAreWatched, IInv, GroupsAgree
  <2>5. c \in inbox \/ Gone(c)
    BY <2>3, <2>4 DEF Readable
  <2>. QED  BY <2>1, <2>5 DEF Gone
<1>7. CASE ReceiveData
  <2> DEFINE d == First(incoming)
  <2>1. /\ incoming' = incoming \ {d} /\ inbox' = inbox \ {d}
        /\ peer' = peer \/ peer' = [peer EXCEPT ![d] = "reset"]
    BY <1>7 DEF ReceiveData
  <2> HIDE DEF d
  <2>2. \A c \in Clients : Gone(c) => Gone(c)'
    BY <1>2, <2>1 DEF Gone
  <2>. QED  BY <1>1, <2>1, <2>2 DEF FoundAreReadable, Clients
<1>8. CASE RemoveClient
  BY <1>3, <1>8, Zenon DEF RemoveClient
<1>9. CASE \E c \in Clients : Client(c)
  <2>1. PICK d \in Clients : Connect(d) \/ Say(d) \/ Read(d) \/ Leave(d) \/ Reset(d)
    BY <1>9, Zenon DEF Client
  <2>2. incoming' = incoming
    BY <2>1 DEF Connect, Say, Read, Leave, Reset, server
  <2>3. inbox \subseteq inbox'
    BY <2>1 DEF Connect, Say, Read, Leave, Reset
  <2>4. \A c \in Clients : Gone(c) => Gone(c)'
    BY <1>2, <2>1 DEF Connect, Say, Read, Leave, Reset, Gone
  <2>. QED  BY <1>1, <2>2, <2>3, <2>4 DEF FoundAreReadable, Clients
<1>. QED  BY <1>4, <1>5, <1>6, <1>7, <1>8, <1>9, Zenon DEF Next, Server

LEMMA FoundInvariance == Spec => [](IInv /\ OpenAreWatched /\ FoundAreReadable)
<1>1. Init => IInv /\ OpenAreWatched /\ FoundAreReadable
  BY InitIInv, InitFound, Zenon
<1>2. IInv /\ OpenAreWatched /\ FoundAreReadable /\ [Next]_vars
        => (IInv /\ OpenAreWatched /\ FoundAreReadable)'
  BY NextIInv, NextOpenAreWatched, NextFoundAreReadable, Zenon
<1>. QED  BY <1>1, <1>2, PTL DEF Spec

(* The server drops a client only when that client has closed its connection *)
(* and all it sent has been received: between select and the removal nothing *)
(* can make another socket take its place in the list.                       *)
THEOREM OnlyGoneAreRemovedHolds == Spec => OnlyGoneAreRemoved
<1> DEFINE Lost == ToSet(eventReceivers) \ ToSet(eventReceivers')
<1>1. ASSUME IInv, FoundAreReadable, [Next]_vars
      PROVE  \A c \in Lost : Gone(c) /\ c \notin inbox
  <2>1. CASE UNCHANGED eventReceivers
    BY <2>1
  <2>2. CASE AddClient
    BY <1>1, <2>2, AddClientStep
  <2>3. CASE RemoveClient
    <3> DEFINE d == First(incoming)
    <3>1. d # Listener /\ d \notin inbox
      BY <2>3, Zenon DEF RemoveClient
    <3>2. d \in incoming /\ ToSet(eventReceivers') = ToSet(eventReceivers) \ {d}
      BY <1>1, <2>3, RemoveClientStep, Zenon
    <3>3. Gone(d)
      BY <1>1, <3>1, <3>2, Zenon DEF FoundAreReadable
    <3>. QED  BY <3>1, <3>2, <3>3
  <2>4. CASE ReceiveData \/ PacketDone \/ OnEvent \/ SendDone \/ SelectSockets \/ HandleDone
    BY <2>1, <2>4, Zenon DEF ReceiveData, PacketDone, OnEvent, SendDone, SelectSockets, HandleDone
  <2>5. CASE \E c \in Clients : SendTo(c)
    BY <2>1, <2>5, Zenon DEF SendTo
  <2>6. CASE UNCHANGED server
    BY <2>1, <2>6 DEF server
  <2>7. CASE \E c \in Clients : Client(c)
    BY <2>6, <2>7, Zenon DEF Client, Connect, Say, Read, Leave, Reset
  <2>8. CASE UNCHANGED vars
    BY <2>6, <2>8 DEF vars
  <2>. QED  BY <1>1, <2>2, <2>3, <2>4, <2>5, <2>7, <2>8, Zenon DEF Next, Server
<1>2. IInv /\ FoundAreReadable /\ [Next]_vars
        => [\A c \in Lost : Gone(c) /\ c \notin inbox]_vars
  BY <1>1, Zenon
<1>. QED  BY <1>2, FoundInvariance, PTL DEF Spec, OnlyGoneAreRemoved
=============================================================================
