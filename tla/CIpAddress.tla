----------------------------- MODULE CIpAddress -----------------------------
(***************************************************************************)
(* IPv4 addresses, as their four bytes, and socket addresses as the system *)
(* takes and gives them: with the port in network order.                   *)
(***************************************************************************)
EXTENDS Integers, Sequences

Bytes == 0 .. 255

INADDR_NONE == <<255, 255, 255, 255>>
ADDRESS_ANY == <<0, 0, 0, 0>>
LOCALHOST   == <<127, 0, 0, 1>>

PORT_ANY == 0
AF_INET  == "AF_INET"

(* A text is the numbers in it; any text without four of them is malformed. *)
Malformed == <<>>

inet_addr(text) == IF text = Malformed THEN INADDR_NONE ELSE text

(* The test for an error looks at the address there was, not at the new one: *)
(* a malformed text is taken, and everything is refused after it.            *)
setAddress(mAddress, text) ==
  [mAddress |-> IF mAddress # INADDR_NONE THEN inet_addr(text) ELSE mAddress,
   thrown   |-> mAddress = INADDR_NONE]

(* A new address is 0.0.0.0 until it is set. *)
NewAddress(text) == setAddress(ADDRESS_ANY, text)

isInMulticastRange(mAddress) == mAddress[1] \in 224 .. 239

(* On a little-endian machine. *)
htons(port) == (port % 256) * 256 + port \div 256
ntohs(port) == htons(port)

ToSockAddr(address, port) ==
  [sin_family |-> AF_INET, sin_addr |-> address, sin_port |-> htons(port)]

(* What the caller's address and port become. *)
FromSockAddr(sockAddr, address, port) ==
  IF sockAddr.sin_family = AF_INET
  THEN [address |-> sockAddr.sin_addr, port |-> ntohs(sockAddr.sin_port)]
  ELSE [address |-> address, port |-> port]
=============================================================================
