------------------------------ MODULE Endpoints ------------------------------
(***************************************************************************)
(* UDPEndpoint and TCPEndpoint objects and the descriptors they own.       *)
(*                                                                         *)
(* internal is each object's internal_: its descriptor, -1 before there is *)
(* one, Null once the object was moved from.  sockets is the kernel's      *)
(* table of open descriptors, with the port a socket is bound to and the   *)
(* datagrams that wait in it.  A call on a moved-from object, or on one    *)
(* without a descriptor, answers Error and changes nothing.                *)
(***************************************************************************)
EXTENDS Integers, FiniteSets, FiniteSetsExt, Functions, SequencesExt

CONSTANTS
    UdpEndpoints, TcpEndpoints,    \* names for objects
    Ports,                         \* port numbers, from 1
    Descriptors,                   \* bound: what socket() hands out
    MaxWaiting,                    \* bound: datagrams in a socket
    Datagrams,                     \* what is sent
    Once                           \* callers bind or connect an endpoint once

ASSUME EndpointsAssumption ==
    /\ UdpEndpoints \cap TcpEndpoints = {}
    /\ Ports \subseteq Nat \ {0} /\ Descriptors \subseteq Nat
    /\ MaxWaiting \in Nat /\ Once \in BOOLEAN

VARIABLES internal, sockets

endpointVars == <<internal, sockets>>

NoSocket == -1
Null == -2
NoObject == -3
AnyPort == 0           \* a socket the kernel has given a port of its own

EndpointNames == UdpEndpoints \cup TcpEndpoints
Alive(e) == internal[e] # NoObject
Usable(e) == internal[e] \in Descriptors

EndpointsInit ==
    internal = [e \in EndpointNames |-> NoObject] /\ sockets = [d \in {} |-> {}]

-----------------------------------------------------------------------------
(* The kernel.                                                             *)
Free == Descriptors \ DOMAIN sockets
Opened(new, port) ==
    [d \in DOMAIN sockets \cup {new} |->
        IF d = new THEN [port |-> port, waiting |-> <<>>] ELSE sockets[d]]
Closed(open, d) == Restrict(open, DOMAIN open \ {d})
BoundTo(port) == {d \in DOMAIN sockets : sockets[d].port = port}

-----------------------------------------------------------------------------
Construct(e) ==
    /\ ~Alive(e)
    /\ internal' = [internal EXCEPT ![e] = NoSocket]
    /\ UNCHANGED sockets

(* ~Internal closes the descriptor; there may be no Internal.              *)
Destroy(e) ==
    /\ Alive(e)
    /\ internal' = [internal EXCEPT ![e] = NoObject]
    /\ sockets' = Closed(sockets, internal[e])

SameKind(e, f) == {e, f} \subseteq UdpEndpoints \/ {e, f} \subseteq TcpEndpoints

TakenAndKept(e, f) == [internal EXCEPT ![e] = internal[f]]
Taken(e, f) == [internal EXCEPT ![e] = internal[f], ![f] = Null]

MoveConstruct(e, f) ==
    /\ ~Alive(e) /\ Alive(f) /\ SameKind(e, f)
    /\ internal' = Taken(e, f)
    /\ UNCHANGED sockets

MoveAssign(e, f) ==
    /\ e # f /\ Alive(e) /\ Alive(f) /\ SameKind(e, f)
    /\ sockets' = Closed(sockets, internal[e])
    /\ internal' = Taken(e, f)

(* bind and connect make a new socket, whatever the endpoint has, and keep *)
(* it if the kernel agrees.                                                *)
MayOpen(e) == Alive(e) /\ internal[e] # Null /\ (Once => ~Usable(e))

OpenSocket(e, port) ==
    \E new \in Free :
        /\ sockets' = Opened(new, port)
        /\ internal' = [internal EXCEPT ![e] = new]

(* There is no socket to be had, or bind or connect fails and it is closed. *)
OpenFails(e) ==
    /\ internal' = [internal EXCEPT ![e] = NoSocket]
    /\ UNCHANGED sockets

Bind(e, port) ==
    /\ e \in UdpEndpoints /\ MayOpen(e)
    /\ \/ BoundTo(port) = {} /\ OpenSocket(e, port)
       \/ OpenFails(e)

Connect(e) ==
    /\ e \in UdpEndpoints /\ MayOpen(e)
    /\ OpenSocket(e, AnyPort) \/ OpenFails(e)

(* TCPEndpoint passes its SockAddr where the kernel wants a sockaddr: no   *)
(* address is valid, and the socket is closed again.                       *)
TcpConnect(e) == e \in TcpEndpoints /\ MayOpen(e) /\ OpenFails(e)

-----------------------------------------------------------------------------
(* A datagram waits in the socket of its port, or is lost.                 *)
Send(e, port, datagram) ==
    /\ Usable(e)
    /\ \/ \E d \in BoundTo(port) :
             /\ Len(sockets[d].waiting) < MaxWaiting
             /\ sockets' = [sockets EXCEPT ![d].waiting = Append(@, datagram)]
       \/ UNCHANGED sockets
    /\ UNCHANGED internal

Waiting(e) == sockets[internal[e]].waiting

PollStatus(e) ==
    IF ~Usable(e) THEN "Error" ELSE IF Waiting(e) = <<>> THEN "Timeout" ELSE "Ready"

(* The datagram that has waited longest; what does not fit is dropped, and *)
(* the status does not tell.                                               *)
Received(bytes, room) == SubSeq(bytes, 1, Min({room, Len(bytes)}))

Recv(e) ==
    /\ Usable(e) /\ Waiting(e) # <<>>
    /\ sockets' = [sockets EXCEPT ![internal[e]].waiting = Tail(@)]
    /\ UNCHANGED internal

EndpointStep ==
    \/ \E e \in EndpointNames : Construct(e) \/ Destroy(e)
    \/ \E e, f \in EndpointNames : MoveConstruct(e, f) \/ MoveAssign(e, f)
    \/ \E e \in UdpEndpoints : Connect(e) \/ \E port \in Ports : Bind(e, port)
    \/ \E e \in TcpEndpoints : TcpConnect(e)

EndpointsNext ==
    \/ EndpointStep
    \/ \E e \in UdpEndpoints, port \in Ports, datagram \in Datagrams : Send(e, port, datagram)
    \/ \E e \in UdpEndpoints : Recv(e)

EndpointsSpec == EndpointsInit /\ [][EndpointsNext]_endpointVars

-----------------------------------------------------------------------------
(* Every open descriptor is that of exactly one endpoint, and no endpoint  *)
(* has one that is closed, however endpoints are opened, moved, assigned   *)
(* and destroyed: none leaks, none is closed twice, and no endpoint uses   *)
(* the descriptor of another after the kernel has given it out again.      *)
DescriptorsOwned ==
    /\ \A d \in DOMAIN sockets : Cardinality({e \in EndpointNames : internal[e] = d}) = 1
    /\ \A e \in EndpointNames : Usable(e) => internal[e] \in DOMAIN sockets
=============================================================================
