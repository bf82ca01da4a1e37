------------------------------ MODULE IoProofs ------------------------------
(***************************************************************************)
(* What is proved about csics/io.                                          *)
(*                                                                         *)
(* Endpoints: however many endpoints and descriptors there are, as long as *)
(* no endpoint is bound or connected a second time, each open descriptor   *)
(* has one owner.                                                          *)
(*                                                                         *)
(* StreamEncoder: for every input, however it and the room for its output  *)
(* are cut, what was put out and what is held over encode exactly the      *)
(* bytes that were passed on.  Of Base64 that is shown from the bits up:   *)
(* a sextet, four sextets of a group, groups in a row, what is left over   *)
(* and its padding, and how a piece goes on where the last one ended.  Of  *)
(* a compressor an invariant says it of every point inside a call, between *)
(* two calls of the library.                                               *)
(***************************************************************************)
EXTENDS Endpoints, StreamEncoder, Integers, SequenceTheorems, FiniteSetTheorems, TLAPS

-----------------------------------------------------------------------------
(* Endpoints and their descriptors.                                        *)

USE EndpointsAssumption

HasDescriptor(e) == internal[e] \in Descriptors

EndpointsTypeInv ==
    /\ internal \in [EndpointNames -> Descriptors \cup {NoSocket, Null, NoObject}]
    /\ DOMAIN sockets \subseteq Descriptors

(* No two endpoints share a descriptor, an endpoint's descriptor is open,  *)
(* and an open one is some endpoint's.                                     *)
OneOwner ==
    \A e, f \in EndpointNames : HasDescriptor(e) /\ internal[e] = internal[f] => e = f
OwnedAreOpen == \A e \in EndpointNames : HasDescriptor(e) => internal[e] \in DOMAIN sockets
OpenAreOwned == \A d \in DOMAIN sockets : \E e \in EndpointNames : internal[e] = d

EndpointsInv == EndpointsTypeInv /\ OneOwner /\ OwnedAreOpen /\ OpenAreOwned

-----------------------------------------------------------------------------
\* What an endpoint has when it has no descriptor is not a descriptor.
LEMMA NoneIsDescriptor == {NoSocket, Null, NoObject} \cap Descriptors = {}
BY DEF NoSocket, Null, NoObject

\* The first state has neither objects nor sockets.
LEMMA InitOwned == EndpointsInit => EndpointsInv
BY NoneIsDescriptor
   DEF EndpointsInit, EndpointsInv, EndpointsTypeInv, OneOwner, OwnedAreOpen, OpenAreOwned,
      HasDescriptor

\* Opening a socket for an endpoint without one keeps the invariant.
LEMMA OpenSocketOwned ==
    ASSUME EndpointsInv, NEW e \in EndpointNames, NEW port, ~Usable(e), OpenSocket(e, port)
    PROVE  EndpointsInv'
<1>1. PICK new \in Free : /\ sockets' = Opened(new, port)
                         /\ internal' = [internal EXCEPT ![e] = new]
  BY DEF OpenSocket
<1>2. new \in Descriptors /\ new \notin DOMAIN sockets
  BY DEF Free
<1>3. DOMAIN sockets' = DOMAIN sockets \cup {new}
  BY <1>1 DEF Opened
<1>4. EndpointsTypeInv'
  BY <1>1, <1>2, <1>3 DEF EndpointsInv, EndpointsTypeInv
<1>5. \A f \in EndpointNames : internal[f] # new
  BY <1>2 DEF EndpointsInv, OwnedAreOpen, HasDescriptor
<1>6. OneOwner'
  BY <1>1, <1>5 DEF EndpointsInv, EndpointsTypeInv, OneOwner, HasDescriptor
<1>7. OwnedAreOpen'
  BY <1>1, <1>3 DEF EndpointsInv, EndpointsTypeInv, OwnedAreOpen, HasDescriptor
<1>8. OpenAreOwned'
  BY <1>1, <1>3 DEF EndpointsInv, EndpointsTypeInv, OpenAreOwned, Usable
<1> QED BY <1>4, <1>6, <1>7, <1>8 DEF EndpointsInv

\* An attempt that fails leaves an endpoint without a descriptor without one.
LEMMA OpenFailsOwned ==
    ASSUME EndpointsInv, NEW e \in EndpointNames, ~Usable(e), OpenFails(e)
    PROVE  EndpointsInv'
BY NoneIsDescriptor
   DEF OpenFails, Usable, EndpointsInv, EndpointsTypeInv, OneOwner, OwnedAreOpen,
      OpenAreOwned, HasDescriptor

\* The destructor closes its descriptor and no other.
LEMMA DestroyOwned ==
    ASSUME EndpointsInv, NEW e \in EndpointNames, Destroy(e)
    PROVE  EndpointsInv'
<1>1. DOMAIN sockets' = DOMAIN sockets \ {internal[e]}
  BY DEF Destroy, Closed, Restrict
<1>2. internal' = [internal EXCEPT ![e] = NoObject]
  BY DEF Destroy
<1>3. EndpointsTypeInv' /\ OneOwner'
  BY <1>1, <1>2, NoneIsDescriptor DEF EndpointsInv, EndpointsTypeInv, OneOwner, HasDescriptor
<1>4. OwnedAreOpen'
  BY <1>1, <1>2, NoneIsDescriptor DEF EndpointsInv, EndpointsTypeInv, OneOwner, OwnedAreOpen,
     HasDescriptor
<1>5. OpenAreOwned'
  BY <1>1, <1>2 DEF EndpointsInv, EndpointsTypeInv, OpenAreOwned
<1> QED BY <1>3, <1>4, <1>5 DEF EndpointsInv

\* A constructor makes an object without a descriptor.
LEMMA ConstructOwned ==
    ASSUME EndpointsInv, NEW e \in EndpointNames, Construct(e)
    PROVE  EndpointsInv'
BY NoneIsDescriptor
   DEF Construct, Alive, EndpointsInv, EndpointsTypeInv, OneOwner, OwnedAreOpen, OpenAreOwned,
      HasDescriptor

\* A move passes the descriptor on, and leaves none behind.
LEMMA MoveConstructOwned ==
    ASSUME EndpointsInv, NEW e \in EndpointNames, NEW f \in EndpointNames, MoveConstruct(e, f)
    PROVE  EndpointsInv'
<1>1. internal' = [internal EXCEPT ![e] = internal[f], ![f] = Null] /\ UNCHANGED sockets
  BY DEF MoveConstruct, Taken
<1>2. e # f /\ internal[e] = NoObject
  BY DEF MoveConstruct, Alive
<1>3. EndpointsTypeInv' /\ OneOwner'
  BY <1>1, <1>2, NoneIsDescriptor DEF EndpointsInv, EndpointsTypeInv, OneOwner, HasDescriptor
<1>4. OwnedAreOpen'
  BY <1>1, <1>2, NoneIsDescriptor DEF EndpointsInv, EndpointsTypeInv, OwnedAreOpen, HasDescriptor
<1>5. OpenAreOwned'
  <2> SUFFICES ASSUME NEW d \in DOMAIN sockets
               PROVE  \E g \in EndpointNames : internal'[g] = d
    BY <1>1 DEF OpenAreOwned
  <2>1. PICK g \in EndpointNames : internal[g] = d
    BY DEF EndpointsInv, OpenAreOwned
  <2>2. d \in Descriptors
    BY DEF EndpointsInv, EndpointsTypeInv
  <2>3. CASE g = f
    BY <1>1, <1>2, <2>1, <2>3 DEF EndpointsInv, EndpointsTypeInv
  <2>4. CASE g # f
    <3>1. g # e
      BY <1>2, <2>1, <2>2, NoneIsDescriptor
    <3> QED BY <1>1, <2>1, <2>4, <3>1 DEF EndpointsInv, EndpointsTypeInv
  <2> QED BY <2>3, <2>4
<1> QED BY <1>3, <1>4, <1>5 DEF EndpointsInv

\* An assignment closes what the endpoint had, which is not what it gets.
LEMMA MoveAssignOwned ==
    ASSUME EndpointsInv, NEW e \in EndpointNames, NEW f \in EndpointNames, MoveAssign(e, f)
    PROVE  EndpointsInv'
<1>1. internal' = [internal EXCEPT ![e] = internal[f], ![f] = Null] /\ e # f
  BY DEF MoveAssign, Taken
<1>2. DOMAIN sockets' = DOMAIN sockets \ {internal[e]}
  BY DEF MoveAssign, Closed, Restrict
<1>3. EndpointsTypeInv' /\ OneOwner'
  BY <1>1, <1>2, NoneIsDescriptor DEF EndpointsInv, EndpointsTypeInv, OneOwner, HasDescriptor
<1>4. OwnedAreOpen'
  BY <1>1, <1>2, NoneIsDescriptor DEF EndpointsInv, EndpointsTypeInv, OneOwner, OwnedAreOpen,
     HasDescriptor
<1>5. OpenAreOwned'
  <2> SUFFICES ASSUME NEW d \in DOMAIN sockets, d # internal[e]
               PROVE  \E g \in EndpointNames : internal'[g] = d
    BY <1>2 DEF OpenAreOwned
  <2>1. PICK g \in EndpointNames : internal[g] = d
    BY DEF EndpointsInv, OpenAreOwned
  <2>2. g # e
    BY <2>1
  <2>3. CASE g = f
    BY <1>1, <2>1, <2>3 DEF EndpointsInv, EndpointsTypeInv
  <2>4. CASE g # f
    BY <1>1, <2>1, <2>2, <2>4 DEF EndpointsInv, EndpointsTypeInv
  <2> QED BY <2>3, <2>4
<1> QED BY <1>3, <1>4, <1>5 DEF EndpointsInv

\* What does not change who owns what keeps the invariant.
LEMMA SameOwners ==
    ASSUME EndpointsInv, UNCHANGED internal, DOMAIN sockets' = DOMAIN sockets
    PROVE  EndpointsInv'
BY DEF EndpointsInv, EndpointsTypeInv, OneOwner, OwnedAreOpen, OpenAreOwned, HasDescriptor

\* Every step of endpoints that are opened once keeps the invariant.
LEMMA StepOwned ==
    ASSUME Once, EndpointsInv, [EndpointsNext]_endpointVars
    PROVE  EndpointsInv'
<1> USE DEF EndpointNames
<1>1. ASSUME NEW e \in EndpointNames, Construct(e) \/ Destroy(e)
      PROVE  EndpointsInv'
  BY <1>1, ConstructOwned, DestroyOwned
<1>2. ASSUME NEW e \in EndpointNames, NEW f \in EndpointNames,
             MoveConstruct(e, f) \/ MoveAssign(e, f)
      PROVE  EndpointsInv'
  BY <1>2, MoveConstructOwned, MoveAssignOwned
<1>3. ASSUME NEW e \in UdpEndpoints, Connect(e)
      PROVE  EndpointsInv'
  BY <1>3, OpenSocketOwned, OpenFailsOwned DEF Connect, MayOpen
<1>4. ASSUME NEW e \in UdpEndpoints, NEW port \in Ports, Bind(e, port)
      PROVE  EndpointsInv'
  BY <1>4, OpenSocketOwned, OpenFailsOwned DEF Bind, MayOpen
<1>5. ASSUME NEW e \in TcpEndpoints, TcpConnect(e)
      PROVE  EndpointsInv'
  BY <1>5, OpenFailsOwned DEF TcpConnect, MayOpen
<1>6. ASSUME NEW e \in UdpEndpoints, NEW port \in Ports, NEW datagram \in Datagrams,
             Send(e, port, datagram)
      PROVE  EndpointsInv'
  <2>1. UNCHANGED internal /\ DOMAIN sockets' = DOMAIN sockets
    BY <1>6 DEF Send
  <2> QED BY <2>1, SameOwners
<1>7. ASSUME NEW e \in UdpEndpoints, Recv(e)
      PROVE  EndpointsInv'
  <2>1. UNCHANGED internal /\ DOMAIN sockets' = DOMAIN sockets
    BY <1>7 DEF Recv
  <2> QED BY <2>1, SameOwners
<1>8. CASE UNCHANGED endpointVars
  BY <1>8, SameOwners DEF endpointVars
<1> HIDE DEF EndpointNames
<1> QED BY <1>1, <1>2, <1>3, <1>4, <1>5, <1>6, <1>7, <1>8 DEF EndpointsNext, EndpointStep

\* The invariant says of each open descriptor that the set of its owners has one member.
LEMMA OwnersAreOne == EndpointsInv => DescriptorsOwned
<1> SUFFICES ASSUME EndpointsInv PROVE DescriptorsOwned
  OBVIOUS
<1>1. ASSUME NEW d \in DOMAIN sockets
      PROVE  Cardinality({e \in EndpointNames : internal[e] = d}) = 1
  <2>1. PICK e \in EndpointNames : internal[e] = d
    BY DEF EndpointsInv, OpenAreOwned
  <2>2. d \in Descriptors
    BY DEF EndpointsInv, EndpointsTypeInv
  <2>3. {f \in EndpointNames : internal[f] = d} = {e}
    BY <2>1, <2>2 DEF EndpointsInv, OneOwner, HasDescriptor
  <2> QED BY <2>3, FS_Singleton
<1>2. \A e \in EndpointNames : Usable(e) => internal[e] \in DOMAIN sockets
  BY DEF EndpointsInv, OwnedAreOpen, HasDescriptor, Usable
<1> QED BY <1>1, <1>2 DEF DescriptorsOwned

-----------------------------------------------------------------------------
\* UDPEndpoint and TCPEndpoint own their descriptors: whatever is constructed, opened
\* once, moved, assigned and destroyed, no descriptor leaks, is closed twice or is shared.
THEOREM EndpointsOwnDescriptors ==
    ASSUME Once
    PROVE  EndpointsSpec => []DescriptorsOwned
<1>1. EndpointsInit => EndpointsInv
  BY InitOwned
<1>2. EndpointsInv /\ [EndpointsNext]_endpointVars => EndpointsInv'
  BY StepOwned
<1>3. EndpointsInv => DescriptorsOwned
  BY OwnersAreOne
<1> QED BY <1>1, <1>2, <1>3, PTL DEF EndpointsSpec

HIDE EndpointsAssumption

-----------------------------------------------------------------------------
(* Sequences and their parts.                                              *)

\* A function on 1..n is a sequence of length n.
LEMMA SequenceOf ==
    ASSUME NEW S, NEW n \in Nat, NEW f \in [1..n -> S]
    PROVE  f \in Seq(S) /\ Len(f) = n
OBVIOUS

\* What comes after the first n elements.
LEMMA FromIs ==
    ASSUME NEW S, NEW s \in Seq(S), NEW n \in 0..Len(s)
    PROVE  /\ From(s, n) \in Seq(S) /\ Len(From(s, n)) = Len(s) - n
           /\ \A i \in 1..Len(s) - n : From(s, n)[i] = s[n + i]
<1>1. Len(s) \in Nat /\ \A i \in n + 1 .. Len(s) : s[i] \in S
  BY LenProperties, ElementOfSeq
<1>2. /\ From(s, n) \in Seq(S)
      /\ Len(From(s, n)) = IF n + 1 <= Len(s) THEN Len(s) - (n + 1) + 1 ELSE 0
      /\ \A i \in 1 .. Len(s) - (n + 1) + 1 : From(s, n)[i] = s[n + 1 + i - 1]
  BY <1>1, SubSeqProperties DEF From
<1>3. ASSUME NEW i \in 1..Len(s) - n PROVE From(s, n)[i] = s[n + i]
  <2>1. i \in 1 .. Len(s) - (n + 1) + 1 /\ n + 1 + i - 1 = n + i
    BY <1>1
  <2> QED BY <1>2, <2>1
<1> QED BY <1>1, <1>2, <1>3

\* The first n elements.
LEMMA FirstIs ==
    ASSUME NEW S, NEW s \in Seq(S), NEW n \in 0..Len(s)
    PROVE  /\ SubSeq(s, 1, n) \in Seq(S) /\ Len(SubSeq(s, 1, n)) = n
           /\ \A i \in 1..n : SubSeq(s, 1, n)[i] = s[i]
<1>1. Len(s) \in Nat /\ \A i \in 1 .. n : s[i] \in S
  BY LenProperties, ElementOfSeq
<1>2. /\ SubSeq(s, 1, n) \in Seq(S)
      /\ Len(SubSeq(s, 1, n)) = IF 1 <= n THEN n - 1 + 1 ELSE 0
      /\ \A i \in 1 .. n - 1 + 1 : SubSeq(s, 1, n)[i] = s[1 + i - 1]
  BY <1>1, SubSeqProperties
<1>3. ASSUME NEW i \in 1..n PROVE SubSeq(s, 1, n)[i] = s[i]
  <2>1. i \in 1 .. n - 1 + 1 /\ 1 + i - 1 = i
    BY <1>1
  <2> QED BY <1>2, <2>1
<1> QED BY <1>1, <1>2, <1>3

\* The same of a sequence of its own name.
IsFirst(c, s, n) == Len(c) = n /\ \A i \in 1..n : c[i] = s[i]
IsLast(c, s, n) == Len(c) = Len(s) - n /\ \A i \in 1..Len(s) - n : c[i] = s[n + i]

LEMMA Parts ==
    ASSUME NEW S, NEW s \in Seq(S), NEW n \in 0..Len(s)
    PROVE  /\ \E c \in Seq(S) : c = SubSeq(s, 1, n) /\ IsFirst(c, s, n)
           /\ \E c \in Seq(S) : c = From(s, n) /\ IsLast(c, s, n)
<1>1. SubSeq(s, 1, n) \in Seq(S) /\ IsFirst(SubSeq(s, 1, n), s, n)
  BY FirstIs DEF IsFirst
<1>2. From(s, n) \in Seq(S) /\ IsLast(From(s, n), s, n)
  BY FromIs DEF IsLast
<1> QED BY ONLY <1>1, <1>2

\* Two sequences joined, element by element.
IsJoined(c, a, b) ==
    /\ Len(c) = Len(a) + Len(b)
    /\ \A i \in 1..Len(a) + Len(b) : c[i] = IF i <= Len(a) THEN a[i] ELSE b[i - Len(a)]

LEMMA Joined ==
    ASSUME NEW S, NEW a \in Seq(S), NEW b \in Seq(S)
    PROVE  \E c \in Seq(S) : c = a \o b /\ IsJoined(c, a, b)
<1>1. a \o b \in Seq(S) /\ IsJoined(a \o b, a, b)
  BY ConcatProperties DEF IsJoined
<1> QED BY ONLY <1>1

\* Both parts together are the whole.
LEMMA CutAndJoin ==
    ASSUME NEW S, NEW s \in Seq(S), NEW n \in 0..Len(s)
    PROVE  SubSeq(s, 1, n) \o From(s, n) = s
<1>1. PICK a \in Seq(S) : /\ a = SubSeq(s, 1, n) /\ Len(a) = n
                          /\ \A i \in 1..n : a[i] = s[i]
  <2>1. \E a \in Seq(S) : a = SubSeq(s, 1, n) /\ IsFirst(a, s, n)
    BY Parts
  <2> QED BY ONLY <2>1 DEF IsFirst
<1>2. PICK b \in Seq(S) : /\ b = From(s, n) /\ Len(b) = Len(s) - n
                          /\ \A i \in 1..Len(s) - n : b[i] = s[n + i]
  <2>1. \E b \in Seq(S) : b = From(s, n) /\ IsLast(b, s, n)
    BY Parts
  <2> QED BY ONLY <2>1 DEF IsLast
<1>3. Len(s) \in Nat
  BY LenProperties
<1>4. PICK c \in Seq(S) : /\ c = a \o b /\ Len(c) = Len(s)
                          /\ \A i \in 1..Len(s) : c[i] = IF i <= n THEN a[i] ELSE b[i - n]
  <2>1. Len(a) + Len(b) = Len(s) /\ Len(a) = n
    BY <1>1, <1>2, <1>3
  <2>2. \E c \in Seq(S) :
            /\ c = a \o b /\ Len(c) = Len(a) + Len(b)
            /\ \A i \in 1..Len(a) + Len(b) : c[i] = IF i <= Len(a) THEN a[i] ELSE b[i - Len(a)]
    <3>1. \E c \in Seq(S) : c = a \o b /\ IsJoined(c, a, b)
      BY ONLY Joined, a \in Seq(S), b \in Seq(S)
    <3> QED BY ONLY <3>1 DEF IsJoined
  <2> QED BY <2>1, <2>2
<1>5. ASSUME NEW i \in 1..Len(s) PROVE c[i] = s[i]
  <2>1. CASE i <= n
    BY <1>1, <1>3, <1>4, <2>1
  <2>2. CASE i > n
    <3>1. i - n \in 1..Len(s) - n /\ n + (i - n) = i
      BY <1>3, <2>2
    <3>2. b[i - n] = s[i]
      BY <1>2, <3>1
    <3> QED BY <1>4, <2>2, <3>2
  <2> QED BY <1>3, <2>1, <2>2
<1>6. c = s
  BY ONLY <1>4, <1>5, SeqEqual, s \in Seq(S)
<1> QED BY <1>1, <1>2, <1>4, <1>6

\* Cutting behind the first of two joined sequences gives them back.
LEMMA CutAtSeam ==
    ASSUME NEW S, NEW a \in Seq(S), NEW b \in Seq(S), NEW n \in 0..Len(b)
    PROVE  /\ Len(a) + n \in 0..Len(a \o b)
           /\ SubSeq(a \o b, 1, Len(a) + n) = a \o SubSeq(b, 1, n)
           /\ From(a \o b, Len(a) + n) = From(b, n)
<1>1. Len(a) \in Nat /\ Len(b) \in Nat
  BY LenProperties
<1>2. PICK c \in Seq(S) :
          /\ c = a \o b /\ Len(c) = Len(a) + Len(b)
          /\ \A i \in 1..Len(a) + Len(b) : c[i] = IF i <= Len(a) THEN a[i] ELSE b[i - Len(a)]
  <2>1. \E c \in Seq(S) : c = a \o b /\ IsJoined(c, a, b)
    BY Joined
  <2> QED BY ONLY <2>1 DEF IsJoined
<1>3. Len(a) + n \in 0..Len(c)
  BY <1>1, <1>2
<1>4. SubSeq(c, 1, Len(a) + n) = a \o SubSeq(b, 1, n)
  <2>1. PICK u \in Seq(S) : /\ u = SubSeq(c, 1, Len(a) + n) /\ Len(u) = Len(a) + n
                            /\ \A i \in 1..Len(a) + n : u[i] = c[i]
    <3>1. \E u \in Seq(S) : u = SubSeq(c, 1, Len(a) + n) /\ IsFirst(u, c, Len(a) + n)
      BY <1>3, Parts
    <3> QED BY ONLY <3>1 DEF IsFirst
  <2>2. PICK v \in Seq(S) : /\ v = SubSeq(b, 1, n) /\ Len(v) = n
                            /\ \A i \in 1..n : v[i] = b[i]
    <3>1. \E v \in Seq(S) : v = SubSeq(b, 1, n) /\ IsFirst(v, b, n)
      BY Parts
    <3> QED BY ONLY <3>1 DEF IsFirst
  <2>3. PICK w \in Seq(S) :
            /\ w = a \o v /\ Len(w) = Len(a) + n
            /\ \A i \in 1..Len(a) + n : w[i] = IF i <= Len(a) THEN a[i] ELSE v[i - Len(a)]
    <3>1. \E w \in Seq(S) :
              /\ w = a \o v /\ Len(w) = Len(a) + Len(v)
              /\ \A i \in 1..Len(a) + Len(v) : w[i] = IF i <= Len(a) THEN a[i] ELSE v[i - Len(a)]
      <4>1. \E w \in Seq(S) : w = a \o v /\ IsJoined(w, a, v)
        BY ONLY Joined, a \in Seq(S), v \in Seq(S)
      <4> QED BY ONLY <4>1 DEF IsJoined
    <3> QED BY <2>2, <3>1
  <2>4. ASSUME NEW i \in 1..Len(a) + n PROVE u[i] = w[i]
    <3>1. u[i] = IF i <= Len(a) THEN a[i] ELSE b[i - Len(a)]
      BY <1>1, <1>2, <2>1
    <3>2. i > Len(a) => v[i - Len(a)] = b[i - Len(a)]
      BY <1>1, <2>2
    <3> QED BY <1>1, <2>3, <3>1, <3>2
  <2>5. u = w
    BY ONLY <2>1, <2>3, <2>4, SeqEqual
  <2> QED BY <2>1, <2>2, <2>3, <2>5
<1>5. From(c, Len(a) + n) = From(b, n)
  <2>1. PICK u \in Seq(S) : /\ u = From(c, Len(a) + n) /\ Len(u) = Len(c) - (Len(a) + n)
                            /\ \A i \in 1..Len(c) - (Len(a) + n) : u[i] = c[Len(a) + n + i]
    <3>1. \E u \in Seq(S) : u = From(c, Len(a) + n) /\ IsLast(u, c, Len(a) + n)
      BY <1>3, Parts
    <3> QED BY ONLY <3>1 DEF IsLast
  <2>2. PICK v \in Seq(S) : /\ v = From(b, n) /\ Len(v) = Len(b) - n
                            /\ \A i \in 1..Len(b) - n : v[i] = b[n + i]
    <3>1. \E v \in Seq(S) : v = From(b, n) /\ IsLast(v, b, n)
      BY Parts
    <3> QED BY ONLY <3>1 DEF IsLast
  <2>3. Len(u) = Len(v)
    BY <1>1, <1>2, <2>1, <2>2
  <2>4. ASSUME NEW i \in 1..Len(u) PROVE u[i] = v[i]
    <3>1. /\ Len(a) + n + i \in 1..Len(a) + Len(b) /\ Len(a) + n + i > Len(a)
          /\ Len(a) + n + i - Len(a) = n + i
      BY <1>1, <1>2, <2>1
    <3>2. c[Len(a) + n + i] = b[n + i]
      BY <1>1, <1>2, <3>1
    <3> QED BY <2>1, <2>2, <2>3, <3>2
  <2> QED BY <2>1, <2>2, <2>3, <2>4, SeqEqual
<1> QED BY <1>2, <1>3, <1>4, <1>5

-----------------------------------------------------------------------------
(* Bits.                                                                   *)

Byte == 0..255

\* The upper binary digits of a byte, and the lower ones.
LEMMA UpperDigits ==
    ASSUME NEW a \in Byte
    PROVE  /\ a \div 64 = 2 * ((a \div 128) % 2) + ((a \div 64) % 2)
           /\ a \div 16 = 8 * ((a \div 128) % 2) + 4 * ((a \div 64) % 2) + 2 * ((a \div 32) % 2)
                               + ((a \div 16) % 2)
           /\ a \div 4 = 32 * ((a \div 128) % 2) + 16 * ((a \div 64) % 2) + 8 * ((a \div 32) % 2)
                              + 4 * ((a \div 16) % 2) + 2 * ((a \div 8) % 2) + ((a \div 4) % 2)
<1>1. a \in 0..255
  BY DEF Byte
<1>2. a \div 64 = 2 * ((a \div 128) % 2) + ((a \div 64) % 2)
  BY ONLY <1>1
<1>3. a \div 16 = 8 * ((a \div 128) % 2) + 4 * ((a \div 64) % 2) + 2 * ((a \div 32) % 2)
                      + ((a \div 16) % 2)
  BY ONLY <1>1
<1>4. a \div 4 = 32 * ((a \div 128) % 2) + 16 * ((a \div 64) % 2) + 8 * ((a \div 32) % 2)
                     + 4 * ((a \div 16) % 2) + 2 * ((a \div 8) % 2) + ((a \div 4) % 2)
  BY ONLY <1>1
<1> QED BY ONLY <1>2, <1>3, <1>4

LEMMA LowerDigits ==
    ASSUME NEW a \in Byte
    PROVE  /\ a % 4 = 2 * ((a \div 2) % 2) + ((a \div 1) % 2)
           /\ a % 16 = 8 * ((a \div 8) % 2) + 4 * ((a \div 4) % 2) + 2 * ((a \div 2) % 2) + ((a \div 1) % 2)
           /\ a % 64 = 32 * ((a \div 32) % 2) + 16 * ((a \div 16) % 2) + 8 * ((a \div 8) % 2)
                           + 4 * ((a \div 4) % 2) + 2 * ((a \div 2) % 2) + ((a \div 1) % 2)
<1>1. a \in 0..255
  BY DEF Byte
<1>2. a % 4 = 2 * ((a \div 2) % 2) + ((a \div 1) % 2)
  BY ONLY <1>1
<1>3. a % 16 = 8 * ((a \div 8) % 2) + 4 * ((a \div 4) % 2) + 2 * ((a \div 2) % 2) + ((a \div 1) % 2)
  BY ONLY <1>1
<1>4. a % 64 = 32 * ((a \div 32) % 2) + 16 * ((a \div 16) % 2) + 8 * ((a \div 8) % 2)
                   + 4 * ((a \div 4) % 2) + 2 * ((a \div 2) % 2) + ((a \div 1) % 2)
  BY ONLY <1>1
<1> QED BY ONLY <1>2, <1>3, <1>4

-----------------------------------------------------------------------------
(* Base64: groups of three bytes and the encoding bit by bit.              *)

\* The bits of a sextet lie within three bytes in a row; there are none
\* behind the last byte.
LEMMA BitsOfSextets ==
    ASSUME NEW bytes \in Seq(Byte), NEW g \in Nat
    PROVE  LET bit(n, p) == IF n > Len(bytes) THEN 0 ELSE (bytes[n] \div p) % 2
           IN /\ Sextet(bytes, 4 * g) =
                     32 * bit(3 * g + 1, 128) + 16 * bit(3 * g + 1, 64) + 8 * bit(3 * g + 1, 32)
                     + 4 * bit(3 * g + 1, 16) + 2 * bit(3 * g + 1, 8) + bit(3 * g + 1, 4)
              /\ Sextet(bytes, 4 * g + 1) =
                     32 * bit(3 * g + 1, 2) + 16 * bit(3 * g + 1, 1) + 8 * bit(3 * g + 2, 128)
                     + 4 * bit(3 * g + 2, 64) + 2 * bit(3 * g + 2, 32) + bit(3 * g + 2, 16)
              /\ Sextet(bytes, 4 * g + 2) =
                     32 * bit(3 * g + 2, 8) + 16 * bit(3 * g + 2, 4) + 8 * bit(3 * g + 2, 2)
                     + 4 * bit(3 * g + 2, 1) + 2 * bit(3 * g + 3, 128) + bit(3 * g + 3, 64)
              /\ Sextet(bytes, 4 * g + 3) =
                     32 * bit(3 * g + 3, 32) + 16 * bit(3 * g + 3, 16) + 8 * bit(3 * g + 3, 8)
                     + 4 * bit(3 * g + 3, 4) + 2 * bit(3 * g + 3, 2) + bit(3 * g + 3, 1)
<1> DEFINE bit(n, p) == IF n > Len(bytes) THEN 0 ELSE (bytes[n] \div p) % 2
<1>1. Len(bytes) \in Nat
  BY LenProperties
<1>2. ASSUME NEW k \in Nat, NEW m \in 0..2, NEW i \in 0..7, k = 24 * g + 8 * m + i
      PROVE  Bit(bytes, k) = bit(3 * g + m + 1, Place[i + 1])
  <2>1. k \div 8 = 3 * g + m /\ k % 8 = i
    BY <1>2
  <2>2. k >= 8 * Len(bytes) <=> 3 * g + m + 1 > Len(bytes)
    BY <1>1, <1>2
  <2> QED BY <2>1, <2>2 DEF Bit
<1>3. /\ Place[1] = 128 /\ Place[2] = 64 /\ Place[3] = 32 /\ Place[4] = 16
      /\ Place[5] = 8 /\ Place[6] = 4 /\ Place[7] = 2 /\ Place[8] = 1
  BY DEF Place
<1>4. ASSUME NEW m \in 0..2, NEW k \in Nat, k = 24 * g + 8 * m
      PROVE  /\ Bit(bytes, k) = bit(3 * g + m + 1, 128)
             /\ Bit(bytes, k + 1) = bit(3 * g + m + 1, 64)
             /\ Bit(bytes, k + 2) = bit(3 * g + m + 1, 32)
             /\ Bit(bytes, k + 3) = bit(3 * g + m + 1, 16)
             /\ Bit(bytes, k + 4) = bit(3 * g + m + 1, 8)
             /\ Bit(bytes, k + 5) = bit(3 * g + m + 1, 4)
             /\ Bit(bytes, k + 6) = bit(3 * g + m + 1, 2)
             /\ Bit(bytes, k + 7) = bit(3 * g + m + 1, 1)
  <2> HIDE DEF bit
  <2>1. \A i \in 0..7 : k + i \in Nat /\ k + i = 24 * g + 8 * m + i
    BY <1>4
  <2>2. \A i \in 0..7 : Bit(bytes, k + i) = bit(3 * g + m + 1, Place[i + 1])
    BY <1>2, <2>1
  <2>3. /\ Bit(bytes, k + 0) = bit(3 * g + m + 1, Place[0 + 1])
        /\ Bit(bytes, k + 1) = bit(3 * g + m + 1, Place[1 + 1])
        /\ Bit(bytes, k + 2) = bit(3 * g + m + 1, Place[2 + 1])
        /\ Bit(bytes, k + 3) = bit(3 * g + m + 1, Place[3 + 1])
        /\ Bit(bytes, k + 4) = bit(3 * g + m + 1, Place[4 + 1])
        /\ Bit(bytes, k + 5) = bit(3 * g + m + 1, Place[5 + 1])
        /\ Bit(bytes, k + 6) = bit(3 * g + m + 1, Place[6 + 1])
        /\ Bit(bytes, k + 7) = bit(3 * g + m + 1, Place[7 + 1])
    BY ONLY <2>2
  <2>4. /\ k + 0 = k /\ 0 + 1 = 1 /\ 1 + 1 = 2 /\ 2 + 1 = 3 /\ 3 + 1 = 4
        /\ 4 + 1 = 5 /\ 5 + 1 = 6 /\ 6 + 1 = 7 /\ 7 + 1 = 8
    BY ONLY k \in Nat
  <2>5. /\ Place[0 + 1] = 128 /\ Place[1 + 1] = 64 /\ Place[2 + 1] = 32 /\ Place[3 + 1] = 16
        /\ Place[4 + 1] = 8 /\ Place[5 + 1] = 4 /\ Place[6 + 1] = 2 /\ Place[7 + 1] = 1
    BY ONLY <1>3, <2>4
  <2>6. /\ Bit(bytes, k + 0) = bit(3 * g + m + 1, 128)
        /\ Bit(bytes, k + 1) = bit(3 * g + m + 1, 64)
        /\ Bit(bytes, k + 2) = bit(3 * g + m + 1, 32)
        /\ Bit(bytes, k + 3) = bit(3 * g + m + 1, 16)
    BY ONLY <2>3, <2>5
  <2>7. /\ Bit(bytes, k + 4) = bit(3 * g + m + 1, 8)
        /\ Bit(bytes, k + 5) = bit(3 * g + m + 1, 4)
        /\ Bit(bytes, k + 6) = bit(3 * g + m + 1, 2)
        /\ Bit(bytes, k + 7) = bit(3 * g + m + 1, 1)
    BY ONLY <2>3, <2>5
  <2> QED BY ONLY <2>4, <2>6, <2>7
<1> HIDE DEF bit
<1>5. /\ 24 * g \in Nat /\ 24 * g = 24 * g + 8 * 0 /\ 24 * g + 8 \in Nat /\ 24 * g + 8 = 24 * g + 8 * 1
      /\ 24 * g + 16 \in Nat /\ 24 * g + 16 = 24 * g + 8 * 2 /\ 3 * g + 0 + 1 = 3 * g + 1
      /\ 3 * g + 1 + 1 = 3 * g + 2 /\ 3 * g + 2 + 1 = 3 * g + 3
  OBVIOUS
<1>6. Sextet(bytes, 4 * g) =
          32 * bit(3 * g + 1, 128) + 16 * bit(3 * g + 1, 64) + 8 * bit(3 * g + 1, 32)
          + 4 * bit(3 * g + 1, 16) + 2 * bit(3 * g + 1, 8) + bit(3 * g + 1, 4)
  <2>1. /\ 6 * (4 * g) + 0 = 24 * g /\ 6 * (4 * g) + 1 = 24 * g + 1 /\ 6 * (4 * g) + 2 = 24 * g + 2
        /\ 6 * (4 * g) + 3 = 24 * g + 3 /\ 6 * (4 * g) + 4 = 24 * g + 4 /\ 6 * (4 * g) + 5 = 24 * g + 5
    OBVIOUS
  <2> QED BY <1>4, <1>5, <2>1 DEF Sextet
<1>7. Sextet(bytes, 4 * g + 1) =
          32 * bit(3 * g + 1, 2) + 16 * bit(3 * g + 1, 1) + 8 * bit(3 * g + 2, 128)
          + 4 * bit(3 * g + 2, 64) + 2 * bit(3 * g + 2, 32) + bit(3 * g + 2, 16)
  <2>1. /\ 6 * (4 * g + 1) + 0 = 24 * g + 6 /\ 6 * (4 * g + 1) + 1 = 24 * g + 7
        /\ 6 * (4 * g + 1) + 2 = 24 * g + 8 /\ 6 * (4 * g + 1) + 3 = 24 * g + 8 + 1
        /\ 6 * (4 * g + 1) + 4 = 24 * g + 8 + 2 /\ 6 * (4 * g + 1) + 5 = 24 * g + 8 + 3
    OBVIOUS
  <2> QED BY <1>4, <1>5, <2>1 DEF Sextet
<1>8. Sextet(bytes, 4 * g + 2) =
          32 * bit(3 * g + 2, 8) + 16 * bit(3 * g + 2, 4) + 8 * bit(3 * g + 2, 2)
          + 4 * bit(3 * g + 2, 1) + 2 * bit(3 * g + 3, 128) + bit(3 * g + 3, 64)
  <2>1. /\ 6 * (4 * g + 2) + 0 = 24 * g + 8 + 4 /\ 6 * (4 * g + 2) + 1 = 24 * g + 8 + 5
        /\ 6 * (4 * g + 2) + 2 = 24 * g + 8 + 6 /\ 6 * (4 * g + 2) + 3 = 24 * g + 8 + 7
        /\ 6 * (4 * g + 2) + 4 = 24 * g + 16 /\ 6 * (4 * g + 2) + 5 = 24 * g + 16 + 1
    OBVIOUS
  <2> QED BY <1>4, <1>5, <2>1 DEF Sextet
<1>9. Sextet(bytes, 4 * g + 3) =
          32 * bit(3 * g + 3, 32) + 16 * bit(3 * g + 3, 16) + 8 * bit(3 * g + 3, 8)
          + 4 * bit(3 * g + 3, 4) + 2 * bit(3 * g + 3, 2) + bit(3 * g + 3, 1)
  <2>1. /\ 6 * (4 * g + 3) + 0 = 24 * g + 16 + 2 /\ 6 * (4 * g + 3) + 1 = 24 * g + 16 + 3
        /\ 6 * (4 * g + 3) + 2 = 24 * g + 16 + 4 /\ 6 * (4 * g + 3) + 3 = 24 * g + 16 + 5
        /\ 6 * (4 * g + 3) + 4 = 24 * g + 16 + 6 /\ 6 * (4 * g + 3) + 5 = 24 * g + 16 + 7
    OBVIOUS
  <2> QED BY <1>4, <1>5, <2>1 DEF Sextet
<1> QED BY <1>6, <1>7, <1>8, <1>9 DEF bit

\* The four sums of six bits.
LEMMA SumsOfBits ==
    ASSUME NEW a \in Byte, NEW b \in Byte, NEW c \in Byte
    PROVE  /\ 32 * ((a \div 128) % 2) + 16 * ((a \div 64) % 2) + 8 * ((a \div 32) % 2)
                 + 4 * ((a \div 16) % 2) + 2 * ((a \div 8) % 2) + ((a \div 4) % 2) = a \div 4
           /\ 32 * ((a \div 2) % 2) + 16 * ((a \div 1) % 2) + 8 * ((b \div 128) % 2)
                 + 4 * ((b \div 64) % 2) + 2 * ((b \div 32) % 2) + ((b \div 16) % 2)
                 = (a % 4) * 16 + b \div 16
           /\ 32 * ((b \div 8) % 2) + 16 * ((b \div 4) % 2) + 8 * ((b \div 2) % 2)
                 + 4 * ((b \div 1) % 2) + 2 * ((c \div 128) % 2) + ((c \div 64) % 2)
                 = (b % 16) * 4 + c \div 64
           /\ 32 * ((c \div 32) % 2) + 16 * ((c \div 16) % 2) + 8 * ((c \div 8) % 2)
                 + 4 * ((c \div 4) % 2) + 2 * ((c \div 2) % 2) + ((c \div 1) % 2) = c % 64
           /\ 32 * ((a \div 2) % 2) + 16 * ((a \div 1) % 2) + 8 * 0 + 4 * 0 + 2 * 0 + 0 = (a % 4) * 16
           /\ 32 * ((b \div 8) % 2) + 16 * ((b \div 4) % 2) + 8 * ((b \div 2) % 2)
                 + 4 * ((b \div 1) % 2) + 2 * 0 + 0 = (b % 16) * 4
<1>1. a \in 0..255 /\ b \in 0..255 /\ c \in 0..255
  BY DEF Byte
<1>2. /\ a % 4 = 2 * ((a \div 2) % 2) + ((a \div 1) % 2)
      /\ b % 16 = 8 * ((b \div 8) % 2) + 4 * ((b \div 4) % 2) + 2 * ((b \div 2) % 2) + ((b \div 1) % 2)
      /\ b \div 16 = 8 * ((b \div 128) % 2) + 4 * ((b \div 64) % 2) + 2 * ((b \div 32) % 2)
                          + ((b \div 16) % 2)
      /\ c \div 64 = 2 * ((c \div 128) % 2) + ((c \div 64) % 2)
  BY LowerDigits, UpperDigits
<1>3. /\ 32 * ((a \div 2) % 2) + 16 * ((a \div 1) % 2) = (a % 4) * 16
      /\ 32 * ((b \div 8) % 2) + 16 * ((b \div 4) % 2) + 8 * ((b \div 2) % 2)
                 + 4 * ((b \div 1) % 2) = (b % 16) * 4
  BY ONLY <1>1, <1>2
<1> QED BY UpperDigits, LowerDigits, <1>1, <1>2, <1>3

\* A group of three bytes is written as their bits.
LEMMA SextetsOfGroup ==
    ASSUME NEW bytes \in Seq(Byte), NEW g \in Nat, 3 * g + 3 <= Len(bytes), NEW j \in 0..3
    PROVE  Sextet(bytes, 4 * g + j)
               = FourChars(bytes[3 * g + 1], bytes[3 * g + 2], bytes[3 * g + 3])[j + 1]
<1>1. PICK a \in Byte, b \in Byte, c \in Byte :
          a = bytes[3 * g + 1] /\ b = bytes[3 * g + 2] /\ c = bytes[3 * g + 3]
  <2>1. /\ 3 * g + 1 \in 1..Len(bytes) /\ 3 * g + 2 \in 1..Len(bytes) /\ 3 * g + 3 \in 1..Len(bytes)
    BY LenProperties
  <2> QED BY <2>1, ElementOfSeq
<1>2. /\ ~ 3 * g + 1 > Len(bytes) /\ ~ 3 * g + 2 > Len(bytes) /\ ~ 3 * g + 3 > Len(bytes)
  BY LenProperties
<1>3. /\ a \div 4 \in Nat /\ a % 4 \in Nat /\ b \div 16 \in Nat /\ b % 16 \in Nat
      /\ c \div 64 \in Nat /\ c % 64 \in Nat
  BY DEF Byte
<1>4. Sextet(bytes, 4 * g) = a \div 4
  BY ONLY <1>1, <1>2, BitsOfSextets, UpperDigits, bytes \in Seq(Byte), g \in Nat
<1>5. Sextet(bytes, 4 * g + 1) = (a % 4) * 16 + b \div 16
  <2>1. Sextet(bytes, 4 * g + 1) =
            32 * ((a \div 2) % 2) + 16 * ((a \div 1) % 2) + 8 * ((b \div 128) % 2)
            + 4 * ((b \div 64) % 2) + 2 * ((b \div 32) % 2) + ((b \div 16) % 2)
    BY ONLY <1>1, <1>2, BitsOfSextets, bytes \in Seq(Byte), g \in Nat
  <2> QED BY ONLY <2>1, SumsOfBits, a \in Byte, b \in Byte
<1>6. Sextet(bytes, 4 * g + 2) = (b % 16) * 4 + c \div 64
  <2>1. Sextet(bytes, 4 * g + 2) =
            32 * ((b \div 8) % 2) + 16 * ((b \div 4) % 2) + 8 * ((b \div 2) % 2)
            + 4 * ((b \div 1) % 2) + 2 * ((c \div 128) % 2) + ((c \div 64) % 2)
    BY ONLY <1>1, <1>2, BitsOfSextets, bytes \in Seq(Byte), g \in Nat
  <2> QED BY ONLY <2>1, SumsOfBits, b \in Byte, c \in Byte
<1>7. Sextet(bytes, 4 * g + 3) = c % 64
  BY ONLY <1>1, <1>2, BitsOfSextets, LowerDigits, bytes \in Seq(Byte), g \in Nat
<1>8. /\ FourChars(a, b, c)[1] = a \div 4 /\ FourChars(a, b, c)[2] = (a % 4) * 16 + b \div 16
      /\ FourChars(a, b, c)[3] = (b % 16) * 4 + c \div 64 /\ FourChars(a, b, c)[4] = c % 64
  BY DEF FourChars
<1>9. /\ j = 0 => Sextet(bytes, 4 * g + j) = FourChars(a, b, c)[1]
      /\ j = 1 => Sextet(bytes, 4 * g + j) = FourChars(a, b, c)[2]
      /\ j = 2 => Sextet(bytes, 4 * g + j) = FourChars(a, b, c)[3]
      /\ j = 3 => Sextet(bytes, 4 * g + j) = FourChars(a, b, c)[4]
  <2>1. 4 * g + 0 = 4 * g
    OBVIOUS
  <2> QED BY ONLY <1>4, <1>5, <1>6, <1>7, <1>8, <2>1
<1> QED BY <1>1, <1>9

\* One byte left over makes two sextets, two make three; missing bits are 0.
LEMMA SextetsOfRest ==
    ASSUME NEW bytes \in Seq(Byte), NEW g \in Nat
    PROVE  /\ Len(bytes) = 3 * g + 1 =>
                  /\ Sextet(bytes, 4 * g) = bytes[3 * g + 1] \div 4
                  /\ Sextet(bytes, 4 * g + 1) = (bytes[3 * g + 1] % 4) * 16
           /\ Len(bytes) = 3 * g + 2 =>
                  /\ Sextet(bytes, 4 * g) = bytes[3 * g + 1] \div 4
                  /\ Sextet(bytes, 4 * g + 1) = (bytes[3 * g + 1] % 4) * 16 + bytes[3 * g + 2] \div 16
                  /\ Sextet(bytes, 4 * g + 2) = (bytes[3 * g + 2] % 16) * 4
<1>1. CASE Len(bytes) = 3 * g + 1
  <2>1. PICK a \in Byte : a = bytes[3 * g + 1]
    <3>1. 3 * g + 1 \in 1..Len(bytes)
      BY <1>1
    <3> QED BY <3>1, ElementOfSeq
  <2>2. ~ 3 * g + 1 > Len(bytes) /\ 3 * g + 2 > Len(bytes)
    BY <1>1
  <2>3. /\ Sextet(bytes, 4 * g) =
                32 * ((a \div 128) % 2) + 16 * ((a \div 64) % 2) + 8 * ((a \div 32) % 2)
                + 4 * ((a \div 16) % 2) + 2 * ((a \div 8) % 2) + ((a \div 4) % 2)
        /\ Sextet(bytes, 4 * g + 1) =
                32 * ((a \div 2) % 2) + 16 * ((a \div 1) % 2) + 8 * 0 + 4 * 0 + 2 * 0 + 0
    BY ONLY <2>1, <2>2, BitsOfSextets, bytes \in Seq(Byte), g \in Nat
  <2>4. Sextet(bytes, 4 * g) = a \div 4 /\ Sextet(bytes, 4 * g + 1) = (a % 4) * 16
    BY ONLY <2>3, SumsOfBits, a \in Byte
  <2>5. Len(bytes) # 3 * g + 2
    BY <1>1
  <2> QED BY ONLY <2>1, <2>4, <2>5
<1>2. CASE Len(bytes) = 3 * g + 2
  <2>1. PICK a \in Byte, b \in Byte : a = bytes[3 * g + 1] /\ b = bytes[3 * g + 2]
    <3>1. 3 * g + 1 \in 1..Len(bytes) /\ 3 * g + 2 \in 1..Len(bytes)
      BY <1>2
    <3> QED BY <3>1, ElementOfSeq
  <2>2. ~ 3 * g + 1 > Len(bytes) /\ ~ 3 * g + 2 > Len(bytes) /\ 3 * g + 3 > Len(bytes)
    BY <1>2
  <2>3. /\ Sextet(bytes, 4 * g) =
                32 * ((a \div 128) % 2) + 16 * ((a \div 64) % 2) + 8 * ((a \div 32) % 2)
                + 4 * ((a \div 16) % 2) + 2 * ((a \div 8) % 2) + ((a \div 4) % 2)
        /\ Sextet(bytes, 4 * g + 1) =
                32 * ((a \div 2) % 2) + 16 * ((a \div 1) % 2) + 8 * ((b \div 128) % 2)
                + 4 * ((b \div 64) % 2) + 2 * ((b \div 32) % 2) + ((b \div 16) % 2)
        /\ Sextet(bytes, 4 * g + 2) =
                32 * ((b \div 8) % 2) + 16 * ((b \div 4) % 2) + 8 * ((b \div 2) % 2)
                + 4 * ((b \div 1) % 2) + 2 * 0 + 0
    BY ONLY <2>1, <2>2, BitsOfSextets, bytes \in Seq(Byte), g \in Nat
  <2>4. /\ Sextet(bytes, 4 * g) = a \div 4
        /\ Sextet(bytes, 4 * g + 1) = (a % 4) * 16 + b \div 16
        /\ Sextet(bytes, 4 * g + 2) = (b % 16) * 4
    BY ONLY <2>3, SumsOfBits, a \in Byte, b \in Byte
  <2>5. Len(bytes) # 3 * g + 1
    BY <1>2
  <2> QED BY ONLY <2>1, <2>4, <2>5
<1> QED BY <1>1, <1>2

\* A sequence of characters, by their indices; the pad has the last one.
Chars == Seq(0..64)

LEMMA FourCharsIs ==
    ASSUME NEW a \in Byte, NEW b \in Byte, NEW c \in Byte
    PROVE  /\ FourChars(a, b, c) \in Chars /\ Len(FourChars(a, b, c)) = 4
           /\ FourChars(a, b, c)[1] = a \div 4 /\ FourChars(a, b, c)[2] = (a % 4) * 16 + b \div 16
           /\ FourChars(a, b, c)[3] = (b % 16) * 4 + c \div 64 /\ FourChars(a, b, c)[4] = c % 64
<1>1. /\ a \div 4 \in 0..64 /\ (a % 4) * 16 + b \div 16 \in 0..64
      /\ (b % 16) * 4 + c \div 64 \in 0..64 /\ c % 64 \in 0..64
  BY DEF Byte
<1> QED BY <1>1 DEF FourChars, Chars

\* The characters of n groups, each by its group and its place there.
LEMMA GroupsIs ==
    ASSUME NEW bytes \in Seq(Byte), NEW n \in Nat, 3 * n <= Len(bytes)
    PROVE  /\ Groups(bytes, n) \in Chars /\ Len(Groups(bytes, n)) = 4 * n
           /\ \A g \in Nat, j \in 0..3 :
                  g < n => Groups(bytes, n)[4 * g + j + 1] =
                               FourChars(bytes[3 * g + 1], bytes[3 * g + 2], bytes[3 * g + 3])[j + 1]
<1>1. ASSUME NEW g \in Nat, g < n, NEW j \in 0..3
      PROVE  /\ 4 * g + j + 1 \in 1 .. 4 * n
             /\ (4 * g + j + 1 - 1) \div 4 = g /\ (4 * g + j + 1 - 1) % 4 = j
  BY <1>1
<1>2. ASSUME NEW g \in Nat, g < n, NEW j \in 0..3
      PROVE  FourChars(bytes[3 * g + 1], bytes[3 * g + 2], bytes[3 * g + 3])[j + 1] \in 0..64
  <2>1. /\ 3 * g + 1 \in 1..Len(bytes) /\ 3 * g + 2 \in 1..Len(bytes) /\ 3 * g + 3 \in 1..Len(bytes)
    BY <1>2, LenProperties
  <2>2. bytes[3 * g + 1] \in Byte /\ bytes[3 * g + 2] \in Byte /\ bytes[3 * g + 3] \in Byte
    BY <2>1, ElementOfSeq
  <2>3. PICK four \in Chars :
            /\ four = FourChars(bytes[3 * g + 1], bytes[3 * g + 2], bytes[3 * g + 3])
            /\ Len(four) = 4
    BY <2>2, FourCharsIs
  <2>4. j + 1 \in 1..Len(four)
    BY <2>3
  <2>5. four[j + 1] \in 0..64
    BY ONLY <2>3, <2>4, ElementOfSeq DEF Chars
  <2> QED BY <2>3, <2>5
<1>3. ASSUME NEW i \in 1 .. 4 * n
      PROVE  /\ (i - 1) \div 4 \in Nat /\ (i - 1) \div 4 < n /\ (i - 1) % 4 \in 0..3
  BY <1>3
<1>4. Groups(bytes, n) \in [1 .. 4 * n -> 0..64]
  <2>1. \A i \in 1 .. 4 * n :
            FourChars(bytes[3 * ((i - 1) \div 4) + 1], bytes[3 * ((i - 1) \div 4) + 2],
                      bytes[3 * ((i - 1) \div 4) + 3])[((i - 1) % 4) + 1] \in 0..64
    BY <1>2, <1>3
  <2> QED BY <2>1 DEF Groups
<1>5. Groups(bytes, n) \in Chars /\ Len(Groups(bytes, n)) = 4 * n
  <2>1. PICK k \in Nat : k = 4 * n
    OBVIOUS
  <2>2. PICK f \in [1..k -> 0..64] : f = Groups(bytes, n)
    BY ONLY <1>4, <2>1
  <2>3. f \in Seq(0..64) /\ Len(f) = k
    BY ONLY SequenceOf, k \in Nat, f \in [1..k -> 0..64]
  <2> QED BY ONLY <2>1, <2>2, <2>3 DEF Chars
<1>6. ASSUME NEW g \in Nat, g < n, NEW j \in 0..3
      PROVE  Groups(bytes, n)[4 * g + j + 1] =
                 FourChars(bytes[3 * g + 1], bytes[3 * g + 2], bytes[3 * g + 3])[j + 1]
  <2>1. PICK i \in 1 .. 4 * n : i = 4 * g + j + 1 /\ (i - 1) \div 4 = g /\ (i - 1) % 4 = j
    BY <1>1, <1>6
  <2> QED BY ONLY <2>1 DEF Groups
<1> QED BY ONLY <1>5, <1>6

\* Only the bytes of its groups matter.
LEMMA GroupsOfFirst ==
    ASSUME NEW a \in Seq(Byte), NEW b \in Seq(Byte), NEW n \in Nat,
           3 * n <= Len(a), 3 * n <= Len(b), \A i \in 1 .. 3 * n : a[i] = b[i]
    PROVE  Groups(a, n) = Groups(b, n)
<1>1. ASSUME NEW i \in 1 .. 4 * n
      PROVE  /\ a[3 * ((i - 1) \div 4) + 1] = b[3 * ((i - 1) \div 4) + 1]
             /\ a[3 * ((i - 1) \div 4) + 2] = b[3 * ((i - 1) \div 4) + 2]
             /\ a[3 * ((i - 1) \div 4) + 3] = b[3 * ((i - 1) \div 4) + 3]
  <2>1. /\ 3 * ((i - 1) \div 4) + 1 \in 1 .. 3 * n /\ 3 * ((i - 1) \div 4) + 2 \in 1 .. 3 * n
        /\ 3 * ((i - 1) \div 4) + 3 \in 1 .. 3 * n
    BY <1>1
  <2> QED BY <2>1
<1> QED BY <1>1 DEF Groups

\* Whole groups, whatever follows, and then the groups of what follows.
LEMMA GroupsOfJoined ==
    ASSUME NEW a \in Seq(Byte), NEW b \in Seq(Byte), NEW n \in Nat, NEW m \in Nat,
           Len(a) = 3 * n, 3 * m <= Len(b)
    PROVE  Groups(a \o b, n + m) = Groups(a, n) \o Groups(b, m)
<1>1. PICK c \in Seq(Byte) :
          /\ c = a \o b /\ Len(c) = Len(a) + Len(b)
          /\ \A i \in 1..Len(a) + Len(b) : c[i] = IF i <= Len(a) THEN a[i] ELSE b[i - Len(a)]
  <2>1. \E c \in Seq(Byte) : c = a \o b /\ IsJoined(c, a, b)
    BY ONLY Joined, a \in Seq(Byte), b \in Seq(Byte)
  <2> QED BY ONLY <2>1 DEF IsJoined
<1>2. Len(a) \in Nat /\ Len(b) \in Nat
  BY LenProperties
<1>3. n + m \in Nat /\ 3 * (n + m) <= Len(c) /\ 3 * n <= Len(a)
  BY <1>1, <1>2
<1> DEFINE AreGroups(u, d, l) ==
               /\ Len(u) = 4 * l
               /\ \A g \in Nat, j \in 0..3 :
                      g < l => u[4 * g + j + 1] =
                          FourChars(d[3 * g + 1], d[3 * g + 2], d[3 * g + 3])[j + 1]
<1>a. ASSUME NEW d \in Seq(Byte), NEW l \in Nat, 3 * l <= Len(d)
      PROVE  Groups(d, l) \in Chars /\ AreGroups(Groups(d, l), d, l)
  BY ONLY <1>a, GroupsIs, d \in Seq(Byte), l \in Nat
<1> HIDE DEF AreGroups
<1>4. PICK u \in Chars : /\ u = Groups(c, n + m) /\ Len(u) = 4 * (n + m)
                         /\ \A g \in Nat, j \in 0..3 :
                               g < n + m => u[4 * g + j + 1] =
                                   FourChars(c[3 * g + 1], c[3 * g + 2], c[3 * g + 3])[j + 1]
  <2>1. \E u \in Chars : u = Groups(c, n + m) /\ AreGroups(u, c, n + m)
    BY ONLY <1>a, <1>3, c \in Seq(Byte)
  <2> QED BY ONLY <2>1 DEF AreGroups
<1>5. PICK v \in Chars : /\ v = Groups(a, n) /\ Len(v) = 4 * n
                         /\ \A g \in Nat, j \in 0..3 :
                               g < n => v[4 * g + j + 1] =
                                   FourChars(a[3 * g + 1], a[3 * g + 2], a[3 * g + 3])[j + 1]
  <2>1. \E v \in Chars : v = Groups(a, n) /\ AreGroups(v, a, n)
    BY ONLY <1>a, <1>3, a \in Seq(Byte), n \in Nat
  <2> QED BY ONLY <2>1 DEF AreGroups
<1>w. 3 * m <= Len(b)
  OBVIOUS
<1>6. PICK w \in Chars : /\ w = Groups(b, m) /\ Len(w) = 4 * m
                         /\ \A g \in Nat, j \in 0..3 :
                               g < m => w[4 * g + j + 1] =
                                   FourChars(b[3 * g + 1], b[3 * g + 2], b[3 * g + 3])[j + 1]
  <2>1. \E w \in Chars : w = Groups(b, m) /\ AreGroups(w, b, m)
    BY ONLY <1>a, <1>w, b \in Seq(Byte), m \in Nat
  <2> QED BY ONLY <2>1 DEF AreGroups
<1>7. PICK x \in Chars :
          /\ x = v \o w /\ Len(x) = Len(v) + Len(w)
          /\ \A i \in 1..Len(v) + Len(w) : x[i] = IF i <= Len(v) THEN v[i] ELSE w[i - Len(v)]
  <2>1. v \in Seq(0..64) /\ w \in Seq(0..64)
    BY <1>5, <1>6 DEF Chars
  <2>2. \E x \in Seq(0..64) :
            /\ x = v \o w /\ Len(x) = Len(v) + Len(w)
            /\ \A i \in 1..Len(v) + Len(w) : x[i] = IF i <= Len(v) THEN v[i] ELSE w[i - Len(v)]
    <3>1. \E x \in Seq(0..64) : x = v \o w /\ IsJoined(x, v, w)
      BY ONLY <2>1, Joined
    <3> QED BY ONLY <3>1 DEF IsJoined
  <2> QED BY ONLY <2>2 DEF Chars
<1>8. ASSUME NEW i \in 1 .. 4 * (n + m) PROVE u[i] = x[i]
  <2>1. PICK g \in Nat, j \in 0..3 : i = 4 * g + j + 1 /\ g < n + m
    <3>1. /\ (i - 1) \div 4 \in Nat /\ (i - 1) % 4 \in 0..3 /\ (i - 1) \div 4 < n + m
          /\ i = 4 * ((i - 1) \div 4) + ((i - 1) % 4) + 1
      OBVIOUS
    <3> QED BY <3>1
  <2>2. u[i] = FourChars(c[3 * g + 1], c[3 * g + 2], c[3 * g + 3])[j + 1]
    BY <1>4, <2>1
  <2>3. CASE g < n
    <3>1. i <= Len(v) /\ i \in 1..Len(v) + Len(w)
      BY <1>5, <1>6, <2>1, <2>3
    <3>2. x[i] = v[i] /\ v[i] = FourChars(a[3 * g + 1], a[3 * g + 2], a[3 * g + 3])[j + 1]
      BY <1>5, <1>7, <2>1, <2>3, <3>1
    <3>3. c[3 * g + 1] = a[3 * g + 1] /\ c[3 * g + 2] = a[3 * g + 2] /\ c[3 * g + 3] = a[3 * g + 3]
      <4>1. /\ 3 * g + 1 \in 1..Len(a) + Len(b) /\ 3 * g + 2 \in 1..Len(a) + Len(b)
            /\ 3 * g + 3 \in 1..Len(a) + Len(b)
            /\ 3 * g + 1 <= Len(a) /\ 3 * g + 2 <= Len(a) /\ 3 * g + 3 <= Len(a)
        BY <1>2, <2>3
      <4> QED BY ONLY <1>1, <4>1
    <3> QED BY <2>2, <3>2, <3>3
  <2>4. CASE g >= n
    <3>1. PICK h \in Nat : h = g - n
      BY <2>4
    <3>2. h < m /\ ~ i <= Len(v) /\ i \in 1..Len(v) + Len(w) /\ i - Len(v) = 4 * h + j + 1
      BY <1>5, <1>6, <2>1, <2>4, <3>1
    <3>3. x[i] = w[i - Len(v)]
      BY <1>7, <3>2
    <3>4. w[i - Len(v)] = FourChars(b[3 * h + 1], b[3 * h + 2], b[3 * h + 3])[j + 1]
      BY <1>6, <3>2
    <3>5. c[3 * g + 1] = b[3 * h + 1] /\ c[3 * g + 2] = b[3 * h + 2] /\ c[3 * g + 3] = b[3 * h + 3]
      <4>1. /\ 3 * g + 1 \in 1..Len(a) + Len(b) /\ 3 * g + 2 \in 1..Len(a) + Len(b)
            /\ 3 * g + 3 \in 1..Len(a) + Len(b)
            /\ ~ 3 * g + 1 <= Len(a) /\ ~ 3 * g + 2 <= Len(a) /\ ~ 3 * g + 3 <= Len(a)
            /\ 3 * g + 1 - Len(a) = 3 * h + 1 /\ 3 * g + 2 - Len(a) = 3 * h + 2
            /\ 3 * g + 3 - Len(a) = 3 * h + 3
        BY <1>2, <2>1, <2>4, <3>1
      <4> QED BY <1>1, <4>1
    <3> QED BY <2>2, <3>3, <3>4, <3>5
  <2> QED BY <2>1, <2>3, <2>4
<1>9. u = x
  <2>1. Len(u) = 4 * (n + m) /\ Len(x) = 4 * (n + m)
    BY <1>4, <1>5, <1>6, <1>7
  <2>2. Len(u) = Len(x) /\ \A i \in 1..Len(u) : u[i] = x[i]
    BY ONLY <2>1, <1>8
  <2> QED BY ONLY <1>4, <1>7, <2>2, SeqEqual DEF Chars
<1> QED BY <1>1, <1>4, <1>5, <1>6, <1>7, <1>9

\* Whole groups are encoded as the reference says.
LEMMA EncodingOfGroups ==
    ASSUME NEW bytes \in Seq(Byte), NEW n \in Nat, Len(bytes) = 3 * n
    PROVE  Encoding(bytes) = Groups(bytes, n)
<1>1. /\ (8 * Len(bytes) + 5) \div 6 = 4 * n /\ 4 * ((Len(bytes) + 2) \div 3) = 4 * n
      /\ 3 * n <= Len(bytes)
  OBVIOUS
<1>2. ASSUME NEW i \in 1 .. 4 * n
      PROVE  Sextet(bytes, i - 1) =
                 FourChars(bytes[3 * ((i - 1) \div 4) + 1], bytes[3 * ((i - 1) \div 4) + 2],
                           bytes[3 * ((i - 1) \div 4) + 3])[((i - 1) % 4) + 1]
  <2>1. PICK g \in Nat, j \in 0..3 : g = (i - 1) \div 4 /\ j = (i - 1) % 4
    OBVIOUS
  <2>2. i - 1 = 4 * g + j /\ 3 * g + 3 <= Len(bytes)
    BY <2>1
  <2> QED BY <2>1, <2>2, SextetsOfGroup
<1> QED BY <1>1, <1>2 DEF Encoding, Groups

\* A sequence that begins like another one and goes on like a third.
GoesOn(q, f, n, t) ==
    /\ Len(q) = n + Len(t) /\ \A i \in 1..n : q[i] = f[i]
    /\ \A i \in 1..Len(t) : q[n + i] = t[i]

LEMMA FirstAndThen ==
    ASSUME NEW S, NEW f \in Seq(S), NEW t \in Seq(S), NEW q \in Seq(S), NEW n \in 0..Len(f),
           GoesOn(q, f, n, t)
    PROVE  SubSeq(f, 1, n) \o t = q
<1>0. /\ Len(q) = n + Len(t) /\ \A i \in 1..n : q[i] = f[i]
      /\ \A i \in 1..Len(t) : q[n + i] = t[i]
  BY DEF GoesOn
<1>1. PICK h \in Seq(S) : h = SubSeq(f, 1, n) /\ Len(h) = n /\ \A i \in 1..n : h[i] = f[i]
  <2>1. \E h \in Seq(S) : h = SubSeq(f, 1, n) /\ IsFirst(h, f, n)
    BY ONLY Parts, f \in Seq(S), n \in 0..Len(f)
  <2> QED BY ONLY <2>1 DEF IsFirst
<1>2. PICK p \in Seq(S) :
          /\ p = h \o t /\ Len(p) = Len(h) + Len(t)
          /\ \A i \in 1..Len(h) + Len(t) : p[i] = IF i <= Len(h) THEN h[i] ELSE t[i - Len(h)]
  <2>1. \E p \in Seq(S) : p = h \o t /\ IsJoined(p, h, t)
    BY ONLY Joined, h \in Seq(S), t \in Seq(S)
  <2> QED BY ONLY <2>1 DEF IsJoined
<1>3. Len(t) \in Nat /\ n \in Nat
  BY LenProperties
<1>4. ASSUME NEW i \in 1..Len(p) PROVE p[i] = q[i]
  <2>1. CASE i <= n
    BY <1>0, <1>1, <1>2, <1>3, <2>1
  <2>2. CASE i > n
    <3>1. i - n \in 1..Len(t) /\ n + (i - n) = i /\ p[i] = t[i - n]
      BY <1>0, <1>1, <1>2, <1>3, <2>2
    <3>2. q[n + (i - n)] = t[i - n]
      BY <1>0, <3>1
    <3> QED BY ONLY <3>1, <3>2
  <2> QED BY <1>0, <1>1, <1>2, <1>3, <2>1, <2>2
<1>5. Len(p) = Len(q)
  BY <1>0, <1>1, <1>2
<1> QED BY ONLY <1>1, <1>2, <1>4, <1>5, SeqEqual, q \in Seq(S)

\* The first two of four, or three, and padding behind them.
LEMMA FirstOfFour ==
    ASSUME NEW a \in Nat, NEW b \in Nat, NEW c \in Nat, NEW d \in Nat
    PROVE  /\ SubSeq(<<a, b, c, d>>, 1, 2) \o <<Pad, Pad>> = <<a, b, Pad, Pad>>
           /\ SubSeq(<<a, b, c, d>>, 1, 3) \o <<Pad>> = <<a, b, c, Pad>>
<1>0. PICK x \in Nat, y \in Nat : x = Pad /\ y = Pad
  BY DEF Pad
<1> DEFINE f == <<a, b, c, d>>
           q == <<a, b, x, y>>
           r == <<a, b, c, x>>
           t == <<x, y>>
           u == <<x>>
<1>1. /\ f \in Seq(Nat) /\ Len(f) = 4 /\ f[1] = a /\ f[2] = b /\ f[3] = c
      /\ q \in Seq(Nat) /\ Len(q) = 4 /\ q[1] = a /\ q[2] = b /\ q[3] = x /\ q[4] = y
      /\ r \in Seq(Nat) /\ Len(r) = 4 /\ r[1] = a /\ r[2] = b /\ r[3] = c /\ r[4] = x
      /\ t \in Seq(Nat) /\ Len(t) = 2 /\ t[1] = x /\ t[2] = y
      /\ u \in Seq(Nat) /\ Len(u) = 1 /\ u[1] = x
  OBVIOUS
<1> HIDE DEF f, q, r, t, u
<1>2. 2 \in 0..Len(f) /\ GoesOn(q, f, 2, t)
  BY ONLY <1>1 DEF GoesOn
<1>3. 3 \in 0..Len(f) /\ GoesOn(r, f, 3, u)
  BY ONLY <1>1 DEF GoesOn
<1>4. SubSeq(f, 1, 2) \o t = q
  <2>1. f \in Seq(Nat) /\ t \in Seq(Nat) /\ q \in Seq(Nat)
    BY ONLY <1>1
  <2> QED BY ONLY <1>2, <2>1, FirstAndThen
<1>5. SubSeq(f, 1, 3) \o u = r
  <2>1. f \in Seq(Nat) /\ u \in Seq(Nat) /\ r \in Seq(Nat)
    BY ONLY <1>1
  <2> QED BY ONLY <1>3, <2>1, FirstAndThen
<1> QED BY <1>0, <1>4, <1>5 DEF f, q, r, t, u

\* The last characters of one byte, or of two.
LEMMA PaddedIs ==
    ASSUME NEW s \in Seq(Byte), NEW n \in {1, 2}, Len(s) = n
    PROVE  Padded(s) = IF n = 1
                       THEN <<s[1] \div 4, (s[1] % 4) * 16, Pad, Pad>>
                       ELSE <<s[1] \div 4, (s[1] % 4) * 16 + s[2] \div 16, (s[2] % 16) * 4, Pad>>
<1>1. PICK a \in 0..255 : a = s[1]
  <2>1. 1 \in 1..Len(s)
    OBVIOUS
  <2> QED BY <2>1, ElementOfSeq DEF Byte
<1>2. CASE n = 1
  <2>1. PICK q \in Nat, r \in Nat : q = a \div 4 /\ r = (a % 4) * 16
    OBVIOUS
  <2>2. 0 \div 16 = 0 /\ (0 % 16) * 4 = 0 /\ 0 \div 64 = 0 /\ 0 % 64 = 0
    OBVIOUS
  <2>3. FourChars(a, 0, 0) = <<q, r, 0, 0>>
    <3>1. (a % 4) * 16 + 0 \div 16 = r /\ (0 % 16) * 4 + 0 \div 64 = 0
      BY <2>1, <2>2
    <3> QED BY ONLY <2>1, <2>2, <3>1 DEF FourChars
  <2>4. SubSeq(<<q, r, 0, 0>>, 1, 2) \o <<Pad, Pad>> = <<q, r, Pad, Pad>>
    <3>1. PICK z \in Nat : z = 0
      OBVIOUS
    <3>2. SubSeq(<<q, r, z, z>>, 1, 2) \o <<Pad, Pad>> = <<q, r, Pad, Pad>>
      BY ONLY FirstOfFour, q \in Nat, r \in Nat, z \in Nat
    <3> QED BY ONLY <3>1, <3>2
  <2>5. Padded(s) = <<q, r, Pad, Pad>>
    BY ONLY <1>1, <1>2, <2>3, <2>4, Len(s) = n DEF Padded
  <2> QED BY ONLY <1>1, <1>2, <2>1, <2>5
<1>3. CASE n = 2
  <2>0. PICK b \in 0..255 : b = s[2]
    <3>1. 2 \in 1..Len(s)
      BY <1>3
    <3> QED BY <3>1, ElementOfSeq DEF Byte
  <2>1. PICK q \in Nat, r \in Nat, t \in Nat :
            q = a \div 4 /\ r = (a % 4) * 16 + b \div 16 /\ t = (b % 16) * 4
    OBVIOUS
  <2>2. 0 \div 64 = 0 /\ 0 % 64 = 0
    OBVIOUS
  <2>3. FourChars(a, b, 0) = <<q, r, t, 0>>
    <3>1. (b % 16) * 4 + 0 \div 64 = t
      BY <2>1, <2>2
    <3> QED BY ONLY <2>1, <2>2, <3>1 DEF FourChars
  <2>4. SubSeq(<<q, r, t, 0>>, 1, 3) \o <<Pad>> = <<q, r, t, Pad>>
    <3>1. PICK z \in Nat : z = 0
      OBVIOUS
    <3>2. SubSeq(<<q, r, t, z>>, 1, 3) \o <<Pad>> = <<q, r, t, Pad>>
      BY ONLY FirstOfFour, q \in Nat, r \in Nat, t \in Nat, z \in Nat
    <3> QED BY ONLY <3>1, <3>2
  <2>5. Padded(s) = <<q, r, t, Pad>>
    <3>1. Len(s) # 1
      BY ONLY <1>3, Len(s) = n
    <3> QED BY ONLY <1>1, <2>0, <3>1, <2>3, <2>4 DEF Padded
  <2> QED BY ONLY <1>1, <1>3, <2>0, <2>1, <2>5
<1> QED BY ONLY <1>2, <1>3, n \in {1, 2}

\* Two joined sequences as one function.
Both(v, p, m, n) == [i \in 1..m + n |-> IF i <= m THEN v[i] ELSE p[i - m]]

LEMMA JoinedIs ==
    ASSUME NEW S, NEW v \in Seq(S), NEW p \in Seq(S), NEW m \in Nat, NEW n \in Nat,
           Len(v) = m, Len(p) = n
    PROVE  v \o p = Both(v, p, m, n)
<1>1. PICK x \in Seq(S) :
          /\ x = v \o p /\ Len(x) = Len(v) + Len(p)
          /\ \A i \in 1..Len(v) + Len(p) : x[i] = IF i <= Len(v) THEN v[i] ELSE p[i - Len(v)]
  <2>1. \E x \in Seq(S) : x = v \o p /\ IsJoined(x, v, p)
    BY ONLY Joined, v \in Seq(S), p \in Seq(S)
  <2> QED BY ONLY <2>1 DEF IsJoined
<1>2. Len(v) + Len(p) = m + n /\ Len(v) = m
  OBVIOUS
<1>3. Len(x) = m + n /\ \A i \in 1..m + n : x[i] = IF i <= m THEN v[i] ELSE p[i - m]
  BY ONLY <1>1, <1>2
<1>4. x = [i \in 1..Len(x) |-> x[i]]
  OBVIOUS
<1> QED BY ONLY <1>1, <1>3, <1>4 DEF Both

\* What is added behind the groups, by the bytes that are left.
LEMMA PaddedAdds ==
    ASSUME NEW s \in Seq(Byte), NEW k \in {1, 2}, Len(s) = k
    PROVE  /\ Padded(s) \in Chars /\ Len(Padded(s)) = 4
           /\ Padded(s)[1] = s[1] \div 4 /\ Padded(s)[4] = Pad
           /\ k = 1 => Padded(s)[2] = (s[1] % 4) * 16 /\ Padded(s)[3] = Pad
           /\ k = 2 => /\ Padded(s)[2] = (s[1] % 4) * 16 + s[2] \div 16
                       /\ Padded(s)[3] = (s[2] % 16) * 4
<1>1. PICK S : S = 0..64
  OBVIOUS
<1>2. ASSUME NEW q \in S, NEW r \in S, NEW t \in S, NEW u \in S
      PROVE  /\ <<q, r, t, u>> \in Seq(S) /\ Len(<<q, r, t, u>>) = 4
             /\ <<q, r, t, u>>[1] = q /\ <<q, r, t, u>>[2] = r
             /\ <<q, r, t, u>>[3] = t /\ <<q, r, t, u>>[4] = u
  BY ONLY q \in S, r \in S, t \in S, u \in S
<1>3. \A i \in 1..k : s[i] \in 0..255
  BY ElementOfSeq DEF Byte
<1>4. CASE k = 1
  <2>1. s[1] \in 0..255
    BY <1>3, <1>4
  <2>2. PICK q \in S, r \in S, t \in S : q = s[1] \div 4 /\ r = (s[1] % 4) * 16 /\ t = Pad
    <3>1. PICK a \in 0..255 : a = s[1]
      BY ONLY <2>1
    <3>2. a \div 4 \in 0..64 /\ (a % 4) * 16 \in 0..64 /\ Pad \in 0..64
      BY ONLY a \in 0..255 DEF Pad
    <3> QED BY ONLY <1>1, <3>1, <3>2
  <2>3. Padded(s) = <<q, r, t, t>>
    BY ONLY PaddedIs, <1>4, <2>2, s \in Seq(Byte), k \in {1, 2}, Len(s) = k
  <2>4. /\ <<q, r, t, t>> \in Seq(S) /\ Len(<<q, r, t, t>>) = 4
        /\ <<q, r, t, t>>[1] = q /\ <<q, r, t, t>>[2] = r
        /\ <<q, r, t, t>>[3] = t /\ <<q, r, t, t>>[4] = t
    BY ONLY <1>2, q \in S, r \in S, t \in S
  <2> QED BY ONLY <1>1, <1>4, <2>2, <2>3, <2>4 DEF Chars
<1>5. CASE k = 2
  <2>1. s[1] \in 0..255 /\ s[2] \in 0..255
    BY <1>3, <1>5
  <2>2. PICK q \in S, r \in S, t \in S, u \in S :
            q = s[1] \div 4 /\ r = (s[1] % 4) * 16 + s[2] \div 16 /\ t = (s[2] % 16) * 4 /\ u = Pad
    <3>1. PICK a \in 0..255, b \in 0..255 : a = s[1] /\ b = s[2]
      BY ONLY <2>1
    <3>2. a \div 4 \in 0..64 /\ (a % 4) * 16 + b \div 16 \in 0..64 /\ (b % 16) * 4 \in 0..64 /\ Pad \in 0..64
      BY ONLY a \in 0..255, b \in 0..255 DEF Pad
    <3> QED BY ONLY <1>1, <3>1, <3>2
  <2>3. Padded(s) = <<q, r, t, u>>
    BY ONLY PaddedIs, <1>5, <2>2, s \in Seq(Byte), k \in {1, 2}, Len(s) = k
  <2>4. /\ <<q, r, t, u>> \in Seq(S) /\ Len(<<q, r, t, u>>) = 4
        /\ <<q, r, t, u>>[1] = q /\ <<q, r, t, u>>[2] = r
        /\ <<q, r, t, u>>[3] = t /\ <<q, r, t, u>>[4] = u
    BY ONLY <1>2, q \in S, r \in S, t \in S, u \in S
  <2> QED BY ONLY <1>1, <1>5, <2>2, <2>3, <2>4 DEF Chars
<1> QED BY ONLY <1>4, <1>5, k \in {1, 2}

\* A whole input is encoded as its groups and the padding of what is left.
LEMMA EncodingOfRest ==
    ASSUME NEW bytes \in Seq(Byte), NEW n \in Nat, NEW k \in {1, 2}, Len(bytes) = 3 * n + k
    PROVE  /\ Padded(From(bytes, 3 * n)) \in Chars
           /\ Encoding(bytes) = Groups(bytes, n) \o Padded(From(bytes, 3 * n))
<1>1. 3 * n \in 0..Len(bytes) /\ Len(bytes) \in Nat /\ Len(bytes) - 3 * n = k /\ 3 * n <= Len(bytes)
  OBVIOUS
<1>2. PICK s \in Seq(Byte) : /\ s = From(bytes, 3 * n) /\ Len(s) = k
                             /\ \A i \in 1..k : s[i] = bytes[3 * n + i]
  <2>1. PICK j \in 0..Len(bytes) : j = 3 * n
    BY <1>1
  <2>2. /\ From(bytes, j) \in Seq(Byte) /\ Len(From(bytes, j)) = Len(bytes) - j
        /\ \A i \in 1..Len(bytes) - j : From(bytes, j)[i] = bytes[j + i]
    BY ONLY FromIs, bytes \in Seq(Byte), j \in 0..Len(bytes)
  <2> QED BY ONLY <1>1, <2>1, <2>2
<1>3. /\ s[1] = bytes[3 * n + 1] /\ (k = 2 => s[2] = bytes[3 * n + 2])
  BY ONLY <1>2, k \in {1, 2}
<1>4. PICK p \in Chars :
          /\ p = Padded(s) /\ Len(p) = 4 /\ p[1] = s[1] \div 4 /\ p[4] = Pad
          /\ k = 1 => p[2] = (s[1] % 4) * 16 /\ p[3] = Pad
          /\ k = 2 => p[2] = (s[1] % 4) * 16 + s[2] \div 16 /\ p[3] = (s[2] % 16) * 4
  BY ONLY PaddedAdds, <1>2, s \in Seq(Byte), k \in {1, 2}
<1>5. PICK v \in Chars :
          /\ v = Groups(bytes, n) /\ Len(v) = 4 * n
          /\ \A g \in Nat, j \in 0..3 :
                 g < n => v[4 * g + j + 1] =
                              FourChars(bytes[3 * g + 1], bytes[3 * g + 2], bytes[3 * g + 3])[j + 1]
  BY ONLY <1>1, GroupsIs, bytes \in Seq(Byte), n \in Nat
<1>6. v \o p = [i \in 1 .. 4 * n + 4 |-> IF i <= 4 * n THEN v[i] ELSE p[i - 4 * n]]
  <2>1. PICK m \in Nat, four \in Nat : m = 4 * n /\ four = 4
    OBVIOUS
  <2>2. PICK S : v \in Seq(S) /\ p \in Seq(S)
    BY DEF Chars
  <2>3. Len(v) = m /\ Len(p) = four
    BY ONLY <1>4, <1>5, <2>1
  <2>4. v \o p = Both(v, p, m, four)
    BY ONLY <2>2, <2>3, JoinedIs, m \in Nat, four \in Nat
  <2> QED BY ONLY <2>1, <2>4 DEF Both
<1>7. /\ 4 * ((Len(bytes) + 2) \div 3) = 4 * n + 4
      /\ (8 * Len(bytes) + 5) \div 6 = 4 * n + 1 + k
  BY <1>1
<1>8. ASSUME NEW i \in 1 .. 4 * n + 4, i <= 4 * n
      PROVE  v[i] = IF i <= 4 * n + 1 + k THEN Sextet(bytes, i - 1) ELSE Pad
  <2>1. PICK g \in Nat, j \in 0..3 : i = 4 * g + j + 1 /\ g < n
    <3>1. /\ (i - 1) \div 4 \in Nat /\ (i - 1) % 4 \in 0..3 /\ (i - 1) \div 4 < n
          /\ i = 4 * ((i - 1) \div 4) + ((i - 1) % 4) + 1
      BY ONLY <1>8, n \in Nat, i \in 1 .. 4 * n + 4
    <3> QED BY ONLY <3>1
  <2>2. i - 1 = 4 * g + j /\ 3 * g + 3 <= Len(bytes) /\ i <= 4 * n + 1 + k
    BY ONLY <1>1, <2>1, k \in {1, 2}, n \in Nat, g \in Nat, j \in 0..3, i \in 1 .. 4 * n + 4, <1>8
  <2>3. v[i] = FourChars(bytes[3 * g + 1], bytes[3 * g + 2], bytes[3 * g + 3])[j + 1]
    BY ONLY <1>5, <2>1, g \in Nat, j \in 0..3
  <2>4. Sextet(bytes, 4 * g + j) = FourChars(bytes[3 * g + 1], bytes[3 * g + 2], bytes[3 * g + 3])[j + 1]
    BY ONLY <2>2, SextetsOfGroup, bytes \in Seq(Byte), g \in Nat, j \in 0..3
  <2> QED BY ONLY <2>2, <2>3, <2>4
<1>9. ASSUME NEW i \in 1 .. 4 * n + 4, ~ i <= 4 * n
      PROVE  p[i - 4 * n] = IF i <= 4 * n + 1 + k THEN Sextet(bytes, i - 1) ELSE Pad
  <2>1. PICK j \in 1..4 : j = i - 4 * n
    BY ONLY <1>9, n \in Nat, i \in 1 .. 4 * n + 4
  <2>2. i - 1 = 4 * n + (j - 1) /\ (i <= 4 * n + 1 + k <=> j <= k + 1)
    BY ONLY <2>1, k \in {1, 2}, n \in Nat, i \in 1 .. 4 * n + 4
  <2>3. 4 * n + 0 = 4 * n
    OBVIOUS
  <2>4. CASE k = 1
    <3>1. /\ Sextet(bytes, 4 * n) = s[1] \div 4 /\ Sextet(bytes, 4 * n + 1) = (s[1] % 4) * 16
      BY <1>3, <2>4, SextetsOfRest
    <3>2. CASE j = 1
      <4>1. i - 1 = 4 * n
        BY ONLY <2>2, <2>3, <3>2
      <4> QED BY ONLY <1>4, <2>1, <2>2, <2>4, <3>1, <3>2, <4>1
    <3>3. CASE j = 2
      <4>1. i - 1 = 4 * n + 1
        BY ONLY <2>2, <3>3
      <4> QED BY ONLY <1>4, <2>1, <2>2, <2>4, <3>1, <3>3, <4>1
    <3>4. CASE j = 3 \/ j = 4
      BY ONLY <1>4, <2>1, <2>2, <2>4, <3>4
    <3> QED BY ONLY <3>2, <3>3, <3>4, j \in 1..4
  <2>5. CASE k = 2
    <3>1. /\ Sextet(bytes, 4 * n) = s[1] \div 4
          /\ Sextet(bytes, 4 * n + 1) = (s[1] % 4) * 16 + s[2] \div 16
          /\ Sextet(bytes, 4 * n + 2) = (s[2] % 16) * 4
      BY <1>3, <2>5, SextetsOfRest
    <3>2. CASE j = 1
      <4>1. i - 1 = 4 * n
        BY ONLY <2>2, <2>3, <3>2
      <4> QED BY ONLY <1>4, <2>1, <2>2, <2>5, <3>1, <3>2, <4>1
    <3>3. CASE j = 2
      <4>1. i - 1 = 4 * n + 1
        BY ONLY <2>2, <3>3
      <4> QED BY ONLY <1>4, <2>1, <2>2, <2>5, <3>1, <3>3, <4>1
    <3>4. CASE j = 3
      <4>1. i - 1 = 4 * n + 2
        BY ONLY <2>2, <3>4
      <4> QED BY ONLY <1>4, <2>1, <2>2, <2>5, <3>1, <3>4, <4>1
    <3>5. CASE j = 4
      BY ONLY <1>4, <2>1, <2>2, <2>5, <3>5
    <3> QED BY ONLY <3>2, <3>3, <3>4, <3>5, j \in 1..4
  <2> QED BY ONLY <2>4, <2>5, k \in {1, 2}
<1>10. v \o p = Encoding(bytes)
  <2>1. \A i \in 1 .. 4 * n + 4 :
            (IF i <= 4 * n THEN v[i] ELSE p[i - 4 * n])
                = IF i <= 4 * n + 1 + k THEN Sextet(bytes, i - 1) ELSE Pad
    BY ONLY <1>8, <1>9
  <2>2. Encoding(bytes) = [i \in 1 .. 4 * n + 4 |-> IF i <= 4 * n + 1 + k THEN Sextet(bytes, i - 1) ELSE Pad]
    BY ONLY <1>7 DEF Encoding
  <2> QED BY ONLY <1>6, <2>1, <2>2
<1> QED BY ONLY <1>2, <1>4, <1>5, <1>10

-----------------------------------------------------------------------------
(* Base64: what is encoded so far, and what is held over.                  *)

Whole(bytes) == Len(bytes) \div 3
Encoded(bytes) == Groups(bytes, Whole(bytes))
Rest(bytes) == From(bytes, 3 * Whole(bytes))

LEMMA WholeIs ==
    ASSUME NEW bytes \in Seq(Byte)
    PROVE  \E n \in Nat, k \in 0..2 : n = Whole(bytes) /\ Len(bytes) = 3 * n + k
<1>1. PICK m \in Nat : m = Len(bytes)
  BY LenProperties
<1>2. m \div 3 \in Nat /\ m % 3 \in 0..2 /\ m = 3 * (m \div 3) + (m % 3)
  BY <1>1
<1> QED BY ONLY <1>1, <1>2 DEF Whole

\* The groups and the rest, by their number.
LEMMA PartsAre ==
    ASSUME NEW bytes \in Seq(Byte), NEW n \in Nat, NEW k \in 0..2, Len(bytes) = 3 * n + k
    PROVE  /\ Encoded(bytes) = Groups(bytes, n) /\ Encoded(bytes) \in Chars
           /\ Len(Encoded(bytes)) = 4 * n
           /\ Rest(bytes) = From(bytes, 3 * n) /\ Rest(bytes) \in Seq(Byte) /\ Len(Rest(bytes)) = k
           /\ 3 * n \in 0..Len(bytes)
<1>1. Whole(bytes) = n /\ 3 * n <= Len(bytes) /\ 3 * n \in 0..Len(bytes) /\ Len(bytes) - 3 * n = k
  BY DEF Whole
<1>2. Groups(bytes, n) \in Chars /\ Len(Groups(bytes, n)) = 4 * n
  BY ONLY <1>1, GroupsIs, bytes \in Seq(Byte), n \in Nat
<1>3. PICK j \in 0..Len(bytes) : j = 3 * n
  BY ONLY <1>1
<1>4. From(bytes, j) \in Seq(Byte) /\ Len(From(bytes, j)) = Len(bytes) - j
  BY ONLY FromIs, bytes \in Seq(Byte), j \in 0..Len(bytes)
<1> QED BY ONLY <1>1, <1>2, <1>3, <1>4 DEF Encoded, Rest

\* Fewer than three bytes are all held over.
LEMMA FewBytes ==
    ASSUME NEW bytes \in Seq(Byte), NEW k \in 0..2, Len(bytes) = k
    PROVE  Encoded(bytes) = <<>> /\ Rest(bytes) = bytes
<1>1. PICK n \in Nat : n = 0 /\ 3 * n = 0 /\ Len(bytes) = 3 * n + k /\ 4 * n = 0
  OBVIOUS
<1>2. /\ Encoded(bytes) \in Chars /\ Len(Encoded(bytes)) = 0
      /\ Rest(bytes) = From(bytes, 0) /\ Rest(bytes) \in Seq(Byte) /\ Len(Rest(bytes)) = k
  BY ONLY <1>1, PartsAre, bytes \in Seq(Byte), k \in 0..2
<1>3. Encoded(bytes) = <<>>
  <2>1. PICK S : Encoded(bytes) \in Seq(S)
    BY <1>2 DEF Chars
  <2> QED BY ONLY <2>1, <1>2, EmptySeq
<1>4. From(bytes, 0) = bytes
  <2>1. PICK z \in 0..Len(bytes) : z = 0
    OBVIOUS
  <2>2. /\ From(bytes, z) \in Seq(Byte) /\ Len(From(bytes, z)) = Len(bytes) - z
        /\ \A i \in 1..Len(bytes) - z : From(bytes, z)[i] = bytes[z + i]
    BY ONLY FromIs, bytes \in Seq(Byte), z \in 0..Len(bytes)
  <2>3. Len(bytes) - z = Len(bytes) /\ \A i \in 1..Len(bytes) : z + i = i
    BY <2>1
  <2>4. PICK t \in Seq(Byte) : t = From(bytes, z) /\ Len(t) = Len(bytes) /\ \A i \in 1..Len(t) : t[i] = bytes[i]
    BY ONLY <2>2, <2>3
  <2> QED BY ONLY <2>1, <2>4, SeqEqual, bytes \in Seq(Byte)
<1> QED BY ONLY <1>2, <1>3, <1>4

\* Whole groups in front are encoded first, and nothing of them is held over.
LEMMA PartsOfJoined ==
    ASSUME NEW a \in Seq(Byte), NEW b \in Seq(Byte), NEW n \in Nat, Len(a) = 3 * n
    PROVE  Encoded(a \o b) = Groups(a, n) \o Encoded(b) /\ Rest(a \o b) = Rest(b)
<1>1. PICK m \in Nat, k \in 0..2 : Len(b) = 3 * m + k
  BY ONLY WholeIs, b \in Seq(Byte)
<1>2. PICK c \in Seq(Byte) : c = a \o b /\ Len(c) = Len(a) + Len(b)
  BY ONLY ConcatProperties, a \in Seq(Byte), b \in Seq(Byte)
<1>3. PICK l \in Nat : l = n + m /\ Len(c) = 3 * l + k /\ 3 * l = Len(a) + 3 * m /\ 3 * m <= Len(b)
  <2>1. n + m \in Nat /\ Len(c) = 3 * (n + m) + k /\ 3 * (n + m) = Len(a) + 3 * m /\ 3 * m <= Len(b)
    BY <1>1, <1>2
  <2> QED BY ONLY <2>1
<1>4. Encoded(c) = Groups(c, l) /\ Rest(c) = From(c, 3 * l)
  BY ONLY <1>3, PartsAre, c \in Seq(Byte), l \in Nat, k \in 0..2
<1>5. Encoded(b) = Groups(b, m) /\ Rest(b) = From(b, 3 * m) /\ 3 * m \in 0..Len(b)
  BY ONLY <1>1, PartsAre, b \in Seq(Byte), m \in Nat, k \in 0..2
<1>6. Groups(a \o b, n + m) = Groups(a, n) \o Groups(b, m)
  BY ONLY <1>3, GroupsOfJoined, a \in Seq(Byte), b \in Seq(Byte), n \in Nat, m \in Nat,
     Len(a) = 3 * n
<1>7. From(a \o b, Len(a) + 3 * m) = From(b, 3 * m)
  <2>1. PICK j \in 0..Len(b) : j = 3 * m
    BY ONLY <1>5
  <2>2. From(a \o b, Len(a) + j) = From(b, j)
    BY ONLY CutAtSeam, a \in Seq(Byte), b \in Seq(Byte), j \in 0..Len(b)
  <2> QED BY ONLY <2>1, <2>2
<1> QED BY ONLY <1>2, <1>3, <1>4, <1>5, <1>6, <1>7

\* Pieces of bytes and of characters, joined in any grouping.
LEMMA BytesRegrouped ==
    ASSUME NEW a \in Seq(Byte), NEW b \in Seq(Byte), NEW c \in Seq(Byte)
    PROVE  (a \o b) \o c = a \o (b \o c)
BY ConcatAssociative

LEMMA CharsRegrouped ==
    ASSUME NEW a \in Chars, NEW b \in Chars, NEW c \in Chars
    PROVE  (a \o b) \o c = a \o (b \o c)
BY ConcatAssociative DEF Chars

\* An encoder goes on from what it holds over.
LEMMA GoingOn ==
    ASSUME NEW s \in Seq(Byte), NEW x \in Seq(Byte)
    PROVE  /\ Encoded(s \o x) = Encoded(s) \o Encoded(Rest(s) \o x)
           /\ Rest(s \o x) = Rest(Rest(s) \o x)
<1>1. PICK n \in Nat, k \in 0..2 : Len(s) = 3 * n + k
  BY ONLY WholeIs, s \in Seq(Byte)
<1>2. /\ Encoded(s) = Groups(s, n) /\ Rest(s) = From(s, 3 * n)
      /\ Rest(s) \in Seq(Byte) /\ 3 * n \in 0..Len(s)
  BY ONLY <1>1, PartsAre, s \in Seq(Byte), n \in Nat, k \in 0..2
<1>3. PICK j \in 0..Len(s) : j = 3 * n
  BY ONLY <1>2
<1>4. PICK a \in Seq(Byte) : a = SubSeq(s, 1, j) /\ Len(a) = j /\ \A i \in 1..j : a[i] = s[i]
  <2>1. \E a \in Seq(Byte) : a = SubSeq(s, 1, j) /\ IsFirst(a, s, j)
    BY ONLY Parts, s \in Seq(Byte), j \in 0..Len(s)
  <2> QED BY ONLY <2>1 DEF IsFirst
<1>5. PICK b \in Seq(Byte) : b = Rest(s) \o x /\ Rest(s) \o x \in Seq(Byte)
  BY ONLY <1>2, ConcatProperties, x \in Seq(Byte)
<1>6. s \o x = a \o b
  <2>1. SubSeq(s, 1, j) \o From(s, j) = s
    BY ONLY CutAndJoin, s \in Seq(Byte), j \in 0..Len(s)
  <2>2. (a \o Rest(s)) \o x = a \o (Rest(s) \o x)
    BY ONLY <1>2, BytesRegrouped, a \in Seq(Byte), x \in Seq(Byte)
  <2> QED BY ONLY <1>2, <1>3, <1>4, <1>5, <2>1, <2>2
<1>7. Encoded(a \o b) = Groups(a, n) \o Encoded(b) /\ Rest(a \o b) = Rest(b)
  BY ONLY <1>3, <1>4, PartsOfJoined, a \in Seq(Byte), b \in Seq(Byte), n \in Nat
<1>8. Groups(a, n) = Groups(s, n)
  <2>1. 3 * n <= Len(a) /\ 3 * n <= Len(s) /\ \A i \in 1 .. 3 * n : a[i] = s[i]
    BY <1>3, <1>4
  <2> QED BY ONLY <2>1, GroupsOfFirst, a \in Seq(Byte), s \in Seq(Byte), n \in Nat
<1> QED BY ONLY <1>2, <1>5, <1>6, <1>7, <1>8

\* The encoding is that of the groups, and padding for what is held over.
LEMMA EncodingIs ==
    ASSUME NEW bytes \in Seq(Byte)
    PROVE  /\ Encoding(bytes) = IF Rest(bytes) = <<>> THEN Encoded(bytes)
                                ELSE Encoded(bytes) \o Padded(Rest(bytes))
           /\ Rest(bytes) # <<>> => Padded(Rest(bytes)) \in Chars
<1>1. PICK n \in Nat, k \in 0..2 : Len(bytes) = 3 * n + k
  BY ONLY WholeIs, bytes \in Seq(Byte)
<1>2. /\ Encoded(bytes) = Groups(bytes, n) /\ Rest(bytes) = From(bytes, 3 * n)
      /\ Rest(bytes) \in Seq(Byte) /\ Len(Rest(bytes)) = k
  BY ONLY <1>1, PartsAre, bytes \in Seq(Byte), n \in Nat, k \in 0..2
<1>3. Rest(bytes) = <<>> <=> k = 0
  BY ONLY <1>2, EmptySeq
<1>4. CASE k = 0
  <2>1. Len(bytes) = 3 * n
    BY <1>1, <1>4
  <2>2. Encoding(bytes) = Groups(bytes, n)
    BY ONLY <2>1, EncodingOfGroups, bytes \in Seq(Byte), n \in Nat
  <2> QED BY ONLY <1>2, <1>3, <1>4, <2>2
<1>5. CASE k # 0
  <2>1. k \in {1, 2}
    BY <1>5
  <2>2. Padded(From(bytes, 3 * n)) \in Chars /\ Encoding(bytes) = Groups(bytes, n) \o Padded(From(bytes, 3 * n))
    BY ONLY <1>1, <2>1, EncodingOfRest, bytes \in Seq(Byte), n \in Nat
  <2> QED BY ONLY <1>2, <1>3, <1>5, <2>2
<1> QED BY ONLY <1>4, <1>5
\* No bytes have no groups.
LEMMA NothingEncoded == Encoded(<<>>) = <<>> /\ Rest(<<>>) = <<>>
<1>1. PICK e, k : e = <<>> /\ k = 0
  OBVIOUS
<1>2. e \in Seq(Byte) /\ Len(e) = k /\ k \in 0..2
  BY ONLY <1>1, EmptySeq
<1> QED BY ONLY <1>1, <1>2, FewBytes

\* With room for every group, a call encodes its whole input.
LEMMA NoHoldoverExact ==
    ASSUME NEW in \in Seq(Byte), NEW room \in Int, NEW h, NEW n \in Nat, NEW k \in 0..2,
           Len(in) = 3 * n + k, room >= 4 * n
    PROVE  NoHoldover(in, room, h) = Result("Ok", Len(in), 4 * n, Encoded(in), Rest(in))
<1>1. Len(in) \div 3 = n /\ room \div 4 \in Int /\ n <= room \div 4
  OBVIOUS
<1>2. Min({n, room \div 4}) = n
  <2>1. PICK m \in Int : m = room \div 4 /\ n <= m
    BY ONLY <1>1
  <2>2. n \in {n, m} /\ \A y \in {n, m} : n <= y
    BY ONLY <2>1, n \in Nat
  <2>3. ASSUME NEW z \in {n, m}, \A y \in {n, m} : z <= y PROVE z = n
    BY ONLY <2>1, <2>3, n \in Nat
  <2>4. Min({n, m}) = n
    BY ONLY <2>2, <2>3 DEF Min
  <2> QED BY ONLY <2>1, <2>4
<1>3. Encoded(in) = Groups(in, n) /\ Rest(in) = From(in, 3 * n)
  BY ONLY PartsAre, in \in Seq(Byte), n \in Nat, k \in 0..2, Len(in) = 3 * n + k
<1>4. ~ n < n
  OBVIOUS
<1> QED BY ONLY <1>1, <1>2, <1>3, <1>4 DEF NoHoldover

\* There is room for the group the held bytes complete, less is what it leaves,
\* and the call goes on with the rest of the input.
HoldoverPassed(in, room, h, j, p, o, w, left, less) ==
    /\ in \in Seq(Byte) /\ h \in Seq(Byte) /\ room \in Nat /\ j \in Nat
    /\ p \in Nat /\ o \in Nat /\ less \in Int /\ ~ room < 4 /\ less = room - 4
    /\ NoHoldover(From(in, j), less, h) = Result("Ok", p, o, w, left)

\* A call that makes a group of held bytes grows the result of the rest.
LEMMA WithHoldoverGrows ==
    ASSUME NEW in, NEW room, NEW h, NEW j, NEW p, NEW o, NEW w, NEW left, NEW less,
           HoldoverPassed(in, room, h, j, p, o, w, left, less)
    PROVE  WithHoldover(in, room, h, j)
               = Result("Ok", p + j, o + 4, Groups(h \o SubSeq(in, 1, j), 1) \o w, left)
<1>a. /\ in \in Seq(Byte) /\ h \in Seq(Byte) /\ room \in Nat /\ j \in Nat
      /\ p \in Nat /\ o \in Nat /\ less \in Int /\ ~ room < 4 /\ less = room - 4
      /\ NoHoldover(From(in, j), less, h) = Result("Ok", p, o, w, left)
  BY DEF HoldoverPassed
<1>1. ASSUME NEW w0
      PROVE  [Result("Ok", p, o, w, left) EXCEPT !.processed = @ + j, !.output = @ + 4, !.written = w0 \o @]
                 = Result("Ok", p + j, o + 4, w0 \o w, left)
  <2>1. [Result("Ok", p, o, w, left) EXCEPT !.processed = @ + j, !.output = @ + 4, !.written = w0 \o @]
            = [Result("Ok", p, o, w, left) EXCEPT !.processed = p + j, !.output = o + 4, !.written = w0 \o w]
    BY DEF Result
  <2>2. ASSUME NEW x, NEW y, NEW z
        PROVE  [Result("Ok", p, o, w, left) EXCEPT !.processed = x, !.output = y, !.written = z]
                   = Result("Ok", x, y, z, left)
    <3>1. [Result("Ok", p, o, w, left) EXCEPT !.processed = x] = Result("Ok", x, o, w, left)
      BY DEF Result
    <3>2. [Result("Ok", x, o, w, left) EXCEPT !.output = y] = Result("Ok", x, y, w, left)
      BY DEF Result
    <3>3. [Result("Ok", x, y, w, left) EXCEPT !.written = z] = Result("Ok", x, y, z, left)
      BY DEF Result
    <3>4. [Result("Ok", p, o, w, left) EXCEPT !.processed = x, !.output = y, !.written = z]
              = [[[Result("Ok", p, o, w, left) EXCEPT !.processed = x] EXCEPT !.output = y] EXCEPT !.written = z]
      BY DEF Result
    <3> QED BY ONLY <3>1, <3>2, <3>3, <3>4
  <2>3. [Result("Ok", p, o, w, left) EXCEPT !.processed = p + j, !.output = o + 4, !.written = w0 \o w]
            = Result("Ok", p + j, o + 4, w0 \o w, left)
    BY ONLY <2>2
  <2> QED BY ONLY <2>1, <2>3
<1>2. PICK w0 : w0 = Groups(h \o SubSeq(in, 1, j), 1)
  OBVIOUS
<1>3. WithHoldover(in, room, h, j)
          = [Result("Ok", p, o, w, left) EXCEPT !.processed = @ + j, !.output = @ + 4, !.written = w0 \o @]
  BY <1>2, <1>a DEF WithHoldover
<1> QED BY <1>1, <1>2, <1>3

\* With bytes held over and room for every group, too; j bytes of the input
\* and the held ones make the first.
LEMMA WithHoldoverExact ==
    ASSUME NEW in \in Seq(Byte), NEW room \in Nat, NEW h \in Seq(Byte), NEW j \in {1, 2},
           Len(h) + j = 3, j <= Len(in), room >= 4 * ((Len(h) + Len(in)) \div 3)
    PROVE  \E output \in Nat :
               /\ output = Len(Encoded(h \o in))
               /\ WithHoldover(in, room, h, j)
                      = Result("Ok", Len(in), output, Encoded(h \o in), Rest(h \o in))
<1>1. PICK l \in Nat : l = Len(in)
  BY LenProperties
<1>2. PICK g \in Nat : g = 3 - j /\ Len(h) = g
  BY LenProperties
<1>3. PICK f \in Seq(Byte) : f = SubSeq(in, 1, j) /\ Len(f) = j
  <2>1. j \in 0..Len(in)
    BY <1>1
  <2>2. PICK i \in 0..Len(in) : i = j
    BY ONLY <2>1
  <2>3. SubSeq(in, 1, i) \in Seq(Byte) /\ Len(SubSeq(in, 1, i)) = i
    BY ONLY FirstIs, in \in Seq(Byte), i \in 0..Len(in)
  <2> QED BY ONLY <2>2, <2>3
<1>4. PICK r \in Seq(Byte) : r = From(in, j) /\ Len(r) = l - j
  <2>1. j \in 0..Len(in)
    BY <1>1
  <2> QED BY ONLY <1>1, <2>1, FromIs, in \in Seq(Byte)
<1>5. PICK first \in Seq(Byte) : first = h \o f /\ Len(first) = 3
  <2>1. h \o f \in Seq(Byte) /\ Len(h \o f) = Len(h) + Len(f)
    BY ONLY ConcatProperties, h \in Seq(Byte), f \in Seq(Byte)
  <2>2. Len(h) + Len(f) = 3
    BY ONLY <1>3, Len(h) + j = 3
  <2> QED BY ONLY <2>1, <2>2
<1>6. PICK n \in Nat, k \in 0..2 : Len(r) = 3 * n + k
  BY ONLY WholeIs, r \in Seq(Byte)
<1>7. room >= 4 * n + 4 /\ room - 4 \in Int /\ room - 4 >= 4 * n /\ ~ room < 4
  <2>1. g + l = 3 * (n + 1) + k
    BY ONLY <1>2, <1>4, <1>6, l \in Nat, n \in Nat, k \in 0..2, j \in {1, 2}
  <2>2. (g + l) \div 3 = n + 1
    BY ONLY <2>1, g \in Nat, l \in Nat, n \in Nat, k \in 0..2
  <2>3. room >= 4 * (n + 1)
    BY ONLY <1>1, <1>2, <2>2, room >= 4 * ((Len(h) + Len(in)) \div 3)
  <2> QED BY ONLY <2>3, room \in Nat, n \in Nat
<1>8. NoHoldover(r, room - 4, h) = Result("Ok", Len(r), 4 * n, Encoded(r), Rest(r))
  <2>1. PICK left \in Int : left = room - 4 /\ left >= 4 * n
    BY ONLY <1>7
  <2>2. NoHoldover(r, left, h) = Result("Ok", Len(r), 4 * n, Encoded(r), Rest(r))
    BY ONLY <1>6, <2>1, NoHoldoverExact, r \in Seq(Byte), n \in Nat, k \in 0..2
  <2> QED BY ONLY <2>1, <2>2
<1>9. h \o in = first \o r
  <2>1. SubSeq(in, 1, j) \o From(in, j) = in
    <3>1. j \in 0..Len(in)
      BY <1>1
    <3> QED BY ONLY <3>1, CutAndJoin, in \in Seq(Byte)
  <2>2. (h \o f) \o r = h \o (f \o r)
    <3>1. \A x, y, z \in Seq(Byte) : (x \o y) \o z = x \o (y \o z)
      BY ONLY BytesRegrouped
    <3> QED BY ONLY <3>1, h \in Seq(Byte), f \in Seq(Byte), r \in Seq(Byte)
  <2> QED BY ONLY <1>3, <1>4, <1>5, <2>1, <2>2
<1>10. /\ Encoded(h \o in) = Groups(first, 1) \o Encoded(r) /\ Rest(h \o in) = Rest(r)
       /\ Len(Encoded(h \o in)) = 4 * n + 4
  <2>1. PICK one \in Nat : one = 1 /\ Len(first) = 3 * one /\ 3 * one <= Len(first) /\ 4 * one = 4
    BY <1>5
  <2>2. Encoded(first \o r) = Groups(first, one) \o Encoded(r) /\ Rest(first \o r) = Rest(r)
    BY ONLY <2>1, PartsOfJoined, first \in Seq(Byte), r \in Seq(Byte), one \in Nat
  <2>3. PICK S : S = 0..64
    OBVIOUS
  <2>4. Groups(first, one) \in Seq(S) /\ Len(Groups(first, one)) = 4
    BY ONLY <2>1, <2>3, GroupsIs, first \in Seq(Byte), one \in Nat DEF Chars
  <2>5. Encoded(r) \in Seq(S) /\ Len(Encoded(r)) = 4 * n
    BY ONLY <1>6, <2>3, PartsAre, r \in Seq(Byte), n \in Nat, k \in 0..2 DEF Chars
  <2>6. Len(Groups(first, one) \o Encoded(r)) = Len(Groups(first, one)) + Len(Encoded(r))
    BY ONLY <2>4, <2>5, ConcatProperties
  <2>7. Len(Groups(first, one) \o Encoded(r)) = 4 * n + 4
    BY ONLY <2>4, <2>5, <2>6, n \in Nat
  <2> QED BY ONLY <1>9, <2>1, <2>2, <2>7
<1>11. WithHoldover(in, room, h, j)
           = Result("Ok", Len(r) + j, 4 * n + 4, Groups(first, 1) \o Encoded(r), Rest(r))
  <2>1. PICK p \in Nat, o \in Nat : p = Len(r) /\ o = 4 * n
    BY LenProperties
  <2>2. PICK w, left : w = Encoded(r) /\ left = Rest(r)
    OBVIOUS
  <2>3. PICK less \in Int : less = room - 4 /\ NoHoldover(From(in, j), less, h) = Result("Ok", p, o, w, left)
    BY ONLY <1>4, <1>8, <2>1, <2>2
  <2>4. PICK i \in Nat : i = j
    OBVIOUS
  <2>5. WithHoldover(in, room, h, j)
            = Result("Ok", p + j, o + 4, Groups(h \o SubSeq(in, 1, j), 1) \o w, left)
    <3>1. ~ room < 4 /\ less = room - 4 /\ NoHoldover(From(in, i), less, h) = Result("Ok", p, o, w, left)
      BY ONLY <1>7, <2>3, <2>4
    <3>2. WithHoldover(in, room, h, i)
              = Result("Ok", p + i, o + 4, Groups(h \o SubSeq(in, 1, i), 1) \o w, left)
      <4>1. HoldoverPassed(in, room, h, i, p, o, w, left, less)
        BY ONLY <3>1, in \in Seq(Byte), h \in Seq(Byte), room \in Nat, i \in Nat, less \in Int,
           p \in Nat, o \in Nat DEF HoldoverPassed
      <4> QED BY ONLY <4>1, WithHoldoverGrows
    <3> QED BY ONLY <2>4, <3>2
  <2> QED BY ONLY <1>3, <1>5, <2>1, <2>2, <2>5
<1>12. Len(r) + j = Len(in) /\ 4 * n + 4 \in Nat
  BY ONLY <1>1, <1>4, l \in Nat, n \in Nat, j \in {1, 2}
<1> QED BY ONLY <1>10, <1>11, <1>12

\* What a caller relies on.
Exact(in, h, r) ==
    /\ r = Result(r.status, r.processed, r.output, r.written, r.held)
    /\ r.status \in {"Ok", "OutputBufferFull"} /\ r.processed \in 0..Len(in)
    /\ r.written \in Chars /\ r.output = Len(r.written)
    /\ r.written = Encoded(h \o SubSeq(in, 1, r.processed))
    /\ r.held = Rest(h \o SubSeq(in, 1, r.processed))

\* A result with everything processed, or nothing.
LEMMA AllOrNothing ==
    ASSUME NEW in \in Seq(Byte), NEW h \in Seq(Byte), NEW g \in 0..2, Len(h) = g, NEW output
    PROVE  /\ output = Len(Encoded(h \o in)) =>
                  Exact(in, h, Result("Ok", Len(in), output, Encoded(h \o in), Rest(h \o in)))
           /\ Exact(in, h, Result("Ok", 0, 0, <<>>, h))
           /\ Exact(in, h, Result("OutputBufferFull", 0, 0, <<>>, h))
<1>1. PICK l \in Nat : l = Len(in)
  BY LenProperties
<1>2. SubSeq(in, 1, Len(in)) = in /\ SubSeq(in, 1, 0) = <<>>
  BY SubSeqFull, SubSeqEmpty
<1>3. h \o <<>> = h
  BY ConcatEmptySeq
<1>4. Encoded(h) = <<>> /\ Rest(h) = h
  BY ONLY FewBytes, h \in Seq(Byte), g \in 0..2, Len(h) = g
<1>5. h \o in \in Seq(Byte)
  BY ConcatProperties
<1>6. Encoded(h \o in) \in Chars
  <2>1. PICK n \in Nat, k \in 0..2 : Len(h \o in) = 3 * n + k
    BY ONLY WholeIs, <1>5
  <2> QED BY ONLY <1>5, <2>1, PartsAre
<1>7. <<>> \in Chars /\ Len(<<>>) = 0
  BY EmptySeq DEF Chars
<1>8. 0 \in 0..Len(in) /\ Len(in) \in 0..Len(in)
  BY ONLY <1>1, l \in Nat
<1>9. ASSUME output = Len(Encoded(h \o in))
      PROVE  Exact(in, h, Result("Ok", Len(in), output, Encoded(h \o in), Rest(h \o in)))
  BY ONLY <1>2, <1>6, <1>8, <1>9 DEF Exact, Result
<1>10. ASSUME NEW status \in {"Ok", "OutputBufferFull"}
       PROVE  Exact(in, h, Result(status, 0, 0, <<>>, h))
  <2>1. PICK none : none = <<>> /\ none \in Chars /\ Len(none) = 0
    BY ONLY <1>7
  <2>2. PICK r : r = Result(status, 0, 0, none, h)
    OBVIOUS
  <2>3. /\ r = Result(r.status, r.processed, r.output, r.written, r.held)
        /\ r.status = status /\ r.processed = 0 /\ r.output = 0 /\ r.written = none /\ r.held = h
    BY ONLY <2>2 DEF Result
  <2>4. h \o SubSeq(in, 1, 0) = h
    BY ONLY <1>2, <1>3
  <2>5. Exact(in, h, r)
    BY ONLY <1>4, <1>8, <2>1, <2>3, <2>4, status \in {"Ok", "OutputBufferFull"} DEF Exact
  <2> QED BY ONLY <2>1, <2>2, <2>5
<1> QED BY ONLY <1>9, <1>10

\* A call of encode writes the groups that become complete and holds over
\* the rest, of what it held over and the input it says it has processed.
LEMMA EncodeExact ==
    ASSUME NEW in \in Seq(Byte), NEW room \in Nat, NEW h \in Seq(Byte), NEW g \in 0..2, Len(h) = g,
           \/ room >= 4 * ((Len(h) + Len(in)) \div 3)
           \/ h # <<>> /\ room < 4
    PROVE  Exact(in, h, Encode(in, room, h))
<1>1. PICK l \in Nat : l = Len(in)
  BY LenProperties
<1>2. room >= 4 * ((Len(h) + Len(in)) \div 3) \/ (h # <<>> /\ room < 4)
  OBVIOUS
<1>3. CASE in = <<>>
  <2>1. Encode(in, room, h) = Result("Ok", 0, 0, <<>>, h)
    BY ONLY <1>3 DEF Encode
  <2> QED BY ONLY <2>1, AllOrNothing, in \in Seq(Byte), h \in Seq(Byte), g \in 0..2, Len(h) = g
<1>4. CASE in # <<>> /\ g = 0
  <2>1. h = <<>> /\ h \o in = in
    BY ONLY <1>4, Len(h) = g, EmptySeq, ConcatEmptySeq, h \in Seq(Byte), in \in Seq(Byte)
  <2>2. PICK n \in Nat, k \in 0..2 : Len(in) = 3 * n + k
    BY ONLY WholeIs, in \in Seq(Byte)
  <2>3. room >= 4 * n
    <3>1. (g + l) \div 3 = n
      BY ONLY <1>1, <1>4, <2>2, l \in Nat, n \in Nat, k \in 0..2
    <3>2. room >= 4 * ((g + l) \div 3)
      BY ONLY <1>1, <2>1, Len(h) = g, <1>2
    <3> QED BY ONLY <3>1, <3>2
  <2>4. NoHoldover(in, room, h) = Result("Ok", Len(in), 4 * n, Encoded(in), Rest(in))
    <3>1. room \in Int
      OBVIOUS
    <3> QED BY ONLY <2>2, <2>3, <3>1, NoHoldoverExact, in \in Seq(Byte), n \in Nat, k \in 0..2
  <2>5. 4 * n = Len(Encoded(h \o in))
    BY ONLY <2>1, <2>2, PartsAre, in \in Seq(Byte), n \in Nat, k \in 0..2
  <2>6. Encode(in, room, h) = NoHoldover(in, room, h)
    <3>1. Len(h) = 0
      BY ONLY <1>4, Len(h) = g
    <3> QED BY ONLY <1>4, <3>1 DEF Encode
  <2> QED BY ONLY <2>1, <2>4, <2>5, <2>6, AllOrNothing, in \in Seq(Byte), h \in Seq(Byte),
     g \in 0..2, Len(h) = g
<1>5. CASE in # <<>> /\ g = 1
  <2>1. Encode(in, room, h) = OneHoldover(in, room, h)
    <3>1. Len(h) = 1 /\ ~ Len(h) = 0 /\ ~ Len(h) = 2
      BY <1>5
    <3> QED BY ONLY <1>5, <3>1 DEF Encode
  <2>2. CASE l < 2
    <3>1. l = 1
      BY ONLY <1>1, <1>5, <2>2, EmptySeq, in \in Seq(Byte), l \in Nat
    <3>2. PICK all \in Seq(Byte) : all = h \o in /\ Len(all) = 2
      <4>1. h \o in \in Seq(Byte) /\ Len(h \o in) = Len(h) + Len(in)
        BY ONLY ConcatProperties, h \in Seq(Byte), in \in Seq(Byte)
      <4>2. Len(h) + Len(in) = 2
        BY <1>1, <1>5, <3>1
      <4> QED BY ONLY <4>1, <4>2
    <3>3. Encoded(all) = <<>> /\ Rest(all) = all
      <4>1. PICK two \in 0..2 : Len(all) = two
        BY <3>2
      <4> QED BY ONLY <4>1, FewBytes, all \in Seq(Byte)
    <3>4. OneHoldover(in, room, h) = Result("Ok", Len(in), 0, Encoded(h \o in), Rest(h \o in))
      <4>1. Len(in) < 2 /\ Len(in) = 1
        BY ONLY <1>1, <2>2, <3>1
      <4> QED BY ONLY <3>2, <3>3, <4>1 DEF OneHoldover
    <3>5. 0 = Len(Encoded(h \o in))
      BY ONLY <3>2, <3>3, EmptySeq
    <3> QED BY ONLY <2>1, <3>4, <3>5, AllOrNothing, in \in Seq(Byte), h \in Seq(Byte),
       g \in 0..2, Len(h) = g
  <2>3. CASE ~ l < 2
    <3>1. OneHoldover(in, room, h) = WithHoldover(in, room, h, 2)
      BY ONLY <1>1, <2>3 DEF OneHoldover
    <3>2. CASE room < 4
      <4>1. WithHoldover(in, room, h, 2) = Result("OutputBufferFull", 0, 0, <<>>, h)
        BY ONLY <3>2 DEF WithHoldover
      <4> QED BY ONLY <2>1, <3>1, <4>1, AllOrNothing, in \in Seq(Byte), h \in Seq(Byte),
         g \in 0..2, Len(h) = g
    <3>3. CASE ~ room < 4
      <4>1. PICK j \in {1, 2} : j = 2
        OBVIOUS
      <4>2. Len(h) + j = 3 /\ j <= Len(in)
        BY ONLY <1>1, <1>5, <2>3, <4>1, Len(h) = g, l \in Nat
      <4>3. \E output \in Nat :
                /\ output = Len(Encoded(h \o in))
                /\ WithHoldover(in, room, h, j)
                       = Result("Ok", Len(in), output, Encoded(h \o in), Rest(h \o in))
        BY ONLY <3>3, <4>2, WithHoldoverExact, in \in Seq(Byte), room \in Nat,
           h \in Seq(Byte), j \in {1, 2},
                <1>2
      <4> QED BY ONLY <2>1, <3>1, <4>1, <4>3, AllOrNothing, in \in Seq(Byte), h \in Seq(Byte),
         g \in 0..2, Len(h) = g
    <3> QED BY ONLY <3>2, <3>3
  <2> QED BY ONLY <2>2, <2>3
<1>6. CASE in # <<>> /\ g = 2
  <2>1. Encode(in, room, h) = WithHoldover(in, room, h, 1)
    <3>1. Len(h) = 2 /\ ~ Len(h) = 0 /\ ~ Len(h) = 1
      BY <1>6
    <3> QED BY ONLY <1>6, <3>1 DEF Encode, TwoHoldover
  <2>2. CASE room < 4
    <3>1. WithHoldover(in, room, h, 1) = Result("OutputBufferFull", 0, 0, <<>>, h)
      BY ONLY <2>2 DEF WithHoldover
    <3> QED BY ONLY <2>1, <3>1, AllOrNothing, in \in Seq(Byte), h \in Seq(Byte), g \in 0..2,
       Len(h) = g
  <2>3. CASE ~ room < 4
    <3>1. PICK j \in {1, 2} : j = 1
      OBVIOUS
    <3>2. Len(h) + j = 3 /\ j <= Len(in)
      <4>1. Len(in) # 0
        BY ONLY <1>6, EmptySeq, in \in Seq(Byte)
      <4> QED BY <1>1, <1>6, <3>1, <4>1
    <3>3. \E output \in Nat :
              /\ output = Len(Encoded(h \o in))
              /\ WithHoldover(in, room, h, j)
                     = Result("Ok", Len(in), output, Encoded(h \o in), Rest(h \o in))
      BY ONLY <2>3, <3>2, WithHoldoverExact, in \in Seq(Byte), room \in Nat, h \in Seq(Byte),
         j \in {1, 2},
              <1>2
    <3> QED BY ONLY <2>1, <3>1, <3>3, AllOrNothing, in \in Seq(Byte), h \in Seq(Byte),
       g \in 0..2, Len(h) = g
  <2> QED BY ONLY <2>2, <2>3
<1> QED BY ONLY <1>3, <1>4, <1>5, <1>6, g \in 0..2

\* A call of finish does as encode does, and says "Ok" only when the padding
\* is written, too, and nothing is held over.
LEMMA FinishExact ==
    ASSUME NEW in \in Seq(Byte), NEW room \in Nat, NEW h \in Seq(Byte), NEW g \in 0..2, Len(h) = g,
           \/ room >= 4 * ((Len(h) + Len(in)) \div 3)
           \/ h # <<>> /\ room < 4
    PROVE  LET r == Finish(in, room, h)
               all == h \o SubSeq(in, 1, r.processed)
           IN /\ r.processed \in 0..Len(in) /\ r.written \in Chars /\ r.output = Len(r.written)
              /\ r.status = "Ok" => r.written = Encoding(all) /\ r.held = <<>>
              /\ r.status # "Ok" => r.written = Encoded(all) /\ r.held = Rest(all)
<1> DEFINE e == Encode(in, room, h)
           r == Finish(in, room, h)
<1>1. Exact(in, h, e)
  BY EncodeExact
<1>2. PICK status, p, o, w, left : /\ e = Result(status, p, o, w, left)
                                   /\ status = e.status /\ p = e.processed /\ o = e.output
                                   /\ w = e.written /\ left = e.held
  BY ONLY <1>1 DEF Exact
<1>3. /\ status \in {"Ok", "OutputBufferFull"} /\ p \in 0..Len(in) /\ w \in Chars /\ o = Len(w)
      /\ w = Encoded(h \o SubSeq(in, 1, p)) /\ left = Rest(h \o SubSeq(in, 1, p))
  BY ONLY <1>1, <1>2 DEF Exact
<1>4. PICK all \in Seq(Byte) : all = h \o SubSeq(in, 1, p)
  <2>1. PICK j \in 0..Len(in) : j = p
    BY ONLY <1>3
  <2>2. SubSeq(in, 1, j) \in Seq(Byte)
    BY ONLY FirstIs, in \in Seq(Byte), j \in 0..Len(in)
  <2>3. h \o SubSeq(in, 1, j) \in Seq(Byte)
    BY ONLY <2>2, ConcatProperties, h \in Seq(Byte)
  <2> QED BY ONLY <2>1, <2>3
<1>5. /\ Encoding(all) = IF left = <<>> THEN w ELSE w \o Padded(left)
      /\ left # <<>> => Padded(left) \in Chars /\ Len(Padded(left)) = 4
  <2>1. Encoding(all) = IF Rest(all) = <<>> THEN Encoded(all) ELSE Encoded(all) \o Padded(Rest(all))
    BY ONLY EncodingIs, all \in Seq(Byte)
  <2>2. Rest(all) # <<>> => Padded(Rest(all)) \in Chars /\ Len(Padded(Rest(all))) = 4
    <3>1. PICK n \in Nat, k \in 0..2 : Len(all) = 3 * n + k
      BY ONLY WholeIs, all \in Seq(Byte)
    <3>2. Rest(all) \in Seq(Byte) /\ Len(Rest(all)) = k
      BY ONLY <3>1, PartsAre, all \in Seq(Byte), n \in Nat, k \in 0..2
    <3>3. Rest(all) # <<>> => k \in {1, 2}
      BY ONLY <3>2, EmptySeq, k \in 0..2
    <3> QED BY ONLY <3>2, <3>3, PaddedAdds
  <2> QED BY ONLY <1>3, <1>4, <2>1, <2>2
<1>6. CASE status = "OutputBufferFull"
  <2>1. r = Result(status, p, o, w, left)
    BY ONLY <1>2, <1>6 DEF Finish, Result
  <2>2. r.status # "Ok" /\ r.processed = p /\ r.output = o /\ r.written = w /\ r.held = left
    BY ONLY <1>6, <2>1 DEF Result
  <2> QED BY ONLY <1>3, <2>2
<1>7. CASE status = "Ok" /\ left = <<>>
  <2>1. r = [Result(status, p, o, w, left) EXCEPT !.status = "Ok"]
    BY ONLY <1>2, <1>7 DEF Finish, Result
  <2>2. r.status = "Ok" /\ r.processed = p /\ r.output = o /\ r.written = w /\ r.held = <<>>
    BY ONLY <1>7, <2>1 DEF Result
  <2> QED BY ONLY <1>3, <1>4, <1>5, <1>7, <2>2
<1>8. CASE status = "Ok" /\ left # <<>> /\ room - o < 4
  <2>1. r = [Result(status, p, o, w, left) EXCEPT !.status = "OutputBufferFull"]
    BY ONLY <1>2, <1>8 DEF Finish, Result
  <2>2. r.status # "Ok" /\ r.processed = p /\ r.output = o /\ r.written = w /\ r.held = left
    BY ONLY <1>8, <2>1 DEF Result
  <2> QED BY ONLY <1>3, <2>2
<1>9. CASE status = "Ok" /\ left # <<>> /\ ~ room - o < 4
  <2>1. r = [Result(status, p, o, w, left) EXCEPT !.status = "Ok", !.output = @ + 4,
                                                  !.written = @ \o Padded(left), !.held = <<>>]
    BY ONLY <1>2, <1>9 DEF Finish, Result
  <2>2. /\ r.status = "Ok" /\ r.processed = p /\ r.output = o + 4 /\ r.written = w \o Padded(left)
        /\ r.held = <<>>
    BY ONLY <1>9, <2>1 DEF Result
  <2>3. w \o Padded(left) \in Chars /\ Len(w \o Padded(left)) = o + 4
    <3>1. PICK S : Chars = Seq(S)
      BY DEF Chars
    <3>2. PICK q : q = Padded(left) /\ q \in Seq(S) /\ Len(q) = 4 /\ w \in Seq(S) /\ o = Len(w)
      BY ONLY <1>3, <1>5, <1>9, <3>1
    <3>3. w \o q \in Seq(S) /\ Len(w \o q) = Len(w) + Len(q)
      BY ONLY <3>2, ConcatProperties
    <3> QED BY ONLY <3>1, <3>2, <3>3
  <2> QED BY ONLY <1>3, <1>4, <1>5, <1>9, <2>2, <2>3
<1> QED BY ONLY <1>3, <1>6, <1>7, <1>8, <1>9

\* The same for the encoding of everything.
LEMMA GoingOnToTheEnd ==
    ASSUME NEW s \in Seq(Byte), NEW x \in Seq(Byte)
    PROVE  Encoding(s \o x) = Encoded(s) \o Encoding(Rest(s) \o x)
<1>1. /\ Encoded(s \o x) = Encoded(s) \o Encoded(Rest(s) \o x)
      /\ Rest(s \o x) = Rest(Rest(s) \o x)
  BY GoingOn
<1>2. PICK n \in Nat, k \in 0..2 : Len(s) = 3 * n + k
  BY ONLY WholeIs, s \in Seq(Byte)
<1>3. Rest(s) \in Seq(Byte) /\ Encoded(s) \in Chars
  BY ONLY <1>2, PartsAre, s \in Seq(Byte), n \in Nat, k \in 0..2
<1>4. PICK a \in Seq(Byte), b \in Seq(Byte) : a = s \o x /\ b = Rest(s) \o x
  BY ONLY <1>3, ConcatProperties, s \in Seq(Byte), x \in Seq(Byte)
<1>5. /\ Encoding(a) = IF Rest(a) = <<>> THEN Encoded(a) ELSE Encoded(a) \o Padded(Rest(a))
      /\ Encoding(b) = IF Rest(b) = <<>> THEN Encoded(b) ELSE Encoded(b) \o Padded(Rest(b))
      /\ Rest(b) # <<>> => Padded(Rest(b)) \in Chars
  BY ONLY EncodingIs, a \in Seq(Byte), b \in Seq(Byte)
<1>6. Encoded(b) \in Chars
  <2>1. PICK m \in Nat, l \in 0..2 : Len(b) = 3 * m + l
    BY ONLY WholeIs, b \in Seq(Byte)
  <2> QED BY ONLY <2>1, PartsAre, b \in Seq(Byte), m \in Nat, l \in 0..2
<1>7. Rest(b) # <<>> =>
          (Encoded(s) \o Encoded(b)) \o Padded(Rest(b)) = Encoded(s) \o (Encoded(b) \o Padded(Rest(b)))
  BY ONLY <1>3, <1>5, <1>6, CharsRegrouped
<1> QED BY ONLY <1>1, <1>4, <1>5, <1>7

-----------------------------------------------------------------------------
(* Invariants of a stream.                                                 *)

Input == Seq(Byte)
Output == Seq(Nat)
Ops == {"none", "compress_partial", "compress_buffer", "finish"}

CallType == [op : Ops, given : Input, in : Input, room : Nat, written : Output]

StreamTypes ==
    /\ kind \in Kinds /\ held \in Input /\ ended \in BOOLEAN /\ call \in CallType
    /\ source \in Input /\ sink \in Output /\ phase \in {"encoding", "finishing", "done"}

\* Base64 holds over what its groups leave.
Base64Inv ==
    kind = "base64" =>
        /\ call = NoCall /\ phase # "finishing"
        /\ phase = "done" => held = <<>> /\ sink = Encoding(source)
        /\ phase = "encoding" => sink = Encoded(source) /\ held = Rest(source)

\* A compressor's codes and what it holds over are all it was given.
ExactSoFar(all, codes, h) ==
    \E n \in 0..Len(all) : h = From(all, n) /\ Decodes(codes, SubSeq(all, 1, n))

ProgressInv ==
    kind # "base64" => ExactSoFar(source \o Passed(call), sink \o call.written, held)

Untouched == call.in = call.given /\ call.written = <<>>

\* The input that is left is the end of what the call was given; a finish
\* that could not report what it did is one that did nothing.
CallInv ==
    /\ Len(call.in) <= Len(call.given) /\ call.given = Passed(call) \o call.in
    /\ call.op = "finish" =>
           \/ call.room > Len(held) + Len(call.in) + 1
           \/ kind = "zlib" /\ call.room = 0 /\ Untouched
           \/ kind = "zstd" /\ call.given = <<>>

DoneInv ==
    /\ ended <=> kind = "zlib" /\ phase = "done"
    /\ kind # "base64" /\ phase = "done" =>
           /\ held = <<>> /\ sink # <<>> /\ Last(sink) = End /\ Untouched
           /\ kind = "zstd" => call = NoCall
           /\ call.op = "finish" => call.given = <<>>

StreamInv == StreamTypes /\ Base64Inv /\ ProgressInv /\ CallInv /\ DoneInv

-----------------------------------------------------------------------------
(* What codes decode to.                                                   *)

Codes(bytes) == [i \in 1..Len(bytes) |-> Code(bytes[i])]

LEMMA CodesAre ==
    ASSUME NEW bytes \in Seq(Byte)
    PROVE  /\ Codes(bytes) \in Seq(Nat) /\ Len(Codes(bytes)) = Len(bytes)
           /\ \A i \in 1..Len(bytes) : Codes(bytes)[i] = Code(bytes[i]) /\ Code(bytes[i]) # End
<1>1. PICK l \in Nat : l = Len(bytes)
  BY LenProperties
<1>2. ASSUME NEW i \in 1..l PROVE Code(bytes[i]) \in Nat /\ Code(bytes[i]) # End
  <2>1. PICK b \in 0..255 : b = bytes[i]
    BY <1>1, ElementOfSeq DEF Byte
  <2>2. 256 + b \in Nat /\ 256 + b # 0
    OBVIOUS
  <2> QED BY ONLY <2>1, <2>2 DEF Code, End
<1>3. PICK f \in [1..l -> Nat] : f = Codes(bytes)
  BY ONLY <1>1, <1>2 DEF Codes
<1>4. f \in Seq(Nat) /\ Len(f) = l
  BY ONLY SequenceOf, l \in Nat, f \in [1..l -> Nat]
<1> QED BY ONLY <1>1, <1>2, <1>3, <1>4 DEF Codes

\* The codes up to one are finitely many, and no more than up to a later one.
LEMMA CodesUpToIs ==
    ASSUME NEW codes, NEW i \in Nat, NEW j \in Nat, i <= j
    PROVE  /\ IsFiniteSet(CodesUpTo(codes, i)) /\ Cardinality(CodesUpTo(codes, i)) \in Nat
           /\ Cardinality(CodesUpTo(codes, i)) <= Cardinality(CodesUpTo(codes, j))
           /\ i \in CodesUpTo(codes, i) => Cardinality(CodesUpTo(codes, i)) # 0
<1>1. IsFiniteSet(1..i) /\ IsFiniteSet(1..j)
  BY FS_Interval
<1>2. CodesUpTo(codes, i) \subseteq 1..i /\ CodesUpTo(codes, j) \subseteq 1..j
  BY DEF CodesUpTo
<1>3. CodesUpTo(codes, i) \subseteq CodesUpTo(codes, j)
  BY DEF CodesUpTo
<1>4. IsFiniteSet(CodesUpTo(codes, i)) /\ IsFiniteSet(CodesUpTo(codes, j))
  BY ONLY <1>1, <1>2, FS_Subset
<1>5. /\ Cardinality(CodesUpTo(codes, i)) \in Nat
      /\ Cardinality(CodesUpTo(codes, i)) <= Cardinality(CodesUpTo(codes, j))
  BY ONLY <1>3, <1>4, FS_Subset, FS_CardinalityType
<1>6. Cardinality(CodesUpTo(codes, i)) = 0 => CodesUpTo(codes, i) = {}
  BY ONLY <1>4, FS_EmptySet
<1> QED BY ONLY <1>4, <1>5, <1>6

\* Further codes of bytes decode to further bytes.
LEMMA DecodesMore ==
    ASSUME NEW codes \in Seq(Nat), NEW bytes \in Seq(Byte), NEW more \in Seq(Byte),
           Decodes(codes, bytes)
    PROVE  Decodes(codes \o Codes(more), bytes \o more)
<1>1. PICK l \in Nat, j \in Nat, m \in Nat : l = Len(codes) /\ j = Len(more) /\ m = Len(bytes)
  BY LenProperties
<1>2. PICK d \in Seq(Nat) : /\ d = codes \o Codes(more) /\ Len(d) = l + j
                            /\ \A i \in 1..l : d[i] = codes[i]
                            /\ \A i \in 1..j : d[l + i] = Code(more[i]) /\ d[l + i] # End
  <2>1. PICK t \in Seq(Nat) : /\ t = Codes(more) /\ Len(t) = j
                              /\ \A i \in 1..j : t[i] = Code(more[i]) /\ Code(more[i]) # End
    BY ONLY <1>1, CodesAre, more \in Seq(Byte)
  <2>2. PICK d \in Seq(Nat) :
            /\ d = codes \o t /\ Len(d) = Len(codes) + Len(t)
            /\ \A i \in 1..Len(codes) + Len(t) : d[i] = IF i <= Len(codes) THEN codes[i] ELSE t[i - Len(codes)]
    <3>1. \E d \in Seq(Nat) : d = codes \o t /\ IsJoined(d, codes, t)
      BY ONLY Joined, codes \in Seq(Nat), t \in Seq(Nat)
    <3> QED BY ONLY <3>1 DEF IsJoined
  <2>3. /\ Len(d) = l + j
        /\ \A i \in 1..l + j : d[i] = IF i <= l THEN codes[i] ELSE t[i - l]
    BY ONLY <1>1, <2>1, <2>2
  <2>4. /\ \A i \in 1..l : i \in 1..l + j /\ i <= l
        /\ \A i \in 1..j : l + i \in 1..l + j /\ ~ l + i <= l /\ l + i - l = i
    OBVIOUS
  <2>5. /\ \A i \in 1..l : d[i] = codes[i]
        /\ \A i \in 1..j : d[l + i] = t[i]
    <3>1. ASSUME NEW i \in 1..l PROVE d[i] = codes[i]
      BY ONLY <2>3, <2>4, i \in 1..l
    <3>2. ASSUME NEW i \in 1..j PROVE d[l + i] = t[i]
      <4>1. l + i \in 1..l + j /\ ~ l + i <= l /\ l + i - l = i
        BY ONLY <2>4, i \in 1..j
      <4>2. d[l + i] = IF l + i <= l THEN codes[l + i] ELSE t[l + i - l]
        BY ONLY <2>3, <4>1
      <4> QED BY ONLY <4>1, <4>2
    <3> QED BY ONLY <3>1, <3>2
  <2>6. \A i \in 1..j : d[l + i] = Code(more[i]) /\ d[l + i] # End
    BY ONLY <2>1, <2>5
  <2>7. d = codes \o Codes(more)
    BY ONLY <2>1, <2>2
  <2> QED BY ONLY <2>3, <2>5, <2>6, <2>7, d \in Seq(Nat)
<1>3. PICK b \in Seq(Byte) : /\ b = bytes \o more /\ Len(b) = m + j
                             /\ \A i \in 1..m : b[i] = bytes[i]
                             /\ \A i \in 1..j : b[m + i] = more[i]
  <2>1. PICK b \in Seq(Byte) :
            /\ b = bytes \o more /\ Len(b) = Len(bytes) + Len(more)
            /\ \A i \in 1..Len(bytes) + Len(more) :
                   b[i] = IF i <= Len(bytes) THEN bytes[i] ELSE more[i - Len(bytes)]
    <3>1. \E b \in Seq(Byte) : b = bytes \o more /\ IsJoined(b, bytes, more)
      BY ONLY Joined, bytes \in Seq(Byte), more \in Seq(Byte)
    <3> QED BY ONLY <3>1 DEF IsJoined
  <2>2. /\ Len(b) = m + j
        /\ \A i \in 1..m + j : b[i] = IF i <= m THEN bytes[i] ELSE more[i - m]
    BY ONLY <1>1, <2>1
  <2>3. /\ \A i \in 1..m : i \in 1..m + j /\ i <= m
        /\ \A i \in 1..j : m + i \in 1..m + j /\ ~ m + i <= m /\ m + i - m = i
    OBVIOUS
  <2>4. /\ \A i \in 1..m : b[i] = bytes[i]
        /\ \A i \in 1..j : b[m + i] = more[i]
    BY ONLY <2>2, <2>3
  <2> QED BY ONLY <2>1, <2>2, <2>4
<1>4. ASSUME NEW i \in 0..l PROVE CodesUpTo(d, i) = CodesUpTo(codes, i)
  <2>1. \A k \in 1..i : d[k] = codes[k]
    BY <1>2
  <2> QED BY ONLY <2>1 DEF CodesUpTo
<1>5. /\ Cardinality(CodesUpTo(codes, l)) = m
      /\ \A i \in CodesUpTo(codes, l) : codes[i] = Code(bytes[Cardinality(CodesUpTo(codes, i))])
  BY <1>1 DEF Decodes
<1>6. ASSUME NEW i \in 0..j PROVE Cardinality(CodesUpTo(d, l + i)) = m + i
  <2>1. CodesUpTo(d, l + i) = CodesUpTo(codes, l) \cup (l + 1 .. l + i)
    <3>1. ASSUME NEW k \in 1..l + i
          PROVE  d[k] # End <=> k \in CodesUpTo(codes, l) \/ k \in l + 1 .. l + i
      <4>1. CASE k <= l
        <5>1. k \in 1..l /\ ~ k \in l + 1 .. l + i
          BY ONLY <4>1, k \in 1..l + i, l \in Nat, i \in 0..j, j \in Nat
        <5>2. d[k] = codes[k]
          BY ONLY <1>2, <5>1
        <5> QED BY ONLY <5>1, <5>2 DEF CodesUpTo
      <4>2. CASE ~ k <= l
        <5>1. k - l \in 1..j /\ l + (k - l) = k /\ k \in l + 1 .. l + i
          BY ONLY <4>2, k \in 1..l + i, l \in Nat, i \in 0..j, j \in Nat
        <5>2. d[l + (k - l)] # End
          BY ONLY <1>2, <5>1
        <5> QED BY ONLY <5>1, <5>2
      <4> QED BY ONLY <4>1, <4>2
    <3>2. CodesUpTo(codes, l) \subseteq 1..l + i /\ l + 1 .. l + i \subseteq 1..l + i
      BY DEF CodesUpTo
    <3>3. \A k : k \in CodesUpTo(d, l + i) <=> k \in 1..l + i /\ d[k] # End
      BY ONLY TRUE DEF CodesUpTo
    <3> QED BY ONLY <3>1, <3>2, <3>3
  <2>2. CodesUpTo(codes, l) \cap (l + 1 .. l + i) = {}
    BY DEF CodesUpTo
  <2>3. IsFiniteSet(CodesUpTo(codes, l)) /\ Cardinality(CodesUpTo(codes, l)) = m
    BY <1>5, CodesUpToIs
  <2>4. IsFiniteSet(l + 1 .. l + i) /\ Cardinality(l + 1 .. l + i) = i
    <3>1. PICK a \in Int, z \in Int : a = l + 1 /\ z = l + i
      OBVIOUS
    <3>2. IsFiniteSet(a..z) /\ Cardinality(a..z) = IF a > z THEN 0 ELSE z - a + 1
      BY ONLY FS_Interval, a \in Int, z \in Int
    <3>3. (IF a > z THEN 0 ELSE z - a + 1) = i
      BY <3>1
    <3> QED BY ONLY <3>1, <3>2, <3>3
  <2>5. Cardinality(CodesUpTo(codes, l) \cup (l + 1 .. l + i))
            = Cardinality(CodesUpTo(codes, l)) + Cardinality(l + 1 .. l + i)
                  - Cardinality(CodesUpTo(codes, l) \cap (l + 1 .. l + i))
    BY ONLY <2>3, <2>4, FS_Union
  <2>6. Cardinality({}) = 0
    BY FS_EmptySet
  <2>7. m + i - 0 = m + i
    OBVIOUS
  <2> QED BY ONLY <2>1, <2>2, <2>3, <2>4, <2>5, <2>6, <2>7
<1>7. Cardinality(CodesUpTo(d, l + j)) = m + j
  BY <1>6
<1>8. ASSUME NEW i \in CodesUpTo(d, l + j)
      PROVE  d[i] = Code(b[Cardinality(CodesUpTo(d, i))])
  <2>1. i \in 1..l + j /\ d[i] # End
    BY DEF CodesUpTo
  <2>2. CASE i <= l
    <3>1. i \in 1..l /\ i \in 0..l /\ i \in Nat
      BY ONLY <2>1, <2>2, l \in Nat
    <3>2. d[i] = codes[i] /\ CodesUpTo(d, i) = CodesUpTo(codes, i)
      BY ONLY <1>2, <1>4, <3>1
    <3>3. i \in CodesUpTo(codes, l) /\ i \in CodesUpTo(codes, i)
      <4>1. i \in 1..i
        BY ONLY <3>1
      <4> QED BY ONLY <2>1, <3>1, <3>2, <4>1 DEF CodesUpTo
    <3>4. Cardinality(CodesUpTo(codes, i)) \in 1..m
      <4>1. i \in Nat /\ i <= l
        BY ONLY <2>2, <3>1
      <4>2. PICK h \in Nat : h = i
        BY ONLY <4>1
      <4>3. /\ Cardinality(CodesUpTo(codes, h)) \in Nat
            /\ Cardinality(CodesUpTo(codes, h)) <= Cardinality(CodesUpTo(codes, l))
            /\ h \in CodesUpTo(codes, h) => Cardinality(CodesUpTo(codes, h)) # 0
        BY ONLY <4>1, <4>2, CodesUpToIs, h \in Nat, l \in Nat
      <4> QED BY ONLY <1>5, <3>3, <4>2, <4>3, m \in Nat
    <3> QED BY ONLY <1>3, <1>5, <3>2, <3>3, <3>4
  <2>3. CASE ~ i <= l
    <3>1. PICK h \in 1..j : i = l + h
      <4>1. i - l \in 1..j /\ i = l + (i - l)
        BY ONLY <2>1, <2>3, l \in Nat, j \in Nat
      <4> QED BY ONLY <4>1
    <3>2. Cardinality(CodesUpTo(d, i)) = m + h
      <4>1. h \in 0..j
        BY ONLY h \in 1..j, j \in Nat
      <4>2. Cardinality(CodesUpTo(d, l + h)) = m + h
        BY ONLY <1>6, <4>1
      <4>3. PICK q : q = l + h
        OBVIOUS
      <4>4. Cardinality(CodesUpTo(d, q)) = m + h /\ i = q
        BY ONLY <3>1, <4>2, <4>3
      <4> QED BY ONLY <4>4
    <3>3. d[l + h] = Code(more[h]) /\ b[m + h] = more[h]
      BY ONLY <1>2, <1>3, h \in 1..j
    <3>4. d[i] = Code(more[h])
      BY ONLY <3>1, <3>3
    <3>5. b[Cardinality(CodesUpTo(d, i))] = more[h]
      BY ONLY <3>2, <3>3
    <3> QED BY ONLY <3>4, <3>5
  <2> QED BY ONLY <2>2, <2>3
<1> QED BY ONLY <1>2, <1>3, <1>7, <1>8 DEF Decodes

\* The end of a frame is no byte.
LEMMA DecodesEnd ==
    ASSUME NEW codes \in Seq(Nat), NEW bytes \in Seq(Byte), Decodes(codes, bytes)
    PROVE  Decodes(codes \o <<End>>, bytes)
<1>1. PICK l \in Nat : l = Len(codes)
  BY LenProperties
<1>2. PICK d \in Seq(Nat) : /\ d = codes \o <<End>> /\ Len(d) = l + 1
                            /\ d[l + 1] = End /\ \A i \in 1..l : d[i] = codes[i]
  <2>1. PICK t \in Seq(Nat) : t = <<End>> /\ Len(t) = 1 /\ t[1] = End
    <3>1. PICK e \in Nat : e = End
      BY DEF End
    <3>2. <<e>> \in Seq(Nat) /\ Len(<<e>>) = 1 /\ <<e>>[1] = e
      OBVIOUS
    <3> QED BY ONLY <3>1, <3>2
  <2>2. PICK d \in Seq(Nat) :
            /\ d = codes \o t /\ Len(d) = Len(codes) + Len(t)
            /\ \A i \in 1..Len(codes) + Len(t) : d[i] = IF i <= Len(codes) THEN codes[i] ELSE t[i - Len(codes)]
    <3>1. \E d \in Seq(Nat) : d = codes \o t /\ IsJoined(d, codes, t)
      BY ONLY Joined, codes \in Seq(Nat), t \in Seq(Nat)
    <3> QED BY ONLY <3>1 DEF IsJoined
  <2>3. /\ Len(d) = l + 1 /\ \A i \in 1..l + 1 : d[i] = IF i <= l THEN codes[i] ELSE t[i - l]
    BY ONLY <1>1, <2>1, <2>2
  <2>4. /\ l + 1 \in 1..l + 1 /\ ~ l + 1 <= l /\ l + 1 - l = 1
        /\ \A i \in 1..l : i \in 1..l + 1 /\ i <= l
    OBVIOUS
  <2>5. d[l + 1] = t[1] /\ \A i \in 1..l : d[i] = codes[i]
    BY ONLY <2>3, <2>4
  <2> QED BY ONLY <2>1, <2>2, <2>3, <2>5
<1>3. ASSUME NEW i \in 0..l PROVE CodesUpTo(d, i) = CodesUpTo(codes, i)
  <2>1. \A k \in 1..i : d[k] = codes[k]
    BY <1>2
  <2> QED BY ONLY <2>1 DEF CodesUpTo
<1>4. CodesUpTo(d, l + 1) = CodesUpTo(codes, l)
  <2>1. CodesUpTo(d, l + 1) = CodesUpTo(d, l)
    <3>1. \A k \in 1..l + 1 : d[k] # End => k \in 1..l
      BY <1>2
    <3>2. 1..l \subseteq 1..l + 1
      OBVIOUS
    <3> QED BY ONLY <3>1, <3>2 DEF CodesUpTo
  <2> QED BY <1>3, <2>1
<1>5. ASSUME NEW i \in CodesUpTo(codes, l)
      PROVE  d[i] = codes[i] /\ CodesUpTo(d, i) = CodesUpTo(codes, i)
  <2>1. i \in 1..l /\ i \in 0..l
    BY DEF CodesUpTo
  <2> QED BY ONLY <1>2, <1>3, <2>1
<1>6. /\ Cardinality(CodesUpTo(codes, l)) = Len(bytes)
      /\ \A i \in CodesUpTo(codes, l) : codes[i] = Code(bytes[Cardinality(CodesUpTo(codes, i))])
  BY <1>1 DEF Decodes
<1> QED BY ONLY <1>2, <1>4, <1>5, <1>6 DEF Decodes

-----------------------------------------------------------------------------
(* The same facts about inputs and outputs, by name.                       *)

LEMMA InputsJoined ==
    ASSUME NEW a \in Input, NEW b \in Input
    PROVE  a \o b \in Input /\ Len(a) \in Nat /\ Len(a \o b) = Len(a) + Len(b)
BY ConcatProperties, LenProperties DEF Input

LEMMA InputsRegrouped ==
    ASSUME NEW a \in Input, NEW b \in Input, NEW c \in Input
    PROVE  (a \o b) \o c = a \o (b \o c)
BY ConcatAssociative DEF Input

LEMMA OutputsJoined ==
    ASSUME NEW a \in Output, NEW b \in Output
    PROVE  a \o b \in Output
BY ConcatProperties DEF Output

LEMMA OutputsRegrouped ==
    ASSUME NEW a \in Output, NEW b \in Output, NEW c \in Output
    PROVE  (a \o b) \o c = a \o (b \o c)
BY ConcatAssociative DEF Output

LEMMA NoInput ==
    /\ <<>> \in Input /\ Len(<<>>) = 0
    /\ \A a \in Input : a \o <<>> = a /\ <<>> \o a = a /\ (Len(a) = 0 => a = <<>>)
BY EmptySeq, ConcatEmptySeq DEF Input

LEMMA NoOutput ==
    /\ <<>> \in Output /\ <<End>> \in Output /\ \A a \in Output : a \o <<>> = a
<1>1. PICK e \in Nat : e = End
  BY DEF End
<1>2. <<e>> \in Seq(Nat)
  OBVIOUS
<1> QED BY <1>1, <1>2, EmptySeq, ConcatEmptySeq DEF Output

LEMMA InputCut ==
    ASSUME NEW a \in Input, NEW n \in 0..Len(a)
    PROVE  /\ SubSeq(a, 1, n) \in Input /\ Len(SubSeq(a, 1, n)) = n
           /\ From(a, n) \in Input /\ Len(From(a, n)) = Len(a) - n
           /\ SubSeq(a, 1, n) \o From(a, n) = a
<1>1. a \in Seq(Byte)
  BY DEF Input
<1>2. SubSeq(a, 1, n) \in Seq(Byte) /\ Len(SubSeq(a, 1, n)) = n
  BY ONLY <1>1, FirstIs, n \in 0..Len(a)
<1>3. From(a, n) \in Seq(Byte) /\ Len(From(a, n)) = Len(a) - n
  BY ONLY <1>1, FromIs, n \in 0..Len(a)
<1>4. SubSeq(a, 1, n) \o From(a, n) = a
  BY ONLY <1>1, CutAndJoin, n \in 0..Len(a)
<1> QED BY ONLY <1>2, <1>3, <1>4 DEF Input

LEMMA InputSeam ==
    ASSUME NEW a \in Input, NEW b \in Input, NEW n \in 0..Len(b)
    PROVE  /\ Len(a) + n \in 0..Len(a \o b)
           /\ SubSeq(a \o b, 1, Len(a) + n) = a \o SubSeq(b, 1, n)
           /\ From(a \o b, Len(a) + n) = From(b, n)
<1>1. a \in Seq(Byte) /\ b \in Seq(Byte)
  BY DEF Input
<1> QED BY ONLY <1>1, CutAtSeam, n \in 0..Len(b)

LEMMA InputDecoded ==
    ASSUME NEW codes \in Output, NEW a \in Input, Decodes(codes, a)
    PROVE  /\ Decodes(codes \o <<End>>, a)
           /\ \A b \in Input : Codes(b) \in Output /\ Decodes(codes \o Codes(b), a \o b)
<1>1. codes \in Seq(Nat) /\ a \in Seq(Byte)
  BY DEF Input, Output
<1>2. Decodes(codes \o <<End>>, a)
  BY ONLY <1>1, DecodesEnd, Decodes(codes, a)
<1>3. ASSUME NEW b \in Seq(Byte) PROVE Codes(b) \in Seq(Nat) /\ Decodes(codes \o Codes(b), a \o b)
  <2>1. Codes(b) \in Seq(Nat)
    BY ONLY CodesAre, b \in Seq(Byte)
  <2>2. Decodes(codes \o Codes(b), a \o b)
    BY ONLY <1>1, DecodesMore, b \in Seq(Byte), Decodes(codes, a)
  <2> QED BY ONLY <2>1, <2>2
<1> QED BY ONLY <1>2, <1>3 DEF Input, Output

-----------------------------------------------------------------------------
(* One call of a library.                                                  *)

\* Some of the bytes in front, and the others held over.
LEMMA ExactInFront ==
    ASSUME NEW all \in Input, NEW codes, NEW h \in Input
    PROVE  ExactSoFar(all, codes, h)
               <=> \E front \in Input : all = front \o h /\ Decodes(codes, front)
<1>1. ASSUME NEW n \in 0..Len(all), h = From(all, n), Decodes(codes, SubSeq(all, 1, n))
      PROVE  \E front \in Input : all = front \o h /\ Decodes(codes, front)
  BY ONLY <1>1, InputCut, all \in Input, n \in 0..Len(all)
<1>2. ASSUME NEW front \in Input, all = front \o h, Decodes(codes, front)
      PROVE  ExactSoFar(all, codes, h)
  <2>1. PICK z \in 0..Len(h) : z = 0
    <3>1. Len(h) \in Nat
      BY ONLY InputsJoined, h \in Input
    <3> QED BY ONLY <3>1
  <2>2. /\ Len(front) + z \in 0..Len(front \o h)
        /\ SubSeq(front \o h, 1, Len(front) + z) = front \o SubSeq(h, 1, z)
        /\ From(front \o h, Len(front) + z) = From(h, z)
    BY ONLY InputSeam, front \in Input, h \in Input, z \in 0..Len(h)
  <2>3. /\ SubSeq(h, 1, z) \in Input /\ Len(SubSeq(h, 1, z)) = 0
        /\ From(h, z) \in Input /\ SubSeq(h, 1, z) \o From(h, z) = h
    BY ONLY <2>1, InputCut, h \in Input, z \in 0..Len(h)
  <2>4. SubSeq(h, 1, z) = <<>> /\ front \o SubSeq(h, 1, z) = front /\ From(h, z) = h
    BY ONLY <2>3, NoInput, front \in Input
  <2>5. PICK n \in 0..Len(all) : n = Len(front) + z
    BY ONLY <1>2, <2>2
  <2>6. h = From(all, n) /\ SubSeq(all, 1, n) = front
    BY ONLY <1>2, <2>2, <2>4, <2>5
  <2> QED BY ONLY <1>2, <2>6, n \in 0..Len(all) DEF ExactSoFar
<1> QED BY ONLY <1>1, <1>2 DEF ExactSoFar

\* x is taken from the input and the codes of some bytes come out.
LEMMA PassExact ==
    ASSUME NEW all, NEW codes, NEW h, NEW x, NEW y, NEW j,
           all \in Input, codes \in Output, h \in Input, x \in Input, y \in Input,
           y = h \o x, j \in 0..Len(y), ExactSoFar(all, codes, h)
    PROVE  ExactSoFar(all \o x, codes \o Codes(SubSeq(y, 1, j)), From(y, j))
<1>1. PICK front : front \in Input /\ all = front \o h /\ Decodes(codes, front)
  BY ONLY ExactInFront, all \in Input, h \in Input, ExactSoFar(all, codes, h)
<1>2. PICK a, b : /\ a = SubSeq(y, 1, j) /\ b = From(y, j) /\ a \o b = y
                  /\ a \in Input /\ b \in Input
  BY ONLY InputCut, y \in Input, j \in 0..Len(y)
<1>3. PICK f, w : f = front \o a /\ w = all \o x /\ f \in Input /\ w \in Input
  <2>1. front \in Input /\ a \in Input
    BY ONLY <1>1, <1>2
  <2>2. front \o a \in Input
    BY ONLY <2>1, InputsJoined
  <2>3. all \o x \in Input
    BY ONLY InputsJoined, all \in Input, x \in Input
  <2> QED BY ONLY <2>2, <2>3
<1>4. w = f \o b
  <2>1. (front \o h) \o x = front \o (h \o x)
    <3>1. front \in Input
      BY ONLY <1>1
    <3> QED BY ONLY <3>1, InputsRegrouped, h \in Input, x \in Input
  <2>2. (front \o a) \o b = front \o (a \o b)
    <3>1. front \in Input /\ a \in Input /\ b \in Input
      BY ONLY <1>1, <1>2
    <3> QED BY ONLY <3>1, InputsRegrouped
  <2> QED BY ONLY <1>1, <1>2, <1>3, <2>1, <2>2, y = h \o x
<1>5. Decodes(codes \o Codes(a), front \o a)
  <2>1. front \in Input /\ a \in Input /\ Decodes(codes, front)
    BY ONLY <1>1, <1>2
  <2> QED BY ONLY <2>1, InputDecoded, codes \in Output
<1>6. ExactSoFar(w, codes \o Codes(a), b)
  <2>1. w \in Input /\ b \in Input /\ f \in Input /\ w = f \o b /\ Decodes(codes \o Codes(a), f)
    BY ONLY <1>2, <1>3, <1>4, <1>5
  <2> QED BY ONLY <2>1, ExactInFront
<1> QED BY ONLY <1>2, <1>3, <1>6

\* The rest of the input is taken, everything comes out and the frame ends.
LEMMA CloseExact ==
    ASSUME NEW all, NEW codes, NEW h, NEW x, NEW y,
           all \in Input, codes \in Output, h \in Input, x \in Input, y \in Input,
           y = h \o x, ExactSoFar(all, codes, h)
    PROVE  ExactSoFar(all \o x, codes \o (Codes(y) \o <<End>>), <<>>)
<1>1. PICK front : front \in Input /\ all = front \o h /\ Decodes(codes, front)
  BY ONLY ExactInFront, all \in Input, h \in Input, ExactSoFar(all, codes, h)
<1>2. PICK w, none : w = all \o x /\ none = <<>> /\ w \in Input /\ none \in Input
  BY ONLY InputsJoined, NoInput, all \in Input, x \in Input
<1>3. w = front \o y
  <2>1. (front \o h) \o x = front \o (h \o x)
    BY ONLY <1>1, InputsRegrouped, h \in Input, x \in Input
  <2> QED BY ONLY <1>1, <1>2, <2>1, y = h \o x
<1>4. w = w \o none
  BY ONLY <1>2, NoInput
<1>5. PICK c : c = Codes(y) /\ c \in Output
  BY ONLY <1>1, InputDecoded, codes \in Output, y \in Input
<1>6. PICK more : more = codes \o c /\ more \in Output
  BY ONLY <1>5, OutputsJoined, codes \in Output
<1>7. Decodes(more, w)
  BY ONLY <1>1, <1>3, <1>5, <1>6, InputDecoded, codes \in Output, y \in Input
<1>8. Decodes(more \o <<End>>, w)
  BY ONLY <1>2, <1>6, <1>7, InputDecoded
<1>9. (codes \o c) \o <<End>> = codes \o (c \o <<End>>)
  BY ONLY <1>5, NoOutput, OutputsRegrouped, codes \in Output
<1>10. ExactSoFar(w, more \o <<End>>, none)
  BY ONLY <1>2, <1>4, <1>8, ExactInFront
<1> QED BY ONLY <1>2, <1>5, <1>6, <1>9, <1>10
\* A call that goes on, field by field.
LEMMA AfterIs ==
    ASSUME NEW k, NEW out, NEW x, NEW y, NEW z, StreamTypes,
           x = From(call.in, k), y = call.room - Len(out), z = call.written \o out
    PROVE  After(k, out) = [op |-> call.op, given |-> call.given, in |-> x, room |-> y, written |-> z]
<1>1. PICK op, given, in, room, written :
          /\ call = [op |-> op, given |-> given, in |-> in, room |-> room, written |-> written]
  BY DEF StreamTypes, CallType
<1>2. After(k, out) = [call EXCEPT !.in = x, !.room = y, !.written = z]
  BY ONLY x = From(call.in, k), y = call.room - Len(out), z = call.written \o out DEF After
<1>3. PICK c0, c1, c2, c3 :
          /\ c0 = [op |-> op, given |-> given, in |-> in, room |-> room, written |-> written]
          /\ c1 = [op |-> op, given |-> given, in |-> x, room |-> room, written |-> written]
          /\ c2 = [op |-> op, given |-> given, in |-> x, room |-> y, written |-> written]
          /\ c3 = [op |-> op, given |-> given, in |-> x, room |-> y, written |-> z]
  OBVIOUS
<1>4. [c0 EXCEPT !.in = x] = c1 /\ [c1 EXCEPT !.room = y] = c2 /\ [c2 EXCEPT !.written = z] = c3
  BY ONLY <1>3
<1>5. [c0 EXCEPT !.in = x, !.room = y, !.written = z]
          = [[[c0 EXCEPT !.in = x] EXCEPT !.room = y] EXCEPT !.written = z]
  BY ONLY <1>3
<1>6. call = c0 /\ call.op = op /\ call.given = given
  BY ONLY <1>1, <1>3
<1>7. After(k, out) = c3
  BY ONLY <1>2, <1>4, <1>5, <1>6
<1> QED BY ONLY <1>3, <1>6, <1>7

\* The call c and the bytes h held over, after k bytes came in and j codes out.
PassedOn(k, j, c, h) ==
    /\ c \in CallType /\ c.op = call.op /\ c.given = call.given /\ c.room = call.room - j
    /\ Len(c.in) = Len(call.in) - k /\ Len(c.in) <= Len(c.given)
    /\ Passed(c) \in Input /\ c.given = Passed(c) \o c.in
    /\ h \in Input /\ Len(h) = Len(held) + k - j
    /\ ExactSoFar(source \o Passed(c), sink \o c.written, h)

\* The library takes k bytes of the input and gives out j codes: the call
\* stays exact.
LEMMA Passing ==
    ASSUME StreamTypes, CallInv, ProgressInv, kind # "base64",
           NEW k, NEW j, k \in 0..Len(call.in), j \in 0..call.room, j <= Len(held) + k,
           NEW p, p = Pass(k, j), NEW c, c = After(k, p.out)
    PROVE  PassedOn(k, j, c, p.held)
<1>1. PICK op, given, in, room, written :
          /\ call = [op |-> op, given |-> given, in |-> in, room |-> room, written |-> written]
          /\ op \in Ops /\ given \in Input /\ in \in Input /\ room \in Nat /\ written \in Output
  BY DEF StreamTypes, CallType
<1>2. /\ call.op = op /\ call.given = given /\ call.in = in /\ call.room = room
      /\ call.written = written
  BY ONLY <1>1
<1>3. held \in Input /\ source \in Input /\ sink \in Output
  BY DEF StreamTypes
<1>4. k \in 0..Len(in) /\ j \in 0..room /\ j <= Len(held) + k
  BY ONLY <1>2, k \in 0..Len(call.in), j \in 0..call.room, j <= Len(held) + k
<1>5. PICK g, l, h : /\ g = Len(given) /\ l = Len(in) /\ h = Len(held)
                     /\ g \in Nat /\ l \in Nat /\ h \in Nat
  BY ONLY <1>1, <1>3, InputsJoined
<1>6. PICK x : x = SubSeq(in, 1, k) /\ x \in Input /\ Len(x) = k
  BY ONLY <1>1, <1>4, InputCut
<1>7. PICK r : r = From(in, k) /\ r \in Input /\ Len(r) = l - k
  BY ONLY <1>1, <1>4, <1>5, InputCut
<1>8. PICK y : y = held \o x /\ y \in Input /\ Len(y) = h + k
  <2>1. held \in Input /\ x \in Input
    BY ONLY <1>3, <1>6
  <2>2. held \o x \in Input /\ Len(held \o x) = Len(held) + Len(x)
    BY ONLY <2>1, InputsJoined
  <2> QED BY ONLY <1>5, <1>6, <2>2
<1>9. PICK a : a = SubSeq(y, 1, j)
  OBVIOUS
<1>10. PICK b : b = From(y, j)
  OBVIOUS
<1>11. a \in Input /\ b \in Input /\ Len(a) = j /\ Len(b) = h + k - j /\ j \in 0..Len(y)
  <2>1. j \in 0..Len(y)
    BY <1>4, <1>5, <1>8
  <2>2. y \in Input
    BY ONLY <1>8
  <2>3. /\ SubSeq(y, 1, j) \in Input /\ Len(SubSeq(y, 1, j)) = j
        /\ From(y, j) \in Input /\ Len(From(y, j)) = Len(y) - j
    BY ONLY <2>1, <2>2, InputCut
  <2>4. a \in Input /\ Len(a) = j /\ b \in Input /\ Len(b) = Len(y) - j
    BY ONLY <1>9, <1>10, <2>3
  <2>5. Len(y) - j = h + k - j
    BY ONLY <1>4, <1>5, <1>8
  <2> QED BY ONLY <2>1, <2>4, <2>5
<1>12. p.held = b /\ p.out = Codes(a)
  <2>1. p = [out |-> [i \in 1..j |-> Code(y[i])], held |-> b]
    BY ONLY <1>2, <1>6, <1>8, <1>9, <1>10, <1>11, p = Pass(k, j) DEF Pass
  <2>2. p.held = b /\ p.out = [i \in 1..j |-> Code(y[i])]
    BY ONLY <2>1
  <2>3. \A i \in 1..j : a[i] = y[i]
    <3>1. y \in Seq(Byte)
      BY ONLY <1>8 DEF Input
    <3>2. \A i \in 1..j : SubSeq(y, 1, j)[i] = y[i]
      BY ONLY <1>9, <1>10, <1>11, <3>1, FirstIs
    <3> QED BY ONLY <1>9, <1>10, <1>11, <3>2
  <2>4. Codes(a) = [i \in 1..j |-> Code(y[i])]
    BY ONLY <1>9, <1>10, <1>11, <2>3 DEF Codes
  <2> QED BY ONLY <2>2, <2>4
<1>13. Codes(a) \in Output /\ Len(Codes(a)) = j
  <2>1. a \in Seq(Byte)
    BY ONLY <1>9, <1>10, <1>11 DEF Input
  <2> QED BY ONLY <1>9, <1>10, <1>11, <2>1, CodesAre DEF Output
<1>14. PICK w : w = written \o Codes(a) /\ w \in Output
  BY ONLY <1>1, <1>13, OutputsJoined
<1>15. c = [op |-> op, given |-> given, in |-> r, room |-> room - j, written |-> w]
  <2>1. PICK out : out = Codes(a)
    OBVIOUS
  <2>2. PICK n : n = room - j
    OBVIOUS
  <2>3. c = After(k, out)
    BY ONLY <1>12, <2>1, c = After(k, p.out)
  <2>4. r = From(call.in, k) /\ n = call.room - Len(out) /\ w = call.written \o out
    BY ONLY <1>2, <1>7, <1>13, <1>14, <2>1, <2>2
  <2>5. After(k, out) = [op |-> call.op, given |-> call.given, in |-> r, room |-> n, written |-> w]
    BY ONLY <2>4, AfterIs, StreamTypes
  <2> QED BY ONLY <1>2, <2>2, <2>3, <2>5
<1>16. /\ c.op = op /\ c.given = given /\ c.in = r /\ c.room = room - j /\ c.written = w
       /\ room - j \in Nat
  <2>1. room - j \in Nat
    BY <1>1, <1>4
  <2> QED BY ONLY <1>15, <2>1
<1>17. c \in CallType
  BY ONLY <1>1, <1>7, <1>14, <1>15, <1>16 DEF CallType
<1>18. PICK P : /\ P = Passed(call) /\ P \in Input /\ Len(P) = g - l /\ given = P \o in /\ l <= g
  <2>1. l <= g /\ given = Passed(call) \o in
    BY <1>2, <1>5 DEF CallInv
  <2>2. g - l \in 0..Len(given)
    BY ONLY <1>5, <2>1
  <2>3. Passed(call) = SubSeq(given, 1, g - l)
    BY ONLY <1>2, <1>5 DEF Passed
  <2> QED BY ONLY <1>1, <2>1, <2>2, <2>3, InputCut
<1>19. Passed(c) = P \o x /\ P \o x \in Input /\ given = (P \o x) \o r
  <2>1. Passed(c) = SubSeq(given, 1, g - (l - k)) /\ g - (l - k) = Len(P) + k
    <3>1. g - (l - k) = (g - l) + k
      BY <1>4, <1>5
    <3> QED BY ONLY <1>5, <1>7, <1>16, <1>18, <3>1 DEF Passed
  <2>2. SubSeq(P \o in, 1, Len(P) + k) = P \o x
    BY ONLY <1>1, <1>4, <1>6, <1>18, InputSeam
  <2>3. P \o x \in Input
    BY ONLY <1>6, <1>18, InputsJoined
  <2>4. x \o r = in
    BY ONLY <1>1, <1>4, <1>6, <1>7, InputCut
  <2>5. (P \o x) \o r = P \o (x \o r)
    <3>1. P \in Input /\ x \in Input /\ r \in Input
      BY ONLY <1>6, <1>7, <1>18
    <3> QED BY ONLY <3>1, InputsRegrouped
  <2> QED BY ONLY <1>18, <2>1, <2>2, <2>3, <2>4, <2>5
<1>20. ExactSoFar(source \o Passed(c), sink \o c.written, p.held)
  <2>1. PICK all : all = source \o P /\ all \in Input
    BY ONLY <1>3, <1>18, InputsJoined
  <2>2. PICK codes : codes = sink \o written /\ codes \in Output
    BY ONLY <1>1, <1>3, OutputsJoined
  <2>3. ExactSoFar(all, codes, held)
    BY ONLY <1>2, <1>18, <2>1, <2>2, ProgressInv, kind # "base64" DEF ProgressInv
  <2>4. ExactSoFar(all \o x, codes \o Codes(a), b)
    BY ONLY <1>3, <1>6, <1>8, <1>9, <1>10, <1>11, <2>1, <2>2, <2>3, PassExact
  <2>5. all \o x = source \o (P \o x)
    <3>1. source \in Input /\ P \in Input /\ x \in Input
      BY ONLY <1>3, <1>6, <1>18
    <3>2. (source \o P) \o x = source \o (P \o x)
      BY ONLY <3>1, InputsRegrouped
    <3> QED BY ONLY <2>1, <3>2
  <2>6. codes \o Codes(a) = sink \o (written \o Codes(a))
    <3>1. sink \in Output /\ written \in Output /\ Codes(a) \in Output
      BY ONLY <1>1, <1>3, <1>13
    <3>2. (sink \o written) \o Codes(a) = sink \o (written \o Codes(a))
      BY ONLY <3>1, OutputsRegrouped
    <3> QED BY ONLY <2>2, <3>2
  <2> QED BY ONLY <1>12, <1>14, <1>16, <1>19, <2>4, <2>5, <2>6
<1>21. Len(c.in) = Len(call.in) - k /\ Len(c.in) <= Len(c.given)
  <2>1. l - k <= g
    BY ONLY <1>4, <1>5, <1>18
  <2> QED BY ONLY <1>2, <1>5, <1>7, <1>16, <2>1
<1>22. c.given = Passed(c) \o c.in
  BY ONLY <1>16, <1>19
<1>23. p.held \in Input /\ Len(p.held) = Len(held) + k - j
  BY ONLY <1>5, <1>9, <1>10, <1>11, <1>12
<1>24. c.room = call.room - j /\ c.op = call.op /\ c.given = call.given /\ Passed(c) \in Input
  BY ONLY <1>2, <1>16, <1>19
<1> QED BY ONLY <1>17, <1>20, <1>21, <1>22, <1>23, <1>24 DEF PassedOn

\* The frame that is closed encodes all that is left, and ends the output.
LEMMA Closing ==
    ASSUME StreamTypes, CallInv, ProgressInv, kind # "base64",
           NEW codes, codes = sink \o (call.written \o Frame)
    PROVE  /\ Frame \in Output /\ Len(Frame) = Len(held) + Len(call.in) + 1
           /\ source \o call.given \in Input /\ call.written \o Frame \in Output
           /\ ExactSoFar(source \o call.given, codes, <<>>)
           /\ codes \in Output /\ codes # <<>> /\ Last(codes) = End
<1>1. PICK given, in, written :
          /\ given = call.given /\ in = call.in /\ written = call.written
          /\ given \in Input /\ in \in Input /\ written \in Output
  BY DEF StreamTypes, CallType
<1>2. held \in Input /\ source \in Input /\ sink \in Output
  BY DEF StreamTypes
<1>3. PICK y : y = held \o in /\ y \in Input /\ Len(y) = Len(held) + Len(in) /\ Len(y) \in Nat
  <2>1. held \o in \in Input /\ Len(held \o in) = Len(held) + Len(in)
    BY ONLY <1>1, <1>2, InputsJoined
  <2>2. Len(held \o in) \in Nat
    BY ONLY <2>1, InputsJoined
  <2> QED BY ONLY <2>1, <2>2
<1>4. PICK m : m = Codes(y) /\ m \in Output /\ Len(m) = Len(y)
  <2>1. y \in Seq(Byte)
    BY ONLY <1>3 DEF Input
  <2> QED BY ONLY <2>1, CodesAre DEF Output
<1>5. PICK e : e = <<End>> /\ e \in Output /\ Len(e) = 1 /\ e[1] = End
  <2>1. PICK n \in Nat : n = End
    BY DEF End
  <2>2. Len(<<n>>) = 1 /\ <<n>>[1] = n
    OBVIOUS
  <2> QED BY ONLY <2>1, <2>2, NoOutput
<1>6. Frame = m \o e
  <2>1. Remaining = y
    BY ONLY <1>1, <1>3 DEF Remaining
  <2>2. DOMAIN y = 1..Len(y)
    <3>1. y \in Seq(Byte)
      BY ONLY <1>3 DEF Input
    <3> QED BY ONLY <3>1, LenProperties
  <2>3. [i \in DOMAIN y |-> Code(y[i])] = m
    BY ONLY <1>4, <2>2 DEF Codes
  <2> QED BY ONLY <1>5, <2>1, <2>3 DEF Frame
<1>7. PICK P : P = Passed(call) /\ P \in Input /\ given = P \o in
  <2>1. /\ Len(in) <= Len(given) /\ given = Passed(call) \o in
        /\ Passed(call) = SubSeq(given, 1, Len(given) - Len(in))
    BY <1>1 DEF CallInv, Passed
  <2>2. Len(in) \in Nat /\ Len(given) \in Nat
    BY ONLY <1>1, InputsJoined
  <2>3. Len(given) - Len(in) \in 0..Len(given)
    BY ONLY <2>1, <2>2
  <2>4. SubSeq(given, 1, Len(given) - Len(in)) \in Input
    BY ONLY <1>1, <2>3, InputCut
  <2> QED BY ONLY <2>1, <2>4
<1>8. PICK all : all = source \o P /\ all \in Input
  BY ONLY <1>2, <1>7, InputsJoined
<1>9. PICK before : before = sink \o written /\ before \in Output
  BY ONLY <1>1, <1>2, OutputsJoined
<1>10. ExactSoFar(all, before, held)
  BY ONLY <1>1, <1>7, <1>8, <1>9, ProgressInv, kind # "base64" DEF ProgressInv
<1>11. ExactSoFar(all \o in, before \o (Codes(y) \o <<End>>), <<>>)
  <2>1. /\ all \in Input /\ before \in Output /\ held \in Input /\ in \in Input /\ y \in Input
        /\ y = held \o in /\ ExactSoFar(all, before, held)
    BY ONLY <1>1, <1>2, <1>3, <1>8, <1>9, <1>10
  <2> QED BY ONLY <2>1, CloseExact
<1>12. all \o in = source \o given /\ source \o given \in Input
  <2>1. source \in Input /\ P \in Input /\ in \in Input
    BY ONLY <1>1, <1>2, <1>7
  <2>2. (source \o P) \o in = source \o (P \o in)
    BY ONLY <2>1, InputsRegrouped
  <2>3. source \o given \in Input
    BY ONLY <1>1, <1>2, InputsJoined
  <2> QED BY ONLY <1>7, <1>8, <2>2, <2>3
<1>13. PICK f : f = m \o e /\ f \in Output
  BY ONLY <1>4, <1>5, OutputsJoined
<1>14. /\ before \o f = sink \o (written \o f) /\ written \o f \in Output
       /\ sink \o (written \o f) \in Output
  <2>1. sink \in Output /\ written \in Output /\ f \in Output
    BY ONLY <1>1, <1>2, <1>13
  <2>2. (sink \o written) \o f = sink \o (written \o f)
    BY ONLY <2>1, OutputsRegrouped
  <2>3. written \o f \in Output
    BY ONLY <2>1, OutputsJoined
  <2>4. sink \o (written \o f) \in Output
    BY ONLY <2>1, <2>3, OutputsJoined
  <2> QED BY ONLY <1>9, <2>2, <2>3, <2>4
<1>15. codes = before \o f /\ codes \in Output /\ Frame = f
  BY ONLY <1>1, <1>6, <1>13, <1>14, codes = sink \o (call.written \o Frame)
<1>16. codes = (before \o m) \o e
  <2>1. before \in Output /\ m \in Output /\ e \in Output
    BY ONLY <1>4, <1>5, <1>9
  <2>2. (before \o m) \o e = before \o (m \o e)
    BY ONLY <2>1, OutputsRegrouped
  <2> QED BY ONLY <1>13, <1>15, <2>2
<1>17. codes # <<>> /\ Last(codes) = End
  <2>1. PICK a : a = before \o m /\ a \in Output
    BY ONLY <1>4, <1>9, OutputsJoined
  <2>2. a \in Seq(Nat) /\ e \in Seq(Nat)
    BY ONLY <1>5, <2>1 DEF Output
  <2>3. PICK n \in Nat : n = Len(a)
    BY ONLY <2>2, LenProperties
  <2>4. \E c \in Seq(Nat) :
            /\ c = a \o e /\ Len(c) = Len(a) + Len(e)
            /\ \A i \in 1..Len(a) + Len(e) : c[i] = IF i <= Len(a) THEN a[i] ELSE e[i - Len(a)]
    <3>1. \E c \in Seq(Nat) : c = a \o e /\ IsJoined(c, a, e)
      BY ONLY <2>2, Joined
    <3> QED BY ONLY <3>1 DEF IsJoined
  <2>5. /\ codes = a \o e
    BY ONLY <1>16, <2>1
  <2>6. /\ Len(codes) = n + 1 /\ \A i \in 1..n + 1 : codes[i] = IF i <= n THEN a[i] ELSE e[i - n]
    BY ONLY <1>5, <2>3, <2>4, <2>5
  <2>7. n + 1 \in 1..n + 1 /\ ~ n + 1 <= n /\ n + 1 - n = 1 /\ n + 1 # 0
    BY ONLY TRUE
  <2>8. codes[n + 1] = e[1]
    BY ONLY <2>6, <2>7
  <2>9. Len(<<>>) = 0
    BY EmptySeq
  <2> QED BY ONLY <1>5, <2>6, <2>7, <2>8, <2>9 DEF Last
<1>18. Len(Frame) = Len(held) + Len(in) + 1
  <2>1. m \in Seq(Nat) /\ e \in Seq(Nat)
    BY ONLY <1>4, <1>5 DEF Output
  <2>2. Len(m \o e) = Len(m) + Len(e)
    BY ONLY <2>1, ConcatProperties
  <2>3. Len(held) \in Nat /\ Len(in) \in Nat
    BY ONLY <1>1, <1>2, InputsJoined
  <2> QED BY ONLY <1>3, <1>4, <1>5, <1>6, <2>2, <2>3
<1>19. ExactSoFar(source \o given, before \o f, <<>>)
  BY ONLY <1>4, <1>5, <1>11, <1>12, <1>13
<1> QED BY ONLY <1>1, <1>12, <1>13, <1>14, <1>15, <1>17, <1>18, <1>19

-----------------------------------------------------------------------------
(* Every step of a compressor keeps the invariants.                        *)

\* A call that has not begun has passed nothing on.
LEMMA NothingPassed ==
    ASSUME NEW c, c.given \in Input, c.in = c.given
    PROVE  Passed(c) = <<>>
<1>1. PICK g : g = c.given /\ g \in Input
  OBVIOUS
<1>2. PICK z : z = 0
  OBVIOUS
<1>3. Len(g) \in Nat
  BY ONLY <1>1, InputsJoined
<1>4. z \in 0..Len(g) /\ Len(g) - Len(g) = z
  BY ONLY <1>2, <1>3
<1>5. SubSeq(g, 1, z) \in Input /\ Len(SubSeq(g, 1, z)) = z
  BY ONLY <1>1, <1>4, InputCut
<1>6. SubSeq(g, 1, z) = <<>>
  BY ONLY <1>2, <1>5, NoInput
<1> QED BY ONLY <1>1, <1>4, <1>6, c.in = c.given DEF Passed

\* Between two calls nothing is under way.
LEMMA NoCallIs ==
    /\ NoCall \in CallType /\ NoCall.op = "none" /\ NoCall.given = <<>> /\ NoCall.in = <<>>
    /\ NoCall.written = <<>> /\ Passed(NoCall) = <<>>
<1>1. NoCall.given \in Input /\ NoCall.in = NoCall.given
  BY NoInput DEF NoCall
<1>2. Passed(NoCall) = <<>>
  BY ONLY <1>1, NothingPassed
<1>3. NoCall \in CallType
  <2>1. PICK e : e = <<>> /\ e \in Input /\ e \in Output
    BY NoInput, EmptySeq DEF Output
  <2>2. [op |-> "none", given |-> e, in |-> e, room |-> 0, written |-> e] \in CallType
    BY <2>1 DEF CallType, Ops
  <2> QED BY ONLY <2>1, <2>2 DEF NoCall
<1> QED BY <1>2, <1>3 DEF NoCall

\* A result is counted.
LEMMA Returned ==
    ASSUME kind # "base64", kind \in Kinds, UNCHANGED kind, ended' \in BOOLEAN,
           phase' \in {"encoding", "finishing", "done"},
           NEW consumed, NEW output, Return(consumed, output),
           source \o consumed \in Input, sink \o output \in Output, held' \in Input,
           ExactSoFar(source \o consumed, sink \o output, held')
    PROVE  StreamTypes' /\ Base64Inv' /\ ProgressInv' /\ CallInv' /\ Untouched' /\ call' = NoCall
<1>1. call' = NoCall /\ source' = source \o consumed /\ sink' = sink \o output
  BY DEF Return
<1>2. source' \in Input /\ sink' \in Output
  BY <1>1
<1>3. StreamTypes'
  BY <1>1, <1>2, NoCallIs DEF StreamTypes
<1>4. Base64Inv'
  BY DEF Base64Inv
<1>5. ProgressInv'
  <2>1. source' \o <<>> = source'
    BY ONLY <1>2, NoInput
  <2>2. sink' \o <<>> = sink'
    BY ONLY <1>2, NoOutput
  <2>3. ExactSoFar(source', sink', held')
    BY ONLY <1>1, ExactSoFar(source \o consumed, sink \o output, held')
  <2>4. ExactSoFar(source' \o Passed(NoCall), sink' \o NoCall.written, held')
    BY ONLY <2>1, <2>2, <2>3, NoCallIs
  <2> QED BY ONLY <1>1, <2>4 DEF ProgressInv
<1>6. CallInv'
  <2>1. <<>> \o <<>> = <<>> /\ Len(<<>>) <= Len(<<>>)
    BY ONLY NoInput
  <2> QED BY ONLY <1>1, <2>1, NoCallIs DEF CallInv
<1>7. Untouched'
  BY ONLY <1>1, NoCallIs DEF Untouched
<1> QED BY ONLY <1>1, <1>3, <1>4, <1>5, <1>6, <1>7

\* The library is called once more.
LEMMA CalledAgain ==
    ASSUME StreamInv, kind # "base64", phase # "done",
           NEW k, NEW j, k \in 0..Len(call.in), j \in 0..call.room, j <= Len(held) + k,
           call' = After(k, Pass(k, j).out), held' = Pass(k, j).held,
           UNCHANGED <<kind, source, sink, ended, phase>>,
           call.op = "finish" => kind = "zstd"
    PROVE  StreamInv'
<1>1. StreamTypes /\ CallInv /\ ProgressInv /\ DoneInv
  BY DEF StreamInv
<1>2. PICK p, c : p = Pass(k, j) /\ c = After(k, p.out) /\ call' = c /\ held' = p.held
  OBVIOUS
<1>3. /\ c \in CallType /\ c.op = call.op /\ c.given = call.given /\ c.room = call.room - j
      /\ Len(c.in) = Len(call.in) - k /\ Len(c.in) <= Len(c.given)
      /\ c.given = Passed(c) \o c.in
      /\ p.held \in Input /\ Len(p.held) = Len(held) + k - j
      /\ ExactSoFar(source \o Passed(c), sink \o c.written, p.held)
  <2>1. /\ StreamTypes /\ CallInv /\ ProgressInv /\ kind # "base64"
        /\ k \in 0..Len(call.in) /\ j \in 0..call.room /\ j <= Len(held) + k
        /\ p = Pass(k, j) /\ c = After(k, p.out)
    BY ONLY <1>1, <1>2, kind # "base64",
       k \in 0..Len(call.in), j \in 0..call.room, j <= Len(held) + k
  <2>2. PassedOn(k, j, c, p.held)
    BY ONLY <2>1, Passing
  <2> QED BY ONLY <2>2 DEF PassedOn
<1>4. StreamTypes'
  BY <1>1, <1>2, <1>3 DEF StreamTypes
<1>5. Base64Inv'
  BY DEF Base64Inv
<1>6. ProgressInv'
  BY ONLY <1>2, <1>3, UNCHANGED <<kind, source, sink, ended, phase>> DEF ProgressInv
<1>7. ASSUME c.op = "finish"
      PROVE  \/ c.room > Len(p.held) + Len(c.in) + 1
             \/ kind = "zstd" /\ c.given = <<>>
  <2>1. call.room > Len(held) + Len(call.in) + 1 \/ call.given = <<>>
    BY <1>1, <1>3, <1>7 DEF CallInv
  <2>2. ASSUME call.room > Len(held) + Len(call.in) + 1
        PROVE  c.room > Len(p.held) + Len(c.in) + 1
    <3>1. PICK r \in Nat, h \in Nat, l \in Nat :
              r = call.room /\ h = Len(held) /\ l = Len(call.in)
      <4>1. call.room \in Nat /\ call.in \in Input /\ held \in Input
        BY <1>1 DEF StreamTypes, CallType
      <4>2. Len(held) \in Nat /\ Len(call.in) \in Nat
        BY ONLY <4>1, InputsJoined
      <4> QED BY ONLY <4>1, <4>2
    <3>2. PICK m \in Int, n \in Int : m = k /\ n = j
      BY <3>1
    <3>3. r > h + l + 1
      BY ONLY <2>2, <3>1
    <3>4. r - n > (h + m - n) + (l - m) + 1
      BY ONLY <3>3
    <3> QED BY ONLY <1>3, <3>1, <3>2, <3>4
  <2> QED BY <1>3, <1>7, <2>1, <2>2
<1>8. CallInv'
  BY ONLY <1>2, <1>3, <1>7, UNCHANGED <<kind, source, sink, ended, phase>> DEF CallInv
<1>9. DoneInv'
  BY ONLY <1>1, phase # "done", UNCHANGED <<kind, source, sink, ended, phase>> DEF DoneInv
<1> QED BY ONLY <1>4, <1>5, <1>6, <1>8, <1>9 DEF StreamInv

\* The library was called once and the result counts what it did.
LEMMA CalledOnce ==
    ASSUME StreamInv, kind # "base64", phase # "done",
           NEW k, NEW j, k \in 0..Len(call.in), j \in 0..call.room, j <= Len(held) + k,
           NEW c, c = After(k, Pass(k, j).out), held' = Pass(k, j).held,
           NEW consumed, Return(consumed, c.written), consumed = Passed(c),
           UNCHANGED <<kind, ended, phase>>
    PROVE  StreamInv'
<1>1. StreamTypes /\ CallInv /\ ProgressInv /\ DoneInv
  BY DEF StreamInv
<1>2. PICK p : p = Pass(k, j) /\ c = After(k, p.out) /\ held' = p.held
  OBVIOUS
<1>3. /\ c \in CallType /\ consumed \in Input /\ p.held \in Input
      /\ ExactSoFar(source \o consumed, sink \o c.written, p.held)
  <2>1. /\ StreamTypes /\ CallInv /\ ProgressInv /\ kind # "base64"
        /\ k \in 0..Len(call.in) /\ j \in 0..call.room /\ j <= Len(held) + k
        /\ p = Pass(k, j) /\ c = After(k, p.out)
    BY ONLY <1>1, <1>2, kind # "base64",
       k \in 0..Len(call.in), j \in 0..call.room, j <= Len(held) + k
  <2>2. PassedOn(k, j, c, p.held)
    BY ONLY <2>1, Passing
  <2> QED BY ONLY <2>2, consumed = Passed(c) DEF PassedOn
<1>4. PICK output : output = c.written /\ output \in Output
  BY ONLY <1>3 DEF CallType
<1>5. kind \in Kinds /\ source \in Input /\ sink \in Output /\ ended \in BOOLEAN
      /\ phase \in {"encoding", "finishing", "done"}
  BY <1>1 DEF StreamTypes
<1>6. source \o consumed \in Input
  BY ONLY <1>3, <1>5, InputsJoined
<1>7. sink \o output \in Output
  BY ONLY <1>4, <1>5, OutputsJoined
<1>8. /\ UNCHANGED kind /\ ended' \in BOOLEAN /\ phase' \in {"encoding", "finishing", "done"}
      /\ Return(consumed, output) /\ held' \in Input
      /\ ExactSoFar(source \o consumed, sink \o output, held')
  BY ONLY <1>2, <1>3, <1>4, <1>5, Return(consumed, c.written), UNCHANGED <<kind, ended, phase>>
<1>9. StreamTypes' /\ Base64Inv' /\ ProgressInv' /\ CallInv'
  BY ONLY <1>5, <1>6, <1>7, <1>8, kind # "base64", Returned
<1>10. DoneInv'
  BY ONLY <1>1, phase # "done", UNCHANGED <<kind, ended, phase>> DEF DoneInv
<1> QED BY ONLY <1>9, <1>10 DEF StreamInv

\* Nothing is the code of nothing.
LEMMA NothingYet == ExactSoFar(<<>>, <<>>, <<>>)
<1>1. PICK e : e = <<>> /\ e \in Input /\ Len(e) = 0
  BY NoInput
<1>2. CodesUpTo(e, Len(e)) = {}
  BY ONLY <1>1 DEF CodesUpTo
<1>3. Decodes(e, e)
  BY ONLY <1>1, <1>2, FS_EmptySet DEF Decodes
<1>4. e = e \o e
  BY ONLY <1>1, NoInput
<1>5. ExactSoFar(e, e, e)
  BY ONLY <1>1, <1>3, <1>4, ExactInFront
<1> QED BY ONLY <1>1, <1>5

\* What a caller gives is a sequence of bytes.
LEMMA InputsAre ==
    ASSUME NEW in \in Inputs, Source \in Input
    PROVE  in \in Input
<1>1. PICK l : l = Len(Source) /\ l \in Nat
  BY ONLY Source \in Input, InputsJoined
<1>2. PICK m \in Int : m = MaxInput - Len(Source)
  <2>1. MaxInput \in Nat
    BY StreamAssumption DEF StreamAssumption
  <2>2. MaxInput - l \in Int
    BY ONLY <1>1, <2>1
  <2> QED BY ONLY <1>1, <2>2
<1>3. PICK n \in 0..m : in \in [1..n -> Bytes]
  BY <1>2 DEF Inputs
<1>4. in \in [1..n -> Byte] /\ n \in Nat
  <2>1. Bytes \subseteq Byte
    BY StreamAssumption DEF StreamAssumption, Byte
  <2>2. n \in Nat
    BY ONLY m \in Int, n \in 0..m
  <2> QED BY ONLY <1>3, <2>1, <2>2
<1>5. in \in Seq(Byte)
  BY ONLY <1>4, SequenceOf
<1> QED BY ONLY <1>5 DEF Input

\* Nothing has been done.
LEMMA InitKept == ASSUME Init PROVE StreamInv
<1>1. /\ kind \in Kinds /\ held = <<>> /\ ended = FALSE /\ call = NoCall
      /\ source = <<>> /\ sink = <<>> /\ phase = "encoding"
  BY DEF Init
<1>2. <<>> \in Input /\ <<>> \in Output /\ <<>> \o <<>> = <<>> /\ Len(<<>>) = 0
  BY NoInput, NoOutput
<1>3. StreamTypes
  BY <1>1, <1>2, NoCallIs DEF StreamTypes
<1>4. Base64Inv
  <2>1. Encoded(<<>>) = <<>> /\ Rest(<<>>) = <<>>
    BY ONLY NothingEncoded
  <2> QED BY ONLY <1>1, <2>1 DEF Base64Inv
<1>5. ProgressInv
  BY ONLY <1>1, <1>2, NothingYet, NoCallIs DEF ProgressInv
<1>6. CallInv
  <2>1. Len(<<>>) <= Len(<<>>)
    BY ONLY <1>2
  <2> QED BY ONLY <1>1, <1>2, <2>1, NoCallIs DEF CallInv
<1>7. DoneInv
  BY ONLY <1>1 DEF DoneInv
<1> QED BY ONLY <1>3, <1>4, <1>5, <1>6, <1>7 DEF StreamInv

\* A call of a compressor begins.
LEMMA BeginKept ==
    ASSUME StreamInv, Begin, "finish" \in Discipline, "fresh" \in Discipline
    PROVE  StreamInv'
<1>1. StreamTypes /\ CallInv /\ ProgressInv /\ DoneInv
  BY DEF StreamInv
<1>2. PICK op \in {"compress_partial", "compress_buffer", "finish"}, in \in Inputs, room \in Rooms :
          /\ Fresh(op, in) /\ (op = "finish" => Enough(in, room))
          /\ call' = [op |-> op, given |-> in, in |-> in, room |-> room, written |-> <<>>]
          /\ phase' = CASE ended -> phase
                        [] ~ended /\ op = "finish" -> "finishing"
                        [] OTHER -> "encoding"
  BY DEF Begin
<1>3. /\ kind # "base64" /\ call = NoCall /\ source' = Source /\ sink' = Sink
      /\ kind' = kind /\ held' = held /\ ended' = ended
  BY DEF Begin
<1>4. /\ kind \in Kinds /\ held \in Input /\ ended \in BOOLEAN /\ source \in Input /\ sink \in Output
      /\ phase \in {"encoding", "finishing", "done"}
  BY <1>1 DEF StreamTypes
<1>5. Source \in Input /\ Sink \in Output /\ ExactSoFar(Source, Sink, held)
  <2>1. CASE phase = "done" /\ kind # "zlib"
    <3>1. Source = <<>> /\ Sink = <<>> /\ held = <<>>
      BY <1>1, <1>3, <2>1 DEF Source, Sink, Again, DoneInv
    <3> QED BY ONLY <3>1, NothingYet, NoInput, NoOutput
  <2>2. CASE ~ (phase = "done" /\ kind # "zlib")
    <3>1. Source = source /\ Sink = sink
      BY ONLY <2>2 DEF Source, Sink, Again
    <3>2. source \o <<>> = source /\ sink \o <<>> = sink
      BY ONLY <1>4, NoInput, NoOutput
    <3>3. ExactSoFar(source \o <<>>, sink \o <<>>, held)
      BY ONLY <1>1, <1>3, NoCallIs DEF ProgressInv
    <3> QED BY ONLY <1>4, <3>1, <3>2, <3>3
  <2> QED BY ONLY <2>1, <2>2
<1>6. in \in Input
  BY ONLY <1>5, InputsAre, in \in Inputs
<1>7. PICK e : e = <<>> /\ e \in Output
  BY NoOutput
<1>8. /\ call' \in CallType /\ call'.op = op /\ call'.given = in /\ call'.in = in
      /\ call'.room = room /\ call'.written = <<>> /\ op # "none"
  <2>1. op \in Ops /\ room \in Nat
    BY StreamAssumption DEF StreamAssumption, Ops
  <2>2. [op |-> op, given |-> in, in |-> in, room |-> room, written |-> e] \in CallType
    BY ONLY <1>6, <1>7, <2>1 DEF CallType
  <2> QED BY ONLY <1>2, <1>7, <2>2, op \in {"compress_partial", "compress_buffer", "finish"}
<1>9. phase' \in {"encoding", "finishing", "done"} /\ (ended => phase' = phase) /\ (~ended => phase' # "done")
  BY ONLY <1>2, <1>4
<1>10. StreamTypes'
  BY ONLY <1>3, <1>4, <1>5, <1>8, <1>9 DEF StreamTypes
<1>11. Base64Inv'
  BY ONLY <1>3 DEF Base64Inv
<1>12. Passed(call') = <<>>
  BY ONLY <1>6, <1>8, NothingPassed
<1>13. ProgressInv'
  <2>1. Source \o <<>> = Source /\ Sink \o <<>> = Sink
    BY ONLY <1>5, NoInput, NoOutput
  <2>2. ExactSoFar(source' \o Passed(call'), sink' \o call'.written, held')
    BY ONLY <1>3, <1>5, <1>8, <1>12, <2>1
  <2> QED BY ONLY <2>2 DEF ProgressInv
<1>14. Untouched'
  BY ONLY <1>8 DEF Untouched
<1>15. CallInv'
  <2>1. Len(in) <= Len(in)
    <3>1. Len(in) \in Nat
      BY ONLY <1>6, InputsJoined
    <3> QED BY ONLY <3>1
  <2>2. in = <<>> \o in
    BY ONLY <1>6, NoInput
  <2>3. op = "finish" => \/ room > Len(held) + Len(in) + 1
                         \/ kind = "zlib" /\ room = 0
                         \/ kind = "zstd" /\ in = <<>>
    BY ONLY <1>2, "finish" \in Discipline DEF Enough
  <2> QED BY ONLY <1>3, <1>8, <1>12, <1>14, <2>1, <2>2, <2>3 DEF CallInv
<1>16. DoneInv'
  <2>1. CASE ended
    <3>1. kind = "zlib" /\ phase = "done" /\ held = <<>> /\ sink # <<>> /\ Last(sink) = End
      BY ONLY <1>1, <1>3, <2>1 DEF DoneInv
    <3>2. sink' = sink
      BY ONLY <1>3, <3>1 DEF Sink, Again
    <3>3. op = "finish" => in = <<>>
      BY ONLY <1>2, <2>1, "fresh" \in Discipline DEF Fresh
    <3>4. kind # "zstd"
      BY ONLY <3>1
    <3> QED BY ONLY <1>3, <1>8, <1>9, <1>14, <2>1, <3>1, <3>2, <3>3, <3>4 DEF DoneInv
  <2>2. CASE ~ended
    BY ONLY <1>3, <1>9, <2>2 DEF DoneInv
  <2> QED BY ONLY <2>1, <2>2
<1> QED BY ONLY <1>10, <1>11, <1>13, <1>15, <1>16 DEF StreamInv

\* zlib compresses.
LEMMA DeflateKept == ASSUME StreamInv, Deflate PROVE StreamInv'
<1>1. PICK a \in Amounts :
          /\ held' = Pass(a[1], a[2]).held
          /\ \/ Return(Passed(After(a[1], Pass(a[1], a[2]).out)), After(a[1], Pass(a[1], a[2]).out).written)
             \/ call' = After(a[1], Pass(a[1], a[2]).out) /\ UNCHANGED <<source, sink>>
  BY DEF Deflate
<1>2. /\ kind = "zlib" /\ call.op \in {"compress_partial", "compress_buffer"} /\ ~ended
      /\ UNCHANGED <<kind, ended, phase>>
  BY DEF Deflate
<1>3. kind # "base64" /\ call.op # "finish" /\ phase # "done"
  BY <1>2 DEF StreamInv, DoneInv
<1>4. PICK k, j : k = a[1] /\ j = a[2]
  OBVIOUS
<1>5. k \in 0..Len(call.in) /\ j \in 0..call.room /\ j <= Len(held) + k
  BY ONLY <1>4, a \in Amounts DEF Amounts
<1>6. held' = Pass(k, j).held
  BY ONLY <1>1, <1>4
<1>7. CASE call' = After(k, Pass(k, j).out) /\ UNCHANGED <<source, sink>>
  BY ONLY <1>2, <1>3, <1>5, <1>6, <1>7, CalledAgain, StreamInv
<1>8. CASE Return(Passed(After(k, Pass(k, j).out)), After(k, Pass(k, j).out).written)
  <2>1. PICK c, consumed : c = After(k, Pass(k, j).out) /\ consumed = Passed(c)
    OBVIOUS
  <2>2. Return(consumed, c.written)
    BY ONLY <1>8, <2>1
  <2> QED BY ONLY <1>2, <1>3, <1>5, <1>6, <2>1, <2>2, CalledOnce, StreamInv
<1> QED BY ONLY <1>1, <1>4, <1>7, <1>8

\* zstd compresses.
LEMMA ContinueKept == ASSUME StreamInv, Continue PROVE StreamInv'
<1>1. PICK a \in Amounts :
          /\ held' = Pass(a[1], a[2]).held
          /\ \/ Return(Passed(After(a[1], Pass(a[1], a[2]).out)), After(a[1], Pass(a[1], a[2]).out).written)
             \/ call' = After(a[1], Pass(a[1], a[2]).out) /\ UNCHANGED <<source, sink>>
  BY DEF Continue
<1>2. /\ kind = "zstd" /\ call.op \in {"compress_partial", "compress_buffer"}
      /\ UNCHANGED <<kind, ended, phase>>
  BY DEF Continue
<1>3. kind # "base64" /\ call.op # "finish" /\ phase # "done"
  BY <1>2, NoCallIs DEF StreamInv, DoneInv
<1>4. PICK k, j : k = a[1] /\ j = a[2]
  OBVIOUS
<1>5. k \in 0..Len(call.in) /\ j \in 0..call.room /\ j <= Len(held) + k
  BY ONLY <1>4, a \in Amounts DEF Amounts
<1>6. held' = Pass(k, j).held
  BY ONLY <1>1, <1>4
<1>7. CASE call' = After(k, Pass(k, j).out) /\ UNCHANGED <<source, sink>>
  BY ONLY <1>2, <1>3, <1>5, <1>6, <1>7, CalledAgain, StreamInv
<1>8. CASE Return(Passed(After(k, Pass(k, j).out)), After(k, Pass(k, j).out).written)
  <2>1. PICK c, consumed : c = After(k, Pass(k, j).out) /\ consumed = Passed(c)
    OBVIOUS
  <2>2. Return(consumed, c.written)
    BY ONLY <1>8, <2>1
  <2> QED BY ONLY <1>2, <1>3, <1>5, <1>6, <2>1, <2>2, CalledOnce, StreamInv
<1> QED BY ONLY <1>1, <1>4, <1>7, <1>8

\* A finish of zstd goes a part of the way.
LEMMA ZstdFinishPartKept == ASSUME StreamInv, ZstdFinishPart PROVE StreamInv'
<1>1. PICK a \in Amounts :
          /\ held' = Pass(a[1], a[2]).held
          /\ \/ /\ After(a[1], Pass(a[1], a[2]).out).room > 0
                /\ call' = After(a[1], Pass(a[1], a[2]).out) /\ UNCHANGED <<source, sink>>
             \/ /\ ~ After(a[1], Pass(a[1], a[2]).out).room > 0
                /\ Return(<<>>, After(a[1], Pass(a[1], a[2]).out).written)
  BY DEF ZstdFinishPart, FinishCount
<1>2. kind = "zstd" /\ call.op = "finish" /\ UNCHANGED <<kind, ended, phase>>
  BY DEF ZstdFinishPart
<1>3. kind # "base64" /\ phase # "done"
  BY <1>2, NoCallIs DEF StreamInv, DoneInv
<1>4. PICK k, j : k = a[1] /\ j = a[2]
  OBVIOUS
<1>5. k \in 0..Len(call.in) /\ j \in 0..call.room /\ j <= Len(held) + k
  BY ONLY <1>4, a \in Amounts DEF Amounts
<1>6. held' = Pass(k, j).held
  BY ONLY <1>1, <1>4
<1>7. CASE call' = After(k, Pass(k, j).out) /\ UNCHANGED <<source, sink>>
  BY ONLY <1>2, <1>3, <1>5, <1>6, <1>7, CalledAgain, StreamInv
<1>8. ASSUME ~ After(k, Pass(k, j).out).room > 0, Return(<<>>, After(k, Pass(k, j).out).written)
      PROVE  StreamInv'
  <2>1. PICK p, c : p = Pass(k, j) /\ c = After(k, p.out)
    OBVIOUS
  <2>2. PassedOn(k, j, c, p.held)
    <3>1. /\ StreamTypes /\ CallInv /\ ProgressInv /\ kind # "base64"
          /\ k \in 0..Len(call.in) /\ j \in 0..call.room /\ j <= Len(held) + k
          /\ p = Pass(k, j) /\ c = After(k, p.out)
      BY ONLY <1>3, <1>5, <2>1, StreamInv DEF StreamInv
    <3> QED BY ONLY <3>1, Passing
  <2>3. call.given = <<>>
    <3>1. call.room > Len(held) + Len(call.in) + 1 \/ call.given = <<>>
      BY ONLY <1>2, StreamInv DEF StreamInv, CallInv
    <3>2. ~ call.room > Len(held) + Len(call.in) + 1
      <4>1. PICK r \in Nat, h \in Nat, l \in Nat :
                r = call.room /\ h = Len(held) /\ l = Len(call.in)
        <5>1. call.room \in Nat /\ call.in \in Input /\ held \in Input
          BY DEF StreamInv, StreamTypes, CallType
        <5>2. Len(held) \in Nat /\ Len(call.in) \in Nat
          BY ONLY <5>1, InputsJoined
        <5> QED BY ONLY <5>1, <5>2
      <4>2. PICK m \in 0..l, n \in 0..r : m = k /\ n = j /\ n <= h + m
        BY ONLY <1>5, <4>1
      <4>3. c.room = r - n /\ ~ c.room > 0
        BY ONLY <1>8, <2>1, <2>2, <4>1, <4>2 DEF PassedOn
      <4>4. ~ r > h + l + 1
        <5>1. ~ r - n > 0
          BY ONLY <4>3
        <5> QED BY ONLY <4>2, <5>1
      <4> QED BY ONLY <4>1, <4>4
    <3> QED BY ONLY <3>1, <3>2
  <2>4. Passed(c) = <<>>
    <3>1. Passed(c) \in Input /\ c.in \in Input /\ Passed(c) \o c.in = <<>>
      BY ONLY <2>2, <2>3 DEF PassedOn, CallType
    <3>2. PICK x, y : x = Passed(c) /\ y = c.in /\ x \in Input /\ y \in Input /\ Len(x \o y) = 0
      BY ONLY <3>1, NoInput
    <3>3. Len(x \o y) = Len(x) + Len(y) /\ Len(x) \in Nat /\ Len(y) \in Nat
      BY ONLY <3>2, InputsJoined
    <3>4. Len(x) = 0
      BY ONLY <3>2, <3>3
    <3> QED BY ONLY <3>2, <3>4, NoInput
  <2>5. PICK consumed : consumed = <<>>
    OBVIOUS
  <2>6. consumed = Passed(c) /\ c = After(k, Pass(k, j).out) /\ Return(consumed, c.written)
    BY ONLY <1>8, <2>1, <2>4, <2>5
  <2> QED BY ONLY <1>2, <1>3, <1>5, <1>6, <2>6, CalledOnce, StreamInv
<1> QED BY ONLY <1>1, <1>4, <1>7, <1>8

\* A call that did nothing returns nothing.
LEMMA NothingDone ==
    ASSUME StreamInv, kind # "base64", Untouched, NEW none, none = <<>>, Return(none, none),
           UNCHANGED <<kind, held, ended, phase>>
    PROVE  StreamInv'
<1>1. StreamTypes /\ ProgressInv /\ DoneInv
  BY DEF StreamInv
<1>2. /\ kind \in Kinds /\ held \in Input /\ source \in Input /\ sink \in Output /\ ended \in BOOLEAN
      /\ phase \in {"encoding", "finishing", "done"} /\ call.given \in Input
  BY ONLY <1>1 DEF StreamTypes, CallType
<1>3. Passed(call) = <<>> /\ call.written = <<>>
  BY ONLY <1>2, NothingPassed, Untouched DEF Untouched
<1>4. source \o none = source /\ sink \o none = sink
  BY ONLY <1>2, NoInput, NoOutput, none = <<>>
<1>5. ExactSoFar(source \o none, sink \o none, held)
  BY ONLY <1>1, <1>3, kind # "base64", none = <<>> DEF ProgressInv
<1>6. /\ kind # "base64" /\ kind \in Kinds /\ UNCHANGED kind /\ ended' \in BOOLEAN
      /\ phase' \in {"encoding", "finishing", "done"} /\ Return(none, none)
      /\ source \o none \in Input /\ sink \o none \in Output /\ held' \in Input
      /\ ExactSoFar(source \o none, sink \o none, held')
  BY ONLY <1>2, <1>4, <1>5, kind # "base64", Return(none, none),
     UNCHANGED <<kind, held, ended, phase>>
<1>7. /\ StreamTypes' /\ Base64Inv' /\ ProgressInv' /\ CallInv' /\ Untouched' /\ call' = NoCall
  BY ONLY <1>6, Returned
<1>8. sink' = sink
  BY ONLY <1>4, Return(none, none) DEF Return
<1>9. DoneInv'
  BY ONLY <1>1, <1>7, <1>8, NoCallIs, UNCHANGED <<kind, held, ended, phase>> DEF DoneInv
<1> QED BY ONLY <1>7, <1>9 DEF StreamInv

\* The last frame is closed and the result says so.
LEMMA FrameClosed ==
    ASSUME StreamInv, kind # "base64", NEW consumed, consumed = call.given,
           NEW output, output = call.written \o Frame, Return(consumed, output),
           UNCHANGED kind, held' = <<>>, phase' \in {"done", "finishing"},
           ended' <=> kind = "zlib" /\ phase' = "done", ended' \in BOOLEAN
    PROVE  StreamInv'
<1>1. StreamTypes /\ CallInv /\ ProgressInv
  BY DEF StreamInv
<1>2. PICK codes : codes = sink \o output
  OBVIOUS
<1>3. codes = sink \o (call.written \o Frame)
  BY ONLY <1>2, output = call.written \o Frame
<1>4. /\ source \o call.given \in Input /\ ExactSoFar(source \o call.given, codes, <<>>)
      /\ codes \in Output /\ codes # <<>> /\ Last(codes) = End
  BY ONLY <1>1, <1>3, Closing, kind # "base64"
<1>5. <<>> \in Input /\ kind \in Kinds
  BY <1>1, NoInput DEF StreamTypes
<1>6. /\ kind # "base64" /\ kind \in Kinds /\ UNCHANGED kind /\ ended' \in BOOLEAN
      /\ phase' \in {"encoding", "finishing", "done"} /\ Return(consumed, output)
      /\ source \o consumed \in Input /\ sink \o output \in Output /\ held' \in Input
      /\ ExactSoFar(source \o consumed, sink \o output, held')
  BY ONLY <1>2, <1>4, <1>5, kind # "base64", consumed = call.given, Return(consumed, output),
     UNCHANGED kind, held' = <<>>, phase' \in {"done", "finishing"}, ended' \in BOOLEAN
<1>7. /\ StreamTypes' /\ Base64Inv' /\ ProgressInv' /\ CallInv' /\ Untouched' /\ call' = NoCall
  BY ONLY <1>6, Returned
<1>8. sink' = codes
  BY ONLY <1>2, Return(consumed, output) DEF Return
<1>9. DoneInv'
  BY ONLY <1>4, <1>7, <1>8, NoCallIs, UNCHANGED kind, held' = <<>>,
     ended' <=> kind = "zlib" /\ phase' = "done" DEF DoneInv
<1> QED BY ONLY <1>7, <1>9 DEF StreamInv

\* A zlib stream that has ended.
LEMMA DeflateAfterEndKept == ASSUME StreamInv, DeflateAfterEnd PROVE StreamInv'
<1>1. PICK none : none = <<>>
  OBVIOUS
<1>2. kind = "zlib" /\ ended /\ Return(none, none) /\ UNCHANGED <<kind, held, ended, phase>>
  BY <1>1 DEF DeflateAfterEnd
<1>3. kind # "base64" /\ Untouched
  BY <1>2 DEF StreamInv, DoneInv
<1> QED BY ONLY <1>1, <1>2, <1>3, NothingDone, StreamInv

\* zlib finishes.
LEMMA ZlibFinishKept == ASSUME StreamInv, ZlibFinish, "status" \in Discipline PROVE StreamInv'
<1>1. /\ kind = "zlib" /\ call.op = "finish" /\ held' = <<>> /\ ended' = TRUE /\ phase' = "done"
      /\ UNCHANGED kind
  BY DEF ZlibFinish
<1>2. kind # "base64"
  BY ONLY <1>1
<1>3. CASE ended
  <2>1. Untouched /\ held = <<>> /\ phase = "done" /\ ended \in BOOLEAN
    BY <1>1, <1>3 DEF StreamInv, DoneInv, StreamTypes
  <2>2. PICK none : none = <<>>
    OBVIOUS
  <2>3. Return(none, none)
    BY <1>3, <2>1, <2>2 DEF ZlibFinish, Untouched, FinishCount
  <2>4. UNCHANGED <<kind, held, ended, phase>>
    BY ONLY <1>1, <1>3, <2>1
  <2> QED BY ONLY <1>2, <2>1, <2>2, <2>3, <2>4, NothingDone, StreamInv
<1>4. CASE ~ended
  <2>1. PICK consumed, output : consumed = call.given /\ output = call.written \o Frame
    OBVIOUS
  <2>2. Return(consumed, output)
    <3>1. FinishTakes("InputBufferFinished") = call.given
      BY ONLY "status" \in Discipline DEF FinishTakes
    <3> QED BY ONLY <1>4, <2>1, <3>1, ZlibFinish DEF ZlibFinish
  <2> QED BY ONLY <1>1, <1>2, <2>1, <2>2, FrameClosed, StreamInv
<1> QED BY ONLY <1>3, <1>4

\* zlib cannot finish.
LEMMA ZlibFinishFullKept == ASSUME StreamInv, ZlibFinishFull PROVE StreamInv'
<1>1. kind = "zlib" /\ call.op = "finish" /\ UNCHANGED <<kind, ended, phase>>
  BY DEF ZlibFinishFull
<1>2. \/ call.room > Len(held) + Len(call.in) + 1
      \/ call.room = 0 /\ Untouched
  BY ONLY <1>1, StreamInv DEF StreamInv, CallInv
<1>3. PICK r \in Nat, h \in Nat, l \in Nat : r = call.room /\ h = Len(held) /\ l = Len(call.in)
  <2>1. call.room \in Nat /\ call.in \in Input /\ held \in Input
    BY DEF StreamInv, StreamTypes, CallType
  <2>2. Len(held) \in Nat /\ Len(call.in) \in Nat
    BY ONLY <2>1, InputsJoined
  <2> QED BY ONLY <2>1, <2>2
<1>4. call.room = 0
  <2>1. Len(Frame) = Len(held) + Len(call.in) + 1
    <3>1. StreamTypes /\ CallInv /\ ProgressInv /\ kind # "base64"
      BY ONLY <1>1, StreamInv DEF StreamInv
    <3>2. PICK codes : codes = sink \o (call.written \o Frame)
      OBVIOUS
    <3> QED BY ONLY <3>1, <3>2, Closing
  <2>2. call.room = 0 \/ call.room < Len(Frame)
    BY DEF ZlibFinishFull
  <2>3. r = 0 \/ ~ r > h + l + 1
    BY ONLY <1>3, <2>1, <2>2
  <2>4. r > h + l + 1 \/ r = 0
    BY ONLY <1>2, <1>3
  <2> QED BY ONLY <1>3, <2>3, <2>4
<1>5. Untouched
  <2>1. ~ r > h + l + 1
    BY ONLY <1>3, <1>4
  <2> QED BY ONLY <1>2, <1>3, <2>1
<1>6. PICK none : none = <<>>
  OBVIOUS
<1>7. Return(none, none) /\ UNCHANGED held
  BY <1>4, <1>6 DEF ZlibFinishFull, FinishCount
<1>8. kind # "base64" /\ UNCHANGED <<kind, held, ended, phase>>
  BY ONLY <1>1, <1>7
<1> QED BY ONLY <1>5, <1>6, <1>7, <1>8, NothingDone, StreamInv

\* zstd closes the frame.
LEMMA ZstdFinishKept == ASSUME StreamInv, ZstdFinish, "status" \in Discipline PROVE StreamInv'
<1>1. kind = "zstd" /\ call.op = "finish" /\ held' = <<>> /\ UNCHANGED <<kind, ended>>
  BY DEF ZstdFinish
<1>2. PICK consumed, output :
          /\ consumed = (IF call.room > Len(Frame) THEN call.given ELSE <<>>)
          /\ output = call.written \o Frame /\ Return(consumed, output)
          /\ phase' = IF call.room > Len(Frame) THEN "done" ELSE "finishing"
  <2>1. PICK status : status = ZstdFinishStatus
    OBVIOUS
  <2>2. \/ call.room > Len(Frame) /\ status = "InputBufferFinished"
        \/ ~ call.room > Len(Frame) /\ status = "OutputBufferFull"
    BY ONLY <2>1 DEF ZstdFinishStatus
  <2>3. FinishTakes(status) = IF call.room > Len(Frame) THEN call.given ELSE <<>>
    BY ONLY <2>2, "status" \in Discipline DEF FinishTakes, FinishCount
  <2>4. /\ Return(FinishTakes(status), call.written \o Frame)
        /\ phase' = IF status = "InputBufferFinished" THEN "done" ELSE "finishing"
    BY ONLY <2>1, ZstdFinish DEF ZstdFinish
  <2> QED BY ONLY <2>2, <2>3, <2>4
<1>3. consumed = call.given
  <2>1. Len(Frame) = Len(held) + Len(call.in) + 1
    <3>1. StreamTypes /\ CallInv /\ ProgressInv /\ kind # "base64"
      BY ONLY <1>1, StreamInv DEF StreamInv
    <3>2. PICK codes : codes = sink \o (call.written \o Frame)
      OBVIOUS
    <3> QED BY ONLY <3>1, <3>2, Closing
  <2>2. call.room > Len(held) + Len(call.in) + 1 \/ call.given = <<>>
    BY ONLY <1>1, StreamInv DEF StreamInv, CallInv
  <2> QED BY ONLY <1>2, <2>1, <2>2
<1>4. ended' = FALSE
  BY ONLY <1>1, StreamInv DEF StreamInv, DoneInv, StreamTypes
<1>5. /\ kind # "base64" /\ UNCHANGED kind /\ phase' \in {"done", "finishing"}
      /\ (ended' <=> kind = "zlib" /\ phase' = "done") /\ ended' \in BOOLEAN
  BY ONLY <1>1, <1>2, <1>4
<1>6. output = call.written \o Frame /\ Return(consumed, output)
  BY ONLY <1>2
<1> QED BY ONLY <1>1, <1>3, <1>5, <1>6, FrameClosed, StreamInv

\* The characters are outputs.
LEMMA CharsAreOutput == \A c \in Chars : c \in Output
<1> SUFFICES ASSUME NEW c \in Seq(0..64) PROVE c \in Seq(Nat)
  BY DEF Chars, Output
<1>1. PICK l \in Nat : l = Len(c) /\ DOMAIN c = 1..l /\ c \in [1..l -> 0..64]
  BY LenProperties
<1>2. c \in [1..l -> Nat]
  <2>1. 0..64 \subseteq Nat
    OBVIOUS
  <2> QED BY ONLY <1>1, <2>1
<1> QED BY ONLY <1>2, SequenceOf, l \in Nat

\* What is encoded and what is left over are sequences of their kind.
LEMMA PartsInInput ==
    ASSUME NEW b \in Input
    PROVE  Encoded(b) \in Output /\ Rest(b) \in Input /\ \E g \in 0..2 : Len(Rest(b)) = g
<1>1. b \in Seq(Byte)
  BY DEF Input
<1>2. PICK n \in Nat, k \in 0..2 : Len(b) = 3 * n + k
  BY ONLY <1>1, WholeIs
<1>3. Encoded(b) \in Chars /\ Rest(b) \in Seq(Byte) /\ Len(Rest(b)) = k
  BY ONLY <1>1, <1>2, PartsAre, n \in Nat, k \in 0..2
<1>4. Encoded(b) \in Output
  BY ONLY <1>3, CharsAreOutput
<1> QED BY ONLY <1>3, <1>4, k \in 0..2 DEF Input

\* A caller with room for the groups passes its bytes through Base64Encoder.
LEMMA Base64Kept ==
    ASSUME StreamInv, Base64Call, "room" \in Discipline
    PROVE  StreamInv'
<1> DEFINE Gives(in, room, finish, r) ==
               /\ Roomy(in, room) /\ held' = r.held
               /\ source' = Source \o SubSeq(in, 1, r.processed)
               /\ sink' = Sink \o SubSeq(r.written, 1, Min({r.output, Len(r.written)}))
               /\ phase' = IF finish /\ r.status = "Ok" THEN "done" ELSE "encoding"
<1>1. PICK in \in Inputs, room \in Rooms, finish \in BOOLEAN :
          Gives(in, room, finish, IF finish THEN Finish(in, room, held) ELSE Encode(in, room, held))
  BY ONLY ZenonT(30), Base64Call DEF Base64Call
<1> HIDE DEF Gives
<1>2. PICK r :
          /\ r = IF finish THEN Finish(in, room, held) ELSE Encode(in, room, held)
          /\ Roomy(in, room) /\ held' = r.held
          /\ source' = Source \o SubSeq(in, 1, r.processed)
          /\ sink' = Sink \o SubSeq(r.written, 1, Min({r.output, Len(r.written)}))
          /\ phase' = IF finish /\ r.status = "Ok" THEN "done" ELSE "encoding"
  <2>1. \E r : /\ r = IF finish THEN Finish(in, room, held) ELSE Encode(in, room, held)
               /\ Gives(in, room, finish, r)
    BY ONLY <1>1
  <2> QED BY ONLY <2>1 DEF Gives
<1>3. kind = "base64" /\ UNCHANGED <<kind, ended, call>>
  BY DEF Base64Call
<1>4. StreamTypes /\ Base64Inv /\ CallInv /\ DoneInv
  BY DEF StreamInv
<1>5. PICK s : s = Source /\ s \in Input /\ Sink = Encoded(s) /\ held = Rest(s)
  <2>1. phase \in {"encoding", "done"} /\ source \in Input
    BY <1>3, <1>4 DEF StreamTypes, Base64Inv
  <2>2. CASE phase = "done"
    <3>1. Source = <<>> /\ Sink = <<>> /\ held = <<>>
      BY <1>3, <1>4, <2>2 DEF Base64Inv, Source, Sink, Again
    <3> QED BY ONLY <3>1, NoInput, NothingEncoded
  <2>3. CASE phase = "encoding"
    <3>1. Source = source /\ Sink = sink
      BY ONLY <2>3 DEF Source, Sink, Again
    <3> QED BY ONLY <1>3, <1>4, <2>1, <2>3, <3>1 DEF Base64Inv
  <2> QED BY ONLY <2>1, <2>2, <2>3
<1>6. in \in Input /\ room \in Nat
  <2>1. in \in Input
    BY ONLY <1>5, InputsAre, in \in Inputs
  <2> QED BY <2>1, StreamAssumption DEF StreamAssumption
<1>7. PICK g \in 0..2 : Len(held) = g
  BY ONLY <1>5, PartsInInput
<1>8. \/ room >= 4 * ((Len(held) + Len(in)) \div 3)
      \/ held # <<>> /\ room < 4
  BY ONLY <1>2, "room" \in Discipline DEF Roomy
<1>9. in \in Seq(Byte) /\ held \in Seq(Byte)
  <2>1. held \in Input
    BY ONLY <1>5, PartsInInput
  <2> QED BY ONLY <1>6, <2>1 DEF Input
<1>10. /\ r.processed \in 0..Len(in) /\ r.written \in Chars /\ r.output = Len(r.written)
      /\ IF finish /\ r.status = "Ok"
         THEN /\ r.written = Encoding(held \o SubSeq(in, 1, r.processed)) /\ r.held = <<>>
         ELSE /\ r.written = Encoded(held \o SubSeq(in, 1, r.processed))
              /\ r.held = Rest(held \o SubSeq(in, 1, r.processed))
  <2>1. CASE finish
    <3>1. r = Finish(in, room, held)
      BY ONLY <1>2, <2>1
    <3> QED BY ONLY <1>6, <1>7, <1>8, <1>9, <2>1, <3>1, FinishExact, g \in 0..2
  <2>2. CASE ~finish
    <3>1. r = Encode(in, room, held)
      BY ONLY <1>2, <2>2
    <3>2. Exact(in, held, Encode(in, room, held))
      BY ONLY <1>6, <1>7, <1>8, <1>9, EncodeExact, g \in 0..2
    <3> QED BY ONLY <2>2, <3>1, <3>2 DEF Exact
  <2> QED BY ONLY <2>1, <2>2
<1>11. PICK x, w : x = SubSeq(in, 1, r.processed) /\ w = r.written /\ x \in Input /\ w \in Chars
  <2>1. PICK n : n = r.processed /\ n \in 0..Len(in)
    BY ONLY <1>10
  <2>2. SubSeq(in, 1, n) \in Input
    BY ONLY <1>6, <2>1, InputCut
  <2> QED BY ONLY <1>10, <2>1, <2>2
<1>12. SubSeq(w, 1, Min({r.output, Len(w)})) = w
  <2>1. PICK n \in Nat : n = Len(w) /\ r.output = n
    <3>1. w \in Seq(0..64)
      BY ONLY <1>11 DEF Chars
    <3> QED BY ONLY <1>10, <1>11, <3>1, LenProperties
  <2>2. Min({n, n}) = n
    BY ONLY n \in Nat DEF Min
  <2>3. SubSeq(w, 1, Len(w)) = w
    BY ONLY <1>11, SubSeqFull DEF Chars
  <2> QED BY ONLY <2>1, <2>2, <2>3
<1>13. source' = s \o x /\ sink' = Encoded(s) \o w /\ held' = r.held
  BY ONLY <1>2, <1>5, <1>11, <1>12
<1>14. s \in Seq(Byte) /\ x \in Seq(Byte)
  BY ONLY <1>5, <1>11 DEF Input
<1>15. source' \in Input
  BY ONLY <1>5, <1>11, <1>13, InputsJoined
<1>16. sink' \in Output
  BY ONLY <1>5, <1>11, <1>13, PartsInInput, CharsAreOutput, OutputsJoined
<1>17. IF finish /\ r.status = "Ok" THEN sink' = Encoding(source') /\ held' = <<>>
       ELSE sink' = Encoded(source') /\ held' = Rest(source')
  <2>1. CASE finish /\ r.status = "Ok"
    <3>1. w = Encoding(Rest(s) \o x) /\ held' = <<>>
      BY ONLY <1>5, <1>10, <1>11, <1>13, <2>1
    <3>2. Encoding(s \o x) = Encoded(s) \o Encoding(Rest(s) \o x)
      BY ONLY <1>14, GoingOnToTheEnd
    <3> QED BY ONLY <1>13, <2>1, <3>1, <3>2
  <2>2. CASE ~ (finish /\ r.status = "Ok")
    <3>1. w = Encoded(Rest(s) \o x) /\ held' = Rest(Rest(s) \o x)
      BY ONLY <1>5, <1>10, <1>11, <1>13, <2>2
    <3>2. /\ Encoded(s \o x) = Encoded(s) \o Encoded(Rest(s) \o x)
          /\ Rest(s \o x) = Rest(Rest(s) \o x)
      BY ONLY <1>14, GoingOn
    <3> QED BY ONLY <1>13, <2>2, <3>1, <3>2
  <2> QED BY ONLY <2>1, <2>2
<1>18. held' \in Input
  BY ONLY <1>15, <1>17, PartsInInput, NoInput
<1>19. phase' = "done" \/ phase' = "encoding"
  BY ONLY <1>2
<1>20. StreamTypes'
  BY ONLY <1>3, <1>4, <1>15, <1>16, <1>18, <1>19 DEF StreamTypes
<1>21. Base64Inv'
  BY ONLY <1>2, <1>3, <1>4, <1>17, <1>19 DEF Base64Inv
<1>22. ProgressInv'
  BY ONLY <1>3 DEF ProgressInv
<1>23. CallInv'
  <2>1. call' = NoCall
    BY ONLY <1>3, <1>4 DEF Base64Inv
  <2>2. <<>> \o <<>> = <<>> /\ Len(<<>>) <= Len(<<>>)
    BY ONLY NoInput
  <2> QED BY ONLY <2>1, <2>2, NoCallIs DEF CallInv
<1>24. DoneInv'
  <2>1. ~ended'
    BY ONLY <1>3, <1>4 DEF DoneInv
  <2> QED BY ONLY <1>3, <2>1 DEF DoneInv
<1> QED BY ONLY <1>20, <1>21, <1>22, <1>23, <1>24 DEF StreamInv

\* Whole groups are encoded bit by bit.
LEMMA WholeEncoded ==
    ASSUME NEW bytes \in Seq(Byte), NEW n \in Nat, NEW k \in 0..2, Len(bytes) = 3 * n + k
    PROVE  Encoding(SubSeq(bytes, 1, 3 * n)) = Encoded(bytes)
<1>1. PICK m \in 0..Len(bytes) : m = 3 * n
  BY ONLY PartsAre, bytes \in Seq(Byte), n \in Nat, k \in 0..2, Len(bytes) = 3 * n + k
<1>2. PICK a \in Seq(Byte) : a = SubSeq(bytes, 1, m) /\ Len(a) = m
  BY ONLY FirstIs, bytes \in Seq(Byte), m \in 0..Len(bytes)
<1>3. PICK b \in Seq(Byte) : b = From(bytes, m) /\ Len(b) = Len(bytes) - m
  BY ONLY FromIs, bytes \in Seq(Byte), m \in 0..Len(bytes)
<1>4. a \o b = bytes
  BY ONLY <1>2, <1>3, CutAndJoin, bytes \in Seq(Byte), m \in 0..Len(bytes)
<1>5. Len(b) = k
  BY ONLY <1>1, <1>3, Len(bytes) = 3 * n + k, n \in Nat, k \in 0..2
<1>6. Encoded(b) = <<>>
  BY ONLY <1>5, FewBytes, b \in Seq(Byte), k \in 0..2
<1>7. Encoded(a \o b) = Groups(a, n) \o Encoded(b)
  BY ONLY <1>1, <1>2, PartsOfJoined, a \in Seq(Byte), b \in Seq(Byte), n \in Nat
<1>8. /\ Encoded(a) = Groups(a, n) /\ Encoded(a) \in Chars /\ Rest(a) \in Seq(Byte) /\ Len(Rest(a)) = 0
  <2>1. PICK z \in 0..2 : z = 0
    OBVIOUS
  <2>2. Len(a) = 3 * n + z
    BY ONLY <1>1, <1>2, <2>1, n \in Nat
  <2> QED BY ONLY <2>1, <2>2, PartsAre, a \in Seq(Byte), n \in Nat, z \in 0..2
<1>9. Rest(a) = <<>>
  BY ONLY <1>8, EmptySeq
<1>10. Encoding(a) = Encoded(a)
  BY ONLY <1>9, EncodingIs, a \in Seq(Byte)
<1>11. Encoded(a) \o <<>> = Encoded(a)
  BY ONLY <1>8, ConcatEmptySeq DEF Chars
<1> QED BY ONLY <1>1, <1>2, <1>4, <1>6, <1>7, <1>8, <1>10, <1>11

\* The invariants say what a caller sees between two calls.
LEMMA SeenBetweenCalls == StreamInv => OutputExact
<1> SUFFICES ASSUME StreamInv, call = NoCall
             PROVE  IF kind = "base64"
                    THEN LET whole == 3 * (Len(source) \div 3)
                         IN IF phase = "done" THEN sink = Encoding(source)
                            ELSE /\ sink = Encoding(SubSeq(source, 1, whole))
                                 /\ held = From(source, whole)
                    ELSE /\ \E n \in 0..Len(source) :
                                held = From(source, n) /\ Decodes(sink, SubSeq(source, 1, n))
                         /\ phase = "done" => held = <<>> /\ sink # <<>> /\ Last(sink) = End
  BY DEF OutputExact
<1>1. StreamTypes /\ Base64Inv /\ ProgressInv /\ DoneInv
  BY DEF StreamInv
<1>2. source \in Input /\ sink \in Output /\ phase \in {"encoding", "finishing", "done"}
  BY <1>1 DEF StreamTypes
<1>3. CASE kind = "base64"
  <2>1. CASE phase = "done"
    BY ONLY <1>1, <1>3, <2>1 DEF Base64Inv
  <2>2. CASE phase # "done"
    <3>1. sink = Encoded(source) /\ held = Rest(source)
      BY ONLY <1>1, <1>2, <1>3, <2>2 DEF Base64Inv
    <3>2. PICK whole : whole = 3 * (Len(source) \div 3)
      OBVIOUS
    <3>3. held = From(source, whole)
      BY ONLY <3>1, <3>2 DEF Rest, Whole
    <3>4. PICK bytes \in Seq(Byte) : bytes = source
      BY ONLY <1>2 DEF Input
    <3>5. PICK n \in Nat, k \in 0..2 : n = Whole(bytes) /\ Len(bytes) = 3 * n + k
      BY ONLY WholeIs, bytes \in Seq(Byte)
    <3>6. Encoding(SubSeq(bytes, 1, 3 * n)) = Encoded(bytes)
      BY ONLY <3>5, WholeEncoded, bytes \in Seq(Byte), n \in Nat, k \in 0..2
    <3>7. sink = Encoding(SubSeq(source, 1, whole))
      BY ONLY <3>1, <3>2, <3>4, <3>5, <3>6 DEF Whole
    <3> QED BY ONLY <1>3, <2>2, <3>2, <3>3, <3>7
  <2> QED BY ONLY <2>1, <2>2
<1>4. CASE kind # "base64"
  <2>1. source \o <<>> = source /\ sink \o <<>> = sink
    BY ONLY <1>2, NoInput, NoOutput
  <2>2. ExactSoFar(source, sink, held)
    BY ONLY <1>1, <1>4, <2>1, NoCallIs, call = NoCall DEF ProgressInv
  <2> QED BY ONLY <1>1, <1>4, <2>2 DEF ExactSoFar, DoneInv
<1> QED BY ONLY <1>3, <1>4

\* Between two calls what a stream has put out and what its encoder holds over
\* are the encoding of exactly the bytes its caller has behind it, for every
\* input, however it and the room for it were cut, as long as callers leave the
\* room, finish their streams as the model's Discipline says and go by the
\* status of a compressor's finish, whose count of its input is always 0: for
\* Base64 bit by bit and padded at the end, for the compressors as their
\* libraries promise it, through every loop around them.
THEOREM StreamOutputExact ==
    {"room", "finish", "fresh", "status"} \subseteq Discipline => (Spec => []OutputExact)
<1> SUFFICES ASSUME {"room", "finish", "fresh", "status"} \subseteq Discipline
             PROVE  Spec => []OutputExact
  OBVIOUS
<1>1. /\ "room" \in Discipline /\ "finish" \in Discipline /\ "fresh" \in Discipline
      /\ "status" \in Discipline
  OBVIOUS
<1>2. Init => StreamInv
  BY InitKept
<1>3. StreamInv /\ [Next]_vars => StreamInv'
  <2> SUFFICES ASSUME StreamInv, [Next]_vars PROVE StreamInv'
    OBVIOUS
  <2>1. CASE Base64Call
    BY ONLY <1>1, <2>1, StreamInv, Base64Kept
  <2>2. CASE Begin
    BY ONLY <1>1, <2>2, StreamInv, BeginKept
  <2>3. CASE Deflate
    BY ONLY <2>3, StreamInv, DeflateKept
  <2>4. CASE DeflateAfterEnd
    BY ONLY <2>4, StreamInv, DeflateAfterEndKept
  <2>5. CASE ZlibFinish
    BY ONLY <1>1, <2>5, StreamInv, ZlibFinishKept
  <2>6. CASE ZlibFinishFull
    BY ONLY <2>6, StreamInv, ZlibFinishFullKept
  <2>7. CASE Continue
    BY ONLY <2>7, StreamInv, ContinueKept
  <2>8. CASE ZstdFinish
    BY ONLY <1>1, <2>8, StreamInv, ZstdFinishKept
  <2>9. CASE ZstdFinishPart
    BY ONLY <2>9, StreamInv, ZstdFinishPartKept
  <2>10. CASE UNCHANGED vars
    BY ONLY <2>10, StreamInv
       DEF vars, StreamInv, StreamTypes, Base64Inv, ProgressInv, CallInv, DoneInv, Untouched
  <2> QED BY ONLY <2>1, <2>2, <2>3, <2>4, <2>5, <2>6, <2>7, <2>8, <2>9, <2>10, [Next]_vars
          DEF Next, Turn
<1>4. StreamInv => OutputExact
  BY SeenBetweenCalls
<1> QED BY <1>2, <1>3, <1>4, PTL DEF Spec
=============================================================================
