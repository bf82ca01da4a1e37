---------------------------- MODULE Serialization ----------------------------
(***************************************************************************)
(* An application that serializes documents with a JSONSerializer it keeps *)
(* and PDUs with the DirectSerializer, sends the PDUs as datagrams from    *)
(* one UDPEndpoint to another, and has a DISDispatcher decode what it      *)
(* receives for handlers.                                                  *)
(***************************************************************************)
EXTENDS JsonWriter, Endpoints

CONSTANTS
    Docs,          \* the documents
    Pdus,          \* the PDUs the library writes
    PeerPdus,      \* the Transmitter PDUs a peer writes
    Sender, Receiver, Port,    \* who sends PDUs to whom, and where
    Discipline     \* what the application takes care of

(* "room" : a document has the room of its text, or is a list of integers  *)
(*          and has room for its bracket;                                  *)
(* "renew": a serializer that gave up is not used again;                   *)
(* "typed": params_type is set;                                            *)
(* "whole": a handler that takes a PDU is given whole ones that the        *)
(*          library wrote;                                                 *)
(* "single": a Transmitter has at most one variable parameter.             *)
ASSUME SerializationAssumption ==
    /\ Discipline \subseteq {"room", "renew", "typed", "whole", "single"}
    /\ {Sender, Receiver} \subseteq UdpEndpoints /\ Sender # Receiver /\ Port \in Ports

D == INSTANCE DisPdu

VARIABLES
    stack,         \* impl_->state_stack of the JSONSerializer
    table,         \* dispatch_table_, for the three types of PDU
    work           \* the document or PDU at hand, and its outcome

vars == <<stack, table, work, endpointVars>>

Types == {"EntityState", "Emission", "Transmitter"}
TypeCode == [EntityState |-> 1, Emission |-> 23, Transmitter |-> 25]
Nothing == [kind |-> "nothing"]

NoHandlers == [t \in Types |-> "no_op"]

Init == EndpointsInit /\ stack = <<>> /\ table = NoHandlers /\ work = Nothing

(* Bounds: endpoints are opened, moved and closed while there is nothing   *)
(* else to do, documents are written while there are none, and PDUs are    *)
(* exchanged by two that were opened in this order and nothing else.       *)
Idle == stack = <<>> /\ table = NoHandlers /\ work = Nothing
NoEndpoints == \A e \in EndpointNames : ~Alive(e)
Linked ==
    /\ internal[Receiver] = 0 /\ internal[Sender] = 1
    /\ \A e \in EndpointNames \ {Receiver, Sender} : ~Alive(e)
    /\ DOMAIN sockets = {0, 1} /\ sockets[0].port = Port

UseEndpoints ==
    /\ Idle /\ \A d \in DOMAIN sockets : sockets[d].waiting = <<>>
    /\ EndpointStep
    /\ UNCHANGED <<stack, table, work>>

-----------------------------------------------------------------------------
(* JSON.                                                                   *)

Integers(doc) == doc.t = "array" /\ doc.items # <<>> /\ \A i \in DOMAIN doc.items : doc.items[i].t = "int"

RoomFor(doc, room) ==
    "room" \in Discipline =>
        room >= Len(Complete(doc)) \/ (Integers(doc) /\ room > 0)

NewSerializer ==
    /\ work = Nothing /\ stack # <<>>
    /\ stack' = <<>>
    /\ UNCHANGED <<table, work, endpointVars>>

SerializeJson ==
    /\ work = Nothing /\ NoEndpoints
    /\ "renew" \in Discipline => stack = <<>>
    /\ \E doc \in Docs : \E room \in 0..Len(Complete(doc)) + 1 :
        LET w == Apply(Writer(<<>>, room, stack), doc)
        IN /\ RoomFor(doc, room)
           /\ stack' = w.stack
           /\ work' = [kind |-> "json", doc |-> doc, room |-> room, status |-> w.status,
                       text |-> w.text, overrun |-> w.overrun]
    /\ UNCHANGED <<table, endpointVars>>

-----------------------------------------------------------------------------
(* DIS.                                                                    *)

On(type, handler) ==
    /\ work = Nothing /\ Linked /\ table[type] # handler
    /\ table' = [table EXCEPT ![type] = handler]
    /\ UNCHANGED <<stack, work, endpointVars>>

(* What a room's worth of the PDU is, as a view's bytes or a datagram's.   *)
BytesOf(d) == D!Written(D!Items(d.pdu), d.room)

(* Bound: one PDU at a time.                                               *)
SerializePdu ==
    /\ work = Nothing /\ Linked /\ Waiting(Receiver) = <<>>
    /\ \E pdu \in Pdus : \E room \in 0..D!PduSize(pdu) + 1 :
        /\ ("typed" \in Discipline /\ pdu.type = "EntityState") => pdu.dr \in {1, 2}
        /\ work' = [kind |-> "pdu", pdu |-> pdu, room |-> room]
    /\ UNCHANGED <<stack, table, endpointVars>>

SendPdu ==
    /\ work.kind = "pdu"
    /\ Send(Sender, Port, [pdu |-> work.pdu, room |-> work.room])
    /\ work' = Nothing
    /\ UNCHANGED <<stack, table>>

(* A Transmitter PDU of somebody else's.                                   *)
PeerSends ==
    /\ work = Nothing /\ Linked /\ Waiting(Receiver) = <<>>
    /\ \E pdu \in PeerPdus :
        /\ "single" \in Discipline => Len(pdu.records) <= 1
        /\ sockets' = [sockets EXCEPT ![internal[Receiver]].waiting =
                          Append(@, [pdu |-> pdu, room |-> D!PduSize(pdu)])]
    /\ UNCHANGED <<stack, table, work, internal>>

(* The handler of a view decodes it, and looks whether that worked; the    *)
(* dispatcher does not look before it calls the handler of a PDU.          *)
Outcome(handler, type, pdu, bytes) ==
    IF handler = "no_op" THEN "dropped"
    ELSE LET r == D!ReadAs(type, bytes)
         IN CASE D!IsExactly(r, pdu) -> "exact"
              [] ~r.ok /\ handler = "BufferView" -> "rejected"
              [] OTHER -> "wrong"

(* The type is the third byte; of two bytes it is whatever comes after.    *)
TypesSeen(bytes) ==
    {type \in Types : Len(bytes) > 2 => bytes[3][1][3] = TypeCode[type]}

Outcomes(pdu, bytes) ==
    IF Len(bytes) < 2 THEN {"dropped"}
    ELSE {Outcome(table[type], type, pdu, bytes) : type \in TypesSeen(bytes)}

(* What fits in n bytes is received and dispatched.  Bound: a PDU that the *)
(* writer cut short is not cut again.                                      *)
Dispatch ==
    /\ work = Nothing /\ Linked /\ PollStatus(Receiver) = "Ready"
    /\ Recv(Receiver)
    /\ LET datagram == Head(Waiting(Receiver))
           size == D!PduSize(datagram.pdu)
       IN \E n \in IF datagram.room < size THEN {size} ELSE 0..size :
            /\ "whole" \in Discipline =>
                   \/ datagram.room >= size /\ n = size /\ datagram.pdu.type # "Transmitter"
                   \/ \A t \in Types : table[t] # "PDU"
            /\ \E outcome \in Outcomes(datagram.pdu, Received(BytesOf(datagram), n)) :
                   work' = [kind |-> "handled", outcome |-> outcome, type |-> datagram.pdu.type,
                            whole |-> datagram.room >= size /\ n = size]
    /\ UNCHANGED <<stack, table>>

(* A document is used; a PDU was handled, or is not sent.                  *)
Done ==
    /\ work # Nothing
    /\ work' = Nothing
    /\ UNCHANGED <<stack, table, endpointVars>>

Next ==
    \/ NewSerializer \/ SerializeJson
    \/ \E type \in Types, handler \in {"BufferView", "PDU"} : On(type, handler)
    \/ UseEndpoints \/ SerializePdu \/ SendPdu \/ PeerSends \/ Dispatch \/ Done

Spec == Init /\ [][Next]_vars

-----------------------------------------------------------------------------
(* A document whose text fits in the view, even exactly, is reported Ok    *)
(* and its text is the JSON text of the document, however it is nested and *)
(* whatever the serializer wrote before; one that does not fit is not      *)
(* reported Ok; and nothing is stored past the end of the view.            *)
JsonExact ==
    work.kind = "json" =>
        /\ (work.status = "Ok") <=> work.room >= Len(Complete(work.doc))
        /\ work.status = "Ok" => work.text = Complete(work.doc)
        /\ ~work.overrun

(* With room a PDU takes the bytes that pdu_size_calc says.  A PDU that is *)
(* handed to a handler is the one that was sent, each field read from its  *)
(* own bytes and every list as long as it was; one that was cut, by the    *)
(* writer's view or on its way, is either refused or has lost nothing but  *)
(* padding.  A whole one is handed over, unless it is a Transmitter: of    *)
(* those the reader refuses all that have no variable parameter, so every  *)
(* one of DIS 6 (serde.hpp:1008 sees no issue there), and all whose        *)
(* parameter has data.                                                     *)
PduExact ==
    /\ work.kind = "pdu" =>
           (work.room >= D!PduSize(work.pdu) <=> Len(BytesOf(work)) = D!PduSize(work.pdu))
    /\ work.kind = "handled" =>
           /\ work.outcome # "wrong"
           /\ (work.whole /\ work.type # "Transmitter" /\ table[work.type] # "no_op") =>
                  work.outcome = "exact"
=============================================================================
