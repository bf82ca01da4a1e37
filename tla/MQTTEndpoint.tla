---------------------------- MODULE MQTTEndpoint ----------------------------
(***************************************************************************)
(* MQTTEndpoint: the application's thread, which connects, publishes,      *)
(* subscribes, polls and receives, and the thread of the Paho client       *)
(* library, which calls back with results, messages and deliveries.  A     *)
(* critical section of topic_queues_mutex is one step.                     *)
(*                                                                         *)
(* Messages that arrive are objects of the library, numbered in the order  *)
(* of their arrival; what matters is who has to free them.  The library    *)
(* offers its oldest message until a callback has taken it (returns 1).    *)
(* pending_messages has no lock: an access is one step, two that overlap   *)
(* (a data race) are left out.                                             *)
(***************************************************************************)
EXTENDS Integers, FiniteSets, SequencesExt

CONSTANTS
    Topics,        \* the topics messages are published under
    None,          \* no topic, no message
    Shortened,     \* each topic without its last character, or None
    Capacity,      \* of a topic's queue (1024 in the code)
    LengthGiven,   \* whether the library passes the length of a topic's name
    Discipline,    \* what the application and the library take care of
    MaxArrivals,   \* bound: messages that arrive
    MaxPublished   \* bound: calls of publish

(* "fresh": recv gets a message that holds nothing;                        *)
(* "alone": nothing is published behind a forwarded message;               *)
(* "room" : the application receives before a queue is full.               *)
ASSUME MQTTAssumption ==
    /\ None \notin Topics \union Nat /\ Shortened \in [Topics -> Topics \union {None}]
    /\ Capacity \in Nat \ {0} /\ LengthGiven \subseteq BOOLEAN
    /\ Discipline \subseteq {"fresh", "alone", "room"}
    /\ MaxArrivals \in Nat /\ MaxPublished \in Nat

VARIABLES
    connected,     \* internal_->connected: 0, 1 or -1
    attempt,       \* the library: how the connection attempt went
    online,        \* the library: there is a connection
    inbox,         \* the library: messages to deliver, oldest first
    topicOf,       \* the topic of each message that has arrived
    subscribed,    \* the keys of topic_queues
    queues,        \* topic_queues: the messages of each topic
    pending,       \* pending_messages: tokens, with the message each holds
    delivered,     \* tokens the library has reported as delivered
    early,         \* history: those reported before publish had stored their message
    misnamed,      \* history: messages queued without the length of their topic's name
    token,         \* the last token the library gave out
    call,          \* where the application is in its call
    mine,          \* the message the application's MQTTMessage holds
    ready,         \* the topics poll has reported, since the last recv
    received,      \* what the application has received, per topic
    freed,         \* how often each message was given back to the library
    terminated     \* an exception has left a callback

histories == <<early, misnamed>>
library == <<attempt, online, inbox, topicOf, delivered, histories>>
messages == <<subscribed, queues, mine, ready, received, freed>>
vars == <<connected, library, messages, pending, token, call, terminated>>

Arrived == DOMAIN topicOf
Idle == [at |-> "idle"]

Init ==
    /\ connected = 0 /\ attempt = "none" /\ online = FALSE
    /\ inbox = <<>> /\ topicOf = <<>> /\ delivered = {} /\ token = 0
    /\ early = {} /\ misnamed = {}
    /\ subscribed = {} /\ queues = [t \in Topics |-> <<>>] /\ pending = <<>> /\ call = Idle
    /\ mine = None /\ ready = {} /\ received = [t \in Topics |-> <<>>]
    /\ freed = <<>> /\ terminated = FALSE

Running == ~terminated /\ call # [at |-> "gone"]
Between == Running /\ call = Idle

Free(ms) == [m \in Arrived |-> IF m \in ms THEN freed[m] + 1 ELSE freed[m]]

-----------------------------------------------------------------------------
(* Connecting.                                                             *)

(* MQTTAsync_connect may refuse: the call returns Error at once.           *)
CallConnect(accepted) ==
    /\ Between /\ attempt = "none"
    /\ attempt' = IF accepted THEN "open" ELSE "none"
    /\ call' = IF accepted THEN [at |-> "connecting"] ELSE Idle
    /\ UNCHANGED <<connected, online, inbox, topicOf, delivered, histories, messages, pending,
                   token, terminated>>

(* onSuccess and onFailure.                                                *)
ConnectEnds(success) ==
    /\ Running /\ attempt = "open"
    /\ attempt' = "ended" /\ online' = success
    /\ connected' = IF success THEN 1 ELSE 0 - 1
    /\ UNCHANGED <<inbox, topicOf, delivered, histories, messages, pending, token, call,
                   terminated>>

(* Success, Error or, while the attempt is open, Timeout.                  *)
ConnectReturns ==
    /\ Running /\ call = [at |-> "connecting"] /\ call' = Idle
    /\ UNCHANGED <<connected, library, messages, pending, token, terminated>>

(* conn_lost: a reconnection that cannot be started throws.                *)
ConnectionLost(reconnects) ==
    /\ Running /\ online
    /\ online' = FALSE /\ terminated' = ~reconnects
    /\ UNCHANGED <<connected, attempt, inbox, topicOf, delivered, histories, messages, pending,
                   token, call>>

(* automaticReconnect.                                                     *)
Reconnected ==
    /\ Running /\ ~online /\ attempt = "ended" /\ connected = 1
    /\ online' = TRUE
    /\ UNCHANGED <<connected, attempt, inbox, topicOf, delivered, histories, messages, pending,
                   token, call, terminated>>

-----------------------------------------------------------------------------
(* Receiving.  cleansession = 0: the broker sends for earlier sessions'    *)
(* subscriptions too.                                                      *)

Arrive(t) ==
    /\ Running /\ online /\ Len(topicOf) < MaxArrivals
    /\ topicOf' = Append(topicOf, t)
    /\ inbox' = Append(inbox, Len(topicOf'))
    /\ freed' = Append(freed, 0)
    /\ UNCHANGED <<connected, attempt, online, delivered, histories, subscribed, queues, mine,
                   ready, received, pending, token, call, terminated>>

(* msg_arvd: the queue is looked up by the name of the topic; with a       *)
(* topicLen of 0 the last character is missing.                            *)
Key(t, lengthGiven) == IF lengthGiven THEN t ELSE Shortened[t]

HasRoomForOneMore(key) == Len(queues[key]) <= Capacity
HasRoom(key) == Len(queues[key]) < Capacity

(* No such queue: 0 is returned, the library keeps its message.            *)
Ignore(m, key) ==
    /\ key \notin subscribed
    /\ UNCHANGED <<inbox, messages>>

(* The message object moves into the queue and 1 is returned.              *)
EnqueueAndKeep(m, key) ==
    /\ key \in subscribed /\ HasRoom(key)
    /\ queues' = [queues EXCEPT ![key] = Append(@, m)]
    /\ UNCHANGED <<inbox, subscribed, mine, ready, received, freed>>

Enqueue(m, key) ==
    /\ key \in subscribed /\ HasRoom(key)
    /\ queues' = [queues EXCEPT ![key] = Append(@, m)]
    /\ inbox' = Tail(inbox)
    /\ UNCHANGED <<subscribed, mine, ready, received, freed>>

(* Full: 0 is returned, and the message object on the stack frees what the *)
(* library keeps.                                                          *)
Refuse(m, key) ==
    /\ key \in subscribed /\ ~HasRoom(key)
    /\ "room" \notin Discipline
    /\ freed' = Free({m})
    /\ UNCHANGED <<inbox, subscribed, queues, mine, ready, received>>

MessageArrived(lengthGiven) ==
    /\ Running /\ inbox # <<>>
    /\ LET m == Head(inbox)
           key == Key(topicOf[m], lengthGiven)
       IN /\ Ignore(m, key) \/ Enqueue(m, key) \/ Refuse(m, key)
          /\ misnamed' = IF lengthGiven \/ UNCHANGED inbox THEN misnamed
                         ELSE misnamed \union {m}
    /\ UNCHANGED <<connected, attempt, online, topicOf, delivered, early, pending, token, call,
                   terminated>>

(* The queue is there before the library is asked, and stays if it refuses.*)
Subscribe(t) ==
    /\ Between
    /\ subscribed' = subscribed \union {t}
    /\ UNCHANGED <<connected, library, queues, mine, ready, received, freed, pending, token, call,
                   terminated>>

(* try_pop moves the message out of its slot, then into the caller's: what *)
(* that one held is not freed.                                             *)
TakenLast(q) == Last(q)
Taken(q) == Head(q)

Recv(t) ==
    /\ Between /\ t \in subscribed /\ queues[t] # <<>>
    /\ "fresh" \in Discipline => mine = None
    /\ mine' = Taken(queues[t])
    /\ queues' = [queues EXCEPT ![t] = Tail(@)]
    /\ received' = [received EXCEPT ![t] = Append(@, Taken(queues[t]))]
    /\ ready' = ready \ {t}
    /\ UNCHANGED <<connected, library, subscribed, freed, pending, token, call, terminated>>

(* ~MQTTMessage, or a new message assigned to the variable's place.        *)
DropMine ==
    /\ Between /\ mine # None
    /\ freed' = Free({mine}) /\ mine' = None
    /\ UNCHANGED <<connected, library, subscribed, queues, ready, received, pending, token,
                   call, terminated>>

(* poll: an Error without a subscription; Ready or Timeout at the end.     *)
CallPoll(t) ==
    /\ Between /\ t \in subscribed
    /\ call' = [at |-> "polling", topic |-> t]
    /\ UNCHANGED <<connected, library, messages, pending, token, terminated>>

PollReturns(isReady) ==
    /\ Running /\ call.at = "polling" /\ call' = Idle
    /\ isReady => queues[call.topic] # <<>>
    /\ ready' = IF isReady THEN ready \union {call.topic} ELSE ready
    /\ UNCHANGED <<connected, library, subscribed, queues, mine, received, freed, pending,
                   token, terminated>>

-----------------------------------------------------------------------------
(* Publishing.  A message is the application's own (None) or one received. *)

Forwarded(entries) == {e \in ToSet(entries) : e.message # None}

(* MQTTAsync_send gives out a token; it refuses without a connection.      *)
CallPublish(m) ==
    /\ Between /\ online /\ token < MaxPublished
    /\ m \in {None, mine}
    /\ "alone" \in Discipline => Forwarded(pending) = {}
    /\ token' = token + 1
    /\ call' = [at |-> "storing", message |-> m]
    /\ UNCHANGED <<connected, library, messages, pending, terminated>>

StorePending ==
    /\ Running /\ call.at = "storing" /\ call' = Idle
    /\ pending' = Append(pending, [token |-> token, message |-> call.message])
    /\ mine' = IF call.message = None THEN mine ELSE None
    /\ UNCHANGED <<connected, library, subscribed, queues, ready, received, freed, token,
                   terminated>>

(* erase_if: the entries behind an erased one are move-assigned to the     *)
(* front, so only a message at the end is freed.  A token has one entry.   *)
ErasedOlder(tok) == SelectSeq(pending, LAMBDA e : e.token > tok)
EntriesOf(tok) == {i \in DOMAIN pending : pending[i].token = tok}
Erased(tok) ==
    IF EntriesOf(tok) = {} THEN pending
    ELSE RemoveAt(pending, CHOOSE i \in EntriesOf(tok) : TRUE)

FreedByErase(tok) ==
    IF pending # <<>> /\ Last(pending).token = tok
    THEN {Last(pending).message} \ {None} ELSE {}

(* The library has a token from the moment MQTTAsync_send gives it out.    *)
BeingStored(tok) == call.at = "storing" /\ tok = token

DeliveryComplete(tok) ==
    /\ Running /\ tok \in 1..token /\ tok \notin delivered
    /\ delivered' = delivered \union {tok}
    /\ early' = IF BeingStored(tok) THEN early \union {tok} ELSE early
    /\ pending' = Erased(tok)
    /\ freed' = Free(FreedByErase(tok))
    /\ UNCHANGED <<connected, attempt, online, inbox, topicOf, misnamed, subscribed, queues,
                   mine, ready, received, token, call, terminated>>

-----------------------------------------------------------------------------
(* ~Internal destroys the client, then the pending messages and the queues,*)
(* whose destructor drains them.                                           *)
Queued == UNION {ToSet(queues[t]) : t \in Topics}

Destroy ==
    /\ Between
    /\ call' = [at |-> "gone"] /\ online' = FALSE
    /\ freed' = Free(Queued \union {e.message : e \in Forwarded(pending)})
    /\ queues' = [t \in Topics |-> <<>>] /\ subscribed' = {} /\ pending' = <<>>
    /\ UNCHANGED <<connected, attempt, inbox, topicOf, delivered, histories, mine, ready,
                   received, token, terminated>>

Next ==
    \/ \E b \in BOOLEAN : CallConnect(b) \/ ConnectEnds(b) \/ ConnectionLost(b)
    \/ ConnectReturns \/ Reconnected
    \/ \E t \in Topics : Arrive(t) \/ Subscribe(t) \/ Recv(t) \/ CallPoll(t)
    \/ \E given \in LengthGiven : MessageArrived(given)
    \/ \E isReady \in BOOLEAN : PollReturns(isReady)
    \/ DropMine
    \/ \E m \in Arrived \union {None} : CallPublish(m)
    \/ StorePending
    \/ \E tok \in 1..MaxPublished : DeliveryComplete(tok)
    \/ Destroy

Spec == Init /\ [][Next]_vars
-----------------------------------------------------------------------------
Places ==
    {[at |-> p] : p \in {"idle", "connecting", "gone"}}
        \union [at : {"polling"}, topic : Topics]
        \union [at : {"storing"}, message : Arrived \union {None}]

TypeOK ==
    /\ connected \in {0 - 1, 0, 1} /\ attempt \in {"none", "open", "ended"}
    /\ {online, terminated} \subseteq BOOLEAN
    /\ topicOf \in Seq(Topics) /\ Len(topicOf) <= MaxArrivals
    /\ inbox \in Seq(Arrived) /\ freed \in [Arrived -> Nat]
    /\ subscribed \subseteq Topics
    /\ \A t \in Topics : queues[t] \in Seq(Arrived) /\ Len(queues[t]) <= Capacity
    /\ received \in [Topics -> Seq(Arrived)] /\ mine \in Arrived \union {None}
    /\ ready \subseteq Topics /\ call \in Places
    /\ token \in 0..MaxPublished /\ delivered \subseteq 1..token
    /\ early \subseteq delivered /\ misnamed \subseteq Arrived
    /\ pending \in Seq([token : 1..token, message : Arrived \union {None}])

(* Every message the library has handed over is the responsibility of one:  *)
(* it is in the library's inbox, in one queue, in the application's         *)
(* variable or among the pending messages, or it was freed once.            *)
Holders(m) ==
    Cardinality({t \in Topics : m \in ToSet(queues[t])})
        + Cardinality({e \in ToSet(pending) : e.message = m})
        + (IF m \in ToSet(inbox) THEN 1 ELSE 0) + (IF m = mine THEN 1 ELSE 0)

OwnedOnce == \A m \in Arrived : Holders(m) + freed[m] = 1

(* The messages of a topic are received in the order of their arrival, none *)
(* is lost or repeated, whenever the topic is subscribed and whatever       *)
(* topicLen the library passes: received and queued are, in order, those    *)
(* the library has handed over under that name.  A message given with the   *)
(* length of its topic's name is under that name; one given without it      *)
(* (MQTTEndpoint.cpp:208) is under the name without its last character.     *)
(* And a topic that poll has reported Ready has a message for the recv that *)
(* follows.                                                                 *)
NameOf(m) == IF m \in misnamed THEN Shortened[topicOf[m]] ELSE topicOf[m]
HandedOver(t) == {m \in Arrived \ ToSet(inbox) : NameOf(m) = t}
InOrder(ms) == \A i, j \in 1..Len(ms) : i < j => ms[i] < ms[j]

ReceivedInOrder ==
    call # [at |-> "gone"] =>
        \A t \in Topics :
            /\ InOrder(received[t] \o queues[t])
            /\ ToSet(received[t] \o queues[t]) = HandedOver(t)
            /\ t \in ready => queues[t] # <<>>

(* A message is pending from the end of publish until its delivery is       *)
(* reported, whatever the order of the reports and wherever publish is.  A  *)
(* delivery reported before publish has stored the message finds nothing to *)
(* erase (MQTTEndpoint.cpp:247-249): that message, and no other, is pending *)
(* ever after.                                                              *)
Stored == {tok \in 1..token : ~BeingStored(tok)}
Undelivered == (1..token) \ delivered

PendingExact ==
    call.at # "gone" =>
        /\ {e.token : e \in ToSet(pending)} = Stored \cap (Undelivered \union early)
        /\ Len(pending) = Cardinality(Stored \cap (Undelivered \union early))
=============================================================================
