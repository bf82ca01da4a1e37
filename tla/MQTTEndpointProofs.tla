------------------------- MODULE MQTTEndpointProofs -------------------------
(***************************************************************************)
(* For any topics, capacity and numbers of messages: the endpoint's types, *)
(* and the ownership of the messages the library hands over.               *)
(***************************************************************************)
EXTENDS MQTTEndpoint, SequenceTheorems, FiniteSetTheorems, TLAPS

USE MQTTAssumption

-----------------------------------------------------------------------------
(* Sequences without repetition.                                           *)

Distinct(s) == \A i, j \in 1..Len(s) : s[i] = s[j] => i = j

LEMMA InSequence ==
    ASSUME NEW S, NEW s \in Seq(S), NEW x
    PROVE  x \in ToSet(s) <=> \E i \in 1..Len(s) : s[i] = x
BY LenProperties DEF ToSet

\* A new element at the end.
LEMMA AppendSet ==
    ASSUME NEW S, NEW s \in Seq(S), NEW x \in S
    PROVE  /\ Append(s, x) \in Seq(S) /\ Len(Append(s, x)) = Len(s) + 1
           /\ ToSet(Append(s, x)) = ToSet(s) \union {x}
           /\ Distinct(s) /\ x \notin ToSet(s) => Distinct(Append(s, x))
<1> DEFINE t == Append(s, x)
<1>1. /\ t \in Seq(S) /\ Len(t) = Len(s) + 1 /\ Len(s) \in Nat
      /\ t[Len(s) + 1] = x /\ \A i \in 1..Len(s) : t[i] = s[i]
  BY AppendProperties, LenProperties
<1>2. DOMAIN t = 1..Len(t) /\ DOMAIN s = 1..Len(s)
  BY <1>1, LenProperties
<1> HIDE DEF t
<1>3. ToSet(t) = ToSet(s) \union {x}
  <2>1. ASSUME NEW y \in ToSet(t) PROVE y \in ToSet(s) \union {x}
    BY <1>1, <1>2 DEF ToSet
  <2>2. ASSUME NEW y \in ToSet(s) PROVE y \in ToSet(t)
    BY <1>1, <1>2 DEF ToSet
  <2>3. x \in ToSet(t)
    BY <1>1, <1>2 DEF ToSet
  <2> QED BY <2>1, <2>2, <2>3
<1>4. Distinct(s) /\ x \notin ToSet(s) => Distinct(t)
  BY <1>1, <1>2 DEF Distinct, ToSet
<1> QED BY <1>1, <1>3, <1>4 DEF t

\* The first element is taken.
LEMMA TailSet ==
    ASSUME NEW S, NEW s \in Seq(S), s # <<>>, Distinct(s)
    PROVE  /\ Head(s) \in S /\ Head(s) \in ToSet(s)
           /\ Tail(s) \in Seq(S) /\ Len(Tail(s)) = Len(s) - 1 /\ Len(s) \in Nat \ {0}
           /\ ToSet(Tail(s)) = ToSet(s) \ {Head(s)} /\ Distinct(Tail(s))
<1> DEFINE t == Tail(s)
<1>1. /\ t \in Seq(S) /\ Len(t) = Len(s) - 1 /\ Len(s) \in Nat \ {0}
      /\ Head(s) = s[1] /\ Head(s) \in S /\ \A i \in 1..Len(t) : t[i] = s[i + 1]
  BY HeadTailProperties, LenProperties, EmptySeq
<1>2. DOMAIN t = 1..Len(t) /\ DOMAIN s = 1..Len(s)
  BY <1>1, LenProperties
<1> HIDE DEF t
<1>3. Head(s) \in ToSet(s)
  BY <1>1, <1>2 DEF ToSet
<1>4. ToSet(t) = ToSet(s) \ {Head(s)}
  <2>1. ASSUME NEW y \in ToSet(t) PROVE y \in ToSet(s) /\ y # Head(s)
    <3> PICK i \in 1..Len(t) : t[i] = y
      BY <1>2 DEF ToSet
    <3> i + 1 \in 1..Len(s) /\ s[i + 1] = y /\ 1 \in 1..Len(s) /\ i + 1 # 1
      BY <1>1
    <3> QED BY <1>1, <1>2 DEF ToSet, Distinct
  <2>2. ASSUME NEW y \in ToSet(s), y # Head(s) PROVE y \in ToSet(t)
    <3> PICK i \in 1..Len(s) : s[i] = y
      BY <1>2 DEF ToSet
    <3> i - 1 \in 1..Len(t) /\ t[i - 1] = y
      BY <2>2, <1>1
    <3> QED BY <1>2 DEF ToSet
  <2> QED BY <2>1, <2>2
<1>5. Distinct(t)
  BY <1>1 DEF Distinct
<1> QED BY <1>1, <1>3, <1>4, <1>5 DEF t

\* One element is taken out.
LEMMA RemoveAtElements ==
    ASSUME NEW S, NEW s \in Seq(S), NEW k \in 1..Len(s)
    PROVE  /\ RemoveAt(s, k) \in Seq(S) /\ Len(RemoveAt(s, k)) = Len(s) - 1
           /\ \A i \in 1..Len(s) - 1 :
                  RemoveAt(s, k)[i] = IF i < k THEN s[i] ELSE s[i + 1]
<1>1. Len(s) \in Nat /\ \A i \in 1..Len(s) : s[i] \in S
  BY LenProperties, ElementOfSeq
<1>2. PICK a : a = SubSeq(s, 1, k - 1)
  OBVIOUS
<1>3. PICK b : b = SubSeq(s, k + 1, Len(s))
  OBVIOUS
<1>4. a \in Seq(S) /\ Len(a) = k - 1 /\ \A i \in 1..k - 1 : a[i] = s[i]
  BY <1>1, <1>2, SubSeqProperties
<1>5. b \in Seq(S) /\ Len(b) = Len(s) - k /\ \A i \in 1..Len(s) - k : b[i] = s[k + i]
  BY <1>1, <1>3, SubSeqProperties
<1>6. PICK c : c = a \o b
  OBVIOUS
<1>7. /\ c \in Seq(S) /\ Len(c) = Len(a) + Len(b)
      /\ \A i \in 1..Len(a) + Len(b) : c[i] = IF i <= Len(a) THEN a[i] ELSE b[i - Len(a)]
  BY ONLY <1>4, <1>5, <1>6, ConcatProperties
<1>8. Len(c) = Len(s) - 1
  BY <1>1, <1>4, <1>5, <1>7
<1>9. ASSUME NEW i \in 1..Len(s) - 1 PROVE c[i] = IF i < k THEN s[i] ELSE s[i + 1]
  <2>a. i \in Int /\ k \in Int /\ i \in 1..Len(a) + Len(b)
    BY <1>1, <1>4, <1>5
  <2>b. c[i] = IF i <= Len(a) THEN a[i] ELSE b[i - Len(a)]
    BY <2>a, <1>7
  <2>1. CASE i < k
    <3>1. i <= Len(a) /\ i \in 1..k - 1
      BY <2>1, <2>a, <1>4
    <3> QED BY <2>1, <2>b, <3>1, <1>4
  <2>2. CASE i >= k
    <3>1. c[i] = b[i - (k - 1)] /\ i - (k - 1) \in 1..Len(s) - k
      BY <2>2, <2>a, <2>b, <1>1, <1>4
    <3>2. b[i - (k - 1)] = s[k + (i - (k - 1))] /\ k + (i - (k - 1)) = i + 1
      BY <3>1, <1>1, <1>5
    <3> QED BY <2>2, <3>1, <3>2
  <2> QED BY <2>1, <2>2
<1>10. RemoveAt(s, k) = c
  BY <1>2, <1>3, <1>6 DEF RemoveAt
<1> QED BY <1>7, <1>8, <1>9, <1>10

-----------------------------------------------------------------------------
(* Types.                                                                  *)

Entry(n, A) == [token : 1..n, message : A \union {None}]

StateTypes ==
    /\ connected \in {0 - 1, 0, 1} /\ attempt \in {"none", "open", "ended"}
    /\ online \in BOOLEAN /\ terminated \in BOOLEAN
    /\ subscribed \subseteq Topics /\ ready \subseteq Topics
    /\ token \in 0..MaxPublished /\ delivered \subseteq 1..token /\ early \subseteq delivered

MessageTypes ==
    /\ topicOf \in Seq(Topics) /\ Len(topicOf) <= MaxArrivals
    /\ inbox \in Seq(Arrived) /\ freed \in [Arrived -> Nat] /\ misnamed \subseteq Arrived
    /\ queues \in [Topics -> Seq(Arrived)]
    /\ \A t \in Topics : Len(queues[t]) <= Capacity
    /\ received \in [Topics -> Seq(Arrived)] /\ mine \in Arrived \union {None}
    /\ pending \in Seq(Entry(token, Arrived))

CallType == call \in Places

Types == StateTypes /\ MessageTypes /\ CallType

(* No two entries have one token, and the one that publish is about to     *)
(* store is new.                                                           *)
TokensInv ==
    /\ \A i, j \in 1..Len(pending) : pending[i].token = pending[j].token => i = j
    /\ call.at = "storing" =>
           token > 0 /\ \A i \in 1..Len(pending) : pending[i].token # token

(* Sequences hold a message once, and what the library still offers is in   *)
(* no queue.                                                               *)
OnceInv ==
    /\ Distinct(inbox)
    /\ \A t \in Topics : Distinct(queues[t]) /\ ToSet(queues[t]) \cap ToSet(inbox) = {}

TypesInv == Types /\ TokensInv /\ OnceInv

LEMMA ArrivedNumbers == ASSUME Types PROVE Arrived = 1..Len(topicOf) /\ Len(topicOf) \in Nat
BY LenProperties DEF Types, MessageTypes, Arrived

LEMMA NoneIsNew == ASSUME Types PROVE None \notin Arrived
BY ArrivedNumbers

LEMMA CallIs ==
    /\ Idle \in Places /\ [at |-> "connecting"] \in Places /\ [at |-> "gone"] \in Places
    /\ \A t \in Topics : [at |-> "polling", topic |-> t] \in Places
    /\ \A m \in Arrived \union {None} : [at |-> "storing", message |-> m] \in Places
<1>1. Idle \in Places /\ [at |-> "connecting"] \in Places /\ [at |-> "gone"] \in Places
  BY DEF Places, Idle
<1>2. ASSUME NEW t \in Topics PROVE [at |-> "polling", topic |-> t] \in Places
  BY DEF Places
<1>3. ASSUME NEW m \in Arrived \union {None} PROVE [at |-> "storing", message |-> m] \in Places
  BY DEF Places
<1> QED BY <1>1, <1>2, <1>3

LEMMA CallFields ==
    ASSUME CallType
    PROVE  /\ call.at = "storing" => call.message \in Arrived \union {None}
           /\ call.at = "polling" => call.topic \in Topics
           /\ call = Idle => call.at = "idle"
BY DEF CallType, Places, Idle

LEMMA InitTypes == Init => TypesInv
<1> SUFFICES ASSUME Init PROVE TypesInv
  OBVIOUS
<1>1. Len(<<>>) = 0 /\ \A S : <<>> \in Seq(S)
  BY EmptySeq
<1>2. Arrived = {}
  BY <1>1, LenProperties DEF Init, Arrived
<1>3. freed \in [Arrived -> Nat]
  BY <1>2 DEF Init, Arrived
<1>a. online \in BOOLEAN /\ terminated \in BOOLEAN
  BY DEF Init
<1>4. StateTypes
  BY <1>a DEF Init, StateTypes
<1>5. MessageTypes
  BY <1>1, <1>3 DEF Init, MessageTypes
<1>6. CallType
  BY CallIs DEF Init, CallType
<1>7. TokensInv /\ OnceInv
  BY <1>1 DEF Init, TokensInv, OnceInv, Distinct, ToSet, Idle
<1> QED BY <1>4, <1>5, <1>6, <1>7 DEF TypesInv, Types

\* What leaves the messages, the tokens and what publish stores alone.
LEMMA SameMessagesTypes ==
    ASSUME TypesInv, UNCHANGED <<topicOf, inbox, misnamed, messages, pending, token>>,
           StateTypes', CallType', call'.at = "storing" => call.at = "storing"
    PROVE  TypesInv'
<1>1. Arrived' = Arrived
  BY DEF Arrived
<1>2. MessageTypes'
  BY <1>1 DEF TypesInv, Types, MessageTypes, messages, Entry
<1>3. TokensInv' /\ OnceInv'
  BY DEF TypesInv, TokensInv, OnceInv, messages, Distinct
<1> QED BY <1>2, <1>3 DEF TypesInv, Types

LEMMA SameCall ==
    ASSUME CallType, call' = call, Arrived \subseteq Arrived' PROVE CallType'
BY DEF CallType, Places

LEMMA SameArrived == ASSUME topicOf' = topicOf PROVE Arrived' = Arrived /\ Places' = Places
BY DEF Arrived, Places

\* The steps that only concern the connection, and the start of a poll.
LEMMA ConnectionTypes == ASSUME TypesInv PROVE
    /\ \A b \in BOOLEAN : CallConnect(b) \/ ConnectEnds(b) \/ ConnectionLost(b) => TypesInv'
    /\ ConnectReturns \/ Reconnected => TypesInv'
    /\ \A t \in Topics : CallPoll(t) => TypesInv'
<1>1. ASSUME NEW b \in BOOLEAN, CallConnect(b) PROVE TypesInv'
  <2>1. UNCHANGED <<topicOf, inbox, misnamed, messages, pending, token>>
    BY <1>1 DEF CallConnect, library, histories
  <2>2. StateTypes'
    BY <1>1 DEF TypesInv, Types, StateTypes, CallConnect, library, histories, messages
  <2>3. CallType' /\ call'.at # "storing"
    BY <1>1, <2>1, SameArrived, CallIs DEF CallConnect, CallType, Idle
  <2> QED BY <2>1, <2>2, <2>3, SameMessagesTypes
<1>2. ASSUME NEW b \in BOOLEAN, ConnectEnds(b) PROVE TypesInv'
  <2>1. UNCHANGED <<topicOf, inbox, misnamed, messages, pending, token>>
    BY <1>2 DEF ConnectEnds, library, histories
  <2>2. StateTypes'
    BY <1>2 DEF TypesInv, Types, StateTypes, ConnectEnds, library, histories, messages
  <2>3. CallType' /\ call' = call
    BY <1>2, <2>1, SameArrived DEF TypesInv, Types, ConnectEnds, CallType
  <2> QED BY <2>1, <2>2, <2>3, SameMessagesTypes
<1>3. ASSUME ConnectReturns PROVE TypesInv'
  <2>1. UNCHANGED <<topicOf, inbox, misnamed, messages, pending, token>>
    BY <1>3 DEF ConnectReturns, library, histories
  <2>2. StateTypes'
    BY <1>3 DEF TypesInv, Types, StateTypes, ConnectReturns, library, histories, messages
  <2>3. CallType' /\ call'.at # "storing"
    BY <1>3, <2>1, SameArrived, CallIs DEF ConnectReturns, CallType, Idle
  <2> QED BY <2>1, <2>2, <2>3, SameMessagesTypes
<1>4. ASSUME NEW b \in BOOLEAN, ConnectionLost(b) PROVE TypesInv'
  <2>1. UNCHANGED <<topicOf, inbox, misnamed, messages, pending, token>>
    BY <1>4 DEF ConnectionLost, library, histories
  <2>2. StateTypes'
    BY <1>4 DEF TypesInv, Types, StateTypes, ConnectionLost, library, histories, messages
  <2>3. CallType' /\ call' = call
    BY <1>4, <2>1, SameArrived DEF TypesInv, Types, ConnectionLost, CallType
  <2> QED BY <2>1, <2>2, <2>3, SameMessagesTypes
<1>5. ASSUME Reconnected PROVE TypesInv'
  <2>1. UNCHANGED <<topicOf, inbox, misnamed, messages, pending, token>>
    BY <1>5 DEF Reconnected, library, histories
  <2>2. StateTypes'
    BY <1>5 DEF TypesInv, Types, StateTypes, Reconnected, library, histories, messages
  <2>3. CallType' /\ call' = call
    BY <1>5, <2>1, SameArrived DEF TypesInv, Types, Reconnected, CallType
  <2> QED BY <2>1, <2>2, <2>3, SameMessagesTypes
<1>6. ASSUME NEW t \in Topics, CallPoll(t) PROVE TypesInv'
  <2>1. UNCHANGED <<topicOf, inbox, misnamed, messages, pending, token>>
    BY <1>6 DEF CallPoll, library, histories
  <2>2. StateTypes'
    BY <1>6 DEF TypesInv, Types, StateTypes, CallPoll, library, histories, messages
  <2>3. CallType' /\ call'.at # "storing"
    BY <1>6, <2>1, SameArrived, CallIs DEF CallPoll, CallType, Idle
  <2> QED BY <2>1, <2>2, <2>3, SameMessagesTypes
<1> QED BY <1>1, <1>2, <1>3, <1>4, <1>5, <1>6

LEMMA PollReturnsTypes ==
    ASSUME TypesInv, NEW b \in BOOLEAN, PollReturns(b) PROVE TypesInv'
<1>1. /\ UNCHANGED <<topicOf, inbox, misnamed, subscribed, queues, mine, received, freed, pending,
                     token>>
      /\ Arrived' = Arrived /\ call' = Idle
  BY SameArrived DEF PollReturns, library, histories
<1>2. ready' \subseteq Topics
  BY CallFields DEF PollReturns, TypesInv, Types, StateTypes
<1>3. StateTypes'
  BY <1>2 DEF PollReturns, TypesInv, Types, StateTypes, library, histories
<1>4. MessageTypes'
  BY <1>1 DEF TypesInv, Types, MessageTypes, Entry
<1>5. CallType'
  BY <1>1, SameArrived, CallIs DEF CallType
<1>6. TokensInv' /\ OnceInv'
  BY <1>1 DEF TypesInv, TokensInv, OnceInv, Distinct, Idle
<1> QED BY <1>3, <1>4, <1>5, <1>6 DEF TypesInv, Types

\* A message that arrives is new.
LEMMA ArriveTypes ==
    ASSUME TypesInv, NEW t \in Topics, Arrive(t)
    PROVE  /\ TypesInv' /\ Arrived' = Arrived \union {Len(topicOf')}
           /\ Len(topicOf') \in Nat \ Arrived
           /\ ToSet(inbox') = ToSet(inbox) \union {Len(topicOf')}
           /\ freed' = [m \in Arrived' |-> IF m \in Arrived THEN freed[m] ELSE 0]
<1> USE DEF TypesInv
<1>1. /\ topicOf' \in Seq(Topics) /\ Len(topicOf') = Len(topicOf) + 1 /\ Len(topicOf) \in Nat
      /\ DOMAIN topicOf' = 1..Len(topicOf')
  BY AppendProperties, LenProperties DEF Arrive, Types, MessageTypes
<1>2. Arrived = 1..Len(topicOf)
  BY ArrivedNumbers
<1>3. Arrived' = Arrived \union {Len(topicOf')} /\ Len(topicOf') \notin Arrived
  BY <1>1, <1>2 DEF Arrived
<1>4. inbox \in Seq(Arrived') /\ Len(topicOf') \in Arrived' /\ Len(topicOf') \notin ToSet(inbox)
  <2>1. inbox \in Seq(Arrived) /\ Arrived \subseteq Arrived'
    BY <1>3 DEF Types, MessageTypes
  <2>2. inbox \in Seq(Arrived')
    BY <2>1, SeqMonotonic
  <2>3. ToSet(inbox) \subseteq Arrived
    BY <2>1, LenProperties, ElementOfSeq DEF ToSet
  <2> QED BY <2>2, <2>3, <1>3
<1>5. /\ inbox' \in Seq(Arrived') /\ Distinct(inbox')
      /\ ToSet(inbox') = ToSet(inbox) \union {Len(topicOf')}
  BY <1>4, AppendSet DEF Arrive, OnceInv
<1>6. freed' = [m \in Arrived' |-> IF m \in Arrived THEN freed[m] ELSE 0]
  <2>1. freed \in [1..Len(topicOf) -> Nat]
    BY <1>2 DEF Types, MessageTypes
  <2>2. freed \in Seq(Nat) /\ Len(freed) = Len(topicOf)
    BY <2>1, <1>1, LenProperties, SeqDef
  <2>3. /\ freed' \in Seq(Nat) /\ Len(freed') = Len(topicOf') /\ freed'[Len(topicOf')] = 0
        /\ \A m \in 1..Len(topicOf) : freed'[m] = freed[m]
    BY <2>2, <1>1, AppendProperties DEF Arrive
  <2>4. freed' \in [Arrived' -> Nat]
    BY <2>3, <1>1, <1>2, <1>3, LenProperties
  <2> QED BY <2>3, <2>4, <1>1, <1>2, <1>3
<1>7. freed' \in [Arrived' -> Nat]
  BY <1>6 DEF Types, MessageTypes
<1>8. /\ queues' = queues /\ received' = received
      /\ queues' \in [Topics -> Seq(Arrived')] /\ received' \in [Topics -> Seq(Arrived')]
  <2>1. Seq(Arrived) \subseteq Seq(Arrived')
    BY <1>3, SeqMonotonic
  <2> QED BY <2>1 DEF Arrive, Types, MessageTypes
<1>9. pending' = pending /\ token' = token /\ pending' \in Seq(Entry(token', Arrived'))
  <2>1. Entry(token, Arrived) \subseteq Entry(token, Arrived')
    BY <1>3 DEF Entry
  <2>2. pending' = pending /\ token' = token /\ pending \in Seq(Entry(token, Arrived))
    BY DEF Arrive, Types, MessageTypes
  <2> QED BY <2>1, <2>2, SeqMonotonic
<1>10. MessageTypes'
  <2>1. misnamed' \subseteq Arrived'
    BY <1>3 DEF MessageTypes, Types, Arrive, histories
  <2>2. /\ Len(topicOf') <= MaxArrivals /\ mine' \in Arrived' \union {None}
        /\ \A u \in Topics : Len(queues'[u]) <= Capacity
    BY <1>1, <1>3 DEF MessageTypes, Types, Arrive
  <2> QED BY ONLY <1>1, <1>3, <1>5, <1>7, <1>8, <1>9, <2>1, <2>2 DEF MessageTypes
<1>11. StateTypes'
  BY DEF StateTypes, Types, Arrive, histories
<1>12. CallType'
  BY <1>3, SameCall DEF Types, Arrive
<1>13. TokensInv' /\ OnceInv'
  <2>1. \A u \in Topics : Len(topicOf') \notin ToSet(queues[u])
    <3> SUFFICES ASSUME NEW u \in Topics PROVE ToSet(queues[u]) \subseteq Arrived
      BY <1>3
    <3>1. queues[u] \in Seq(Arrived)
      BY DEF Types, MessageTypes
    <3> QED BY <3>1, LenProperties, ElementOfSeq DEF ToSet
  <2> QED BY <2>1, <1>5, <1>8, <1>9 DEF TokensInv, OnceInv, Arrive
<1> QED BY <1>1, <1>3, <1>5, <1>6, <1>10, <1>11, <1>12, <1>13 DEF Types

\* The three ends of msg_arvd.
LEMMA IgnoreTypes ==
    ASSUME TypesInv, UNCHANGED <<inbox, misnamed, messages, connected, attempt, online, topicOf,
                                 delivered, early, pending, token, call, terminated>>
    PROVE  TypesInv'
<1>1. StateTypes' /\ CallType'
  BY SameArrived DEF TypesInv, Types, StateTypes, CallType, messages
<1> QED BY <1>1, SameMessagesTypes

LEMMA EnqueueTypes ==
    ASSUME TypesInv, NEW given \in LengthGiven, MessageArrived(given), inbox # <<>>,
           NEW key, Enqueue(Head(inbox), key)
    PROVE  /\ TypesInv' /\ key \in Topics /\ Head(inbox) \in ToSet(inbox)
           /\ ToSet(inbox') = ToSet(inbox) \ {Head(inbox)}
           /\ ToSet(queues'[key]) = ToSet(queues[key]) \union {Head(inbox)}
           /\ \A t \in Topics \ {key} : queues'[t] = queues[t]
<1> USE DEF TypesInv, Types
<1>1. /\ Head(inbox) \in Arrived /\ Head(inbox) \in ToSet(inbox)
      /\ inbox' \in Seq(Arrived) /\ ToSet(inbox') = ToSet(inbox) \ {Head(inbox)}
      /\ Distinct(inbox')
  BY TailSet DEF MessageTypes, OnceInv, Enqueue
<1>2. /\ key \in Topics /\ queues[key] \in Seq(Arrived) /\ Distinct(queues[key])
      /\ Head(inbox) \notin ToSet(queues[key])
  BY <1>1 DEF Enqueue, StateTypes, MessageTypes, OnceInv
<1>3. /\ queues'[key] = Append(queues[key], Head(inbox))
      /\ \A t \in Topics \ {key} : queues'[t] = queues[t]
  BY <1>2 DEF Enqueue, MessageTypes
<1>4. /\ queues'[key] \in Seq(Arrived) /\ Len(queues'[key]) = Len(queues[key]) + 1
      /\ Distinct(queues'[key])
      /\ ToSet(queues'[key]) = ToSet(queues[key]) \union {Head(inbox)}
  BY <1>1, <1>2, <1>3, AppendSet
<1>5. queues' \in [Topics -> Seq(Arrived)]
  BY <1>1, <1>2, <1>4, <1>3 DEF Enqueue, MessageTypes
<1>6. \A t \in Topics : Len(queues'[t]) <= Capacity
  <2>1. Len(queues'[key]) <= Capacity
    BY <1>2, <1>4, LenProperties DEF Enqueue, HasRoom
  <2> QED BY <2>1, <1>3 DEF MessageTypes
<1>7. /\ UNCHANGED <<topicOf, subscribed, mine, ready, received, freed, connected, attempt, online,
                     delivered, early, pending, token, call, terminated>>
      /\ Arrived' = Arrived
  BY SameArrived DEF Enqueue, MessageArrived
<1>8. MessageTypes'
  <2>1. misnamed' \subseteq Arrived'
    BY <1>1, <1>7 DEF MessageArrived, MessageTypes
  <2> QED BY <1>1, <1>5, <1>6, <1>7, <2>1 DEF MessageTypes, Entry
<1>9. StateTypes' /\ CallType'
  BY <1>7, SameArrived DEF StateTypes, CallType
<1>10. TokensInv' /\ OnceInv'
  BY <1>1, <1>3, <1>4, <1>7 DEF TokensInv, OnceInv
<1> QED BY <1>1, <1>2, <1>3, <1>4, <1>8, <1>9, <1>10

\* Giving messages back changes their counts only.
LEMMA FreeTypes ==
    ASSUME Types, NEW ms, freed' = Free(ms), Arrived' = Arrived
    PROVE  /\ freed' \in [Arrived' -> Nat]
           /\ \A m \in Arrived : freed'[m] = IF m \in ms THEN freed[m] + 1 ELSE freed[m]
BY DEF Types, MessageTypes, Free

LEMMA RefuseTypes ==
    ASSUME TypesInv, NEW given \in LengthGiven, MessageArrived(given),
           NEW key, Refuse(Head(inbox), key)
    PROVE  TypesInv'
<1> USE DEF TypesInv, Types
<1>1. /\ UNCHANGED <<connected, attempt, online, topicOf, delivered, early, inbox, misnamed,
                     pending, token, call, terminated, subscribed, queues, mine, ready, received>>
      /\ Arrived' = Arrived
  BY SameArrived DEF Refuse, MessageArrived
<1>2. freed' \in [Arrived' -> Nat]
  BY <1>1, FreeTypes DEF Refuse
<1>3. MessageTypes'
  BY <1>1, <1>2 DEF MessageTypes, Entry
<1>4. StateTypes' /\ CallType'
  BY <1>1, SameArrived DEF StateTypes, CallType
<1>5. TokensInv' /\ OnceInv'
  BY <1>1 DEF TokensInv, OnceInv, Distinct
<1> QED BY <1>3, <1>4, <1>5

LEMMA MessageArrivedTypes ==
    ASSUME TypesInv, NEW given \in LengthGiven, MessageArrived(given) PROVE TypesInv'
<1>1. PICK key : \/ Ignore(Head(inbox), key)
                 \/ Enqueue(Head(inbox), key)
                 \/ Refuse(Head(inbox), key)
  BY DEF MessageArrived
<1>2. CASE Ignore(Head(inbox), key)
  BY <1>2, IgnoreTypes DEF Ignore, MessageArrived
<1>3. CASE Enqueue(Head(inbox), key)
  BY <1>3, EnqueueTypes DEF MessageArrived
<1>4. CASE Refuse(Head(inbox), key)
  BY <1>4, RefuseTypes
<1> QED BY <1>1, <1>2, <1>3, <1>4

LEMMA SubscribeTypes == ASSUME TypesInv, NEW t \in Topics, Subscribe(t) PROVE TypesInv'
<1>1. /\ UNCHANGED <<topicOf, inbox, misnamed, queues, mine, received, freed, pending, token, call>>
      /\ Arrived' = Arrived
  BY SameArrived DEF Subscribe, library, histories
<1>2. StateTypes'
  BY DEF TypesInv, Types, StateTypes, Subscribe, library, histories
<1>3. MessageTypes' /\ CallType'
  BY <1>1, SameArrived DEF TypesInv, Types, MessageTypes, CallType, Entry
<1>4. TokensInv' /\ OnceInv'
  BY <1>1 DEF TypesInv, TokensInv, OnceInv, Distinct
<1> QED BY <1>2, <1>3, <1>4 DEF TypesInv, Types

LEMMA RecvTypes ==
    ASSUME TypesInv, NEW t \in Topics, Recv(t)
    PROVE  /\ TypesInv' /\ mine' \in ToSet(queues[t]) /\ mine' \in Arrived
           /\ ToSet(queues'[t]) = ToSet(queues[t]) \ {mine'}
           /\ \A u \in Topics \ {t} : queues'[u] = queues[u]
<1> USE DEF TypesInv, Types
<1>1. /\ UNCHANGED <<connected, attempt, online, topicOf, delivered, early, inbox, misnamed,
                     freed, pending, token, call, terminated, subscribed>>
      /\ Arrived' = Arrived
  BY SameArrived DEF Recv, library, histories
<1>2. /\ queues[t] \in Seq(Arrived) /\ queues[t] # <<>> /\ Distinct(queues[t])
      /\ Len(queues[t]) <= Capacity /\ mine' = Head(queues[t]) /\ queues'[t] = Tail(queues[t])
      /\ \A u \in Topics \ {t} : queues'[u] = queues[u]
  BY DEF Recv, MessageTypes, OnceInv, Taken
<1>3. /\ mine' \in Arrived /\ mine' \in ToSet(queues[t])
      /\ queues'[t] \in Seq(Arrived) /\ Len(queues'[t]) <= Capacity /\ Distinct(queues'[t])
      /\ ToSet(queues'[t]) = ToSet(queues[t]) \ {mine'}
  BY <1>2, TailSet
<1>4. queues' \in [Topics -> Seq(Arrived)]
  BY <1>2, <1>3 DEF Recv, MessageTypes
<1>5. received' \in [Topics -> Seq(Arrived)]
  <2>1. Append(received[t], mine') \in Seq(Arrived)
    BY <1>3, AppendProperties DEF MessageTypes
  <2> QED BY <2>1, <1>2 DEF Recv, MessageTypes, Taken
<1>6. \A u \in Topics : Len(queues'[u]) <= Capacity
  BY <1>2, <1>3 DEF MessageTypes
<1>7. MessageTypes'
  BY <1>1, <1>3, <1>4, <1>5, <1>6 DEF MessageTypes, Entry
<1>8. StateTypes' /\ CallType'
  BY <1>1, SameArrived DEF StateTypes, CallType, Recv
<1>9. TokensInv' /\ OnceInv'
  BY <1>1, <1>2, <1>3 DEF TokensInv, OnceInv
<1> QED BY <1>2, <1>3, <1>7, <1>8, <1>9

LEMMA DropMineTypes == ASSUME TypesInv, DropMine PROVE TypesInv'
<1> USE DEF TypesInv, Types
<1>1. /\ UNCHANGED <<connected, attempt, online, topicOf, delivered, early, inbox, misnamed,
                     pending, token, call, terminated, subscribed, queues, ready, received>>
      /\ Arrived' = Arrived /\ mine' = None
  BY SameArrived DEF DropMine, library, histories
<1>2. freed' \in [Arrived' -> Nat]
  BY <1>1, FreeTypes DEF DropMine
<1>3. MessageTypes'
  BY <1>1, <1>2 DEF MessageTypes, Entry
<1>4. StateTypes' /\ CallType'
  BY <1>1, SameArrived DEF StateTypes, CallType
<1>5. TokensInv' /\ OnceInv'
  BY <1>1 DEF TokensInv, OnceInv, Distinct
<1> QED BY <1>3, <1>4, <1>5

\* publish asks for a token ...
LEMMA CallPublishTypes ==
    ASSUME TypesInv, NEW m \in Arrived \union {None}, CallPublish(m) PROVE TypesInv'
<1> USE DEF TypesInv, Types
<1>1. /\ UNCHANGED <<connected, attempt, online, topicOf, delivered, early, inbox, misnamed,
                     pending, terminated, subscribed, queues, mine, ready, received, freed>>
      /\ Arrived' = Arrived /\ token' = token + 1
      /\ call' = [at |-> "storing", message |-> m]
  BY SameArrived DEF CallPublish, library, histories, messages
<1>2. pending' \in Seq(Entry(token', Arrived'))
  <2>1. Entry(token, Arrived) \subseteq Entry(token', Arrived')
    BY <1>1 DEF Entry, StateTypes
  <2> QED BY <1>1, <2>1, SeqMonotonic DEF MessageTypes
<1>3. MessageTypes'
  BY <1>1, <1>2 DEF MessageTypes
<1>4. StateTypes'
  BY <1>1 DEF StateTypes, CallPublish
<1>5. CallType'
  BY <1>1, SameArrived, CallIs DEF CallType
<1>6. TokensInv'
  <2>1. \A i \in 1..Len(pending) : pending[i] \in Entry(token, Arrived)
    BY ElementOfSeq DEF MessageTypes
  <2>2. \A i \in 1..Len(pending) : pending[i].token \in 1..token
    BY <2>1 DEF Entry
  <2> QED BY <1>1, <2>2 DEF TokensInv, StateTypes
<1>7. OnceInv'
  BY <1>1 DEF OnceInv, Distinct
<1> QED BY <1>3, <1>4, <1>5, <1>6, <1>7

\* ... and stores the message behind the others.
LEMMA StorePendingTypes ==
    ASSUME TypesInv, StorePending
    PROVE  /\ TypesInv' /\ call.message \in Arrived \union {None}
           /\ Len(pending') = Len(pending) + 1 /\ Len(pending) \in Nat
           /\ pending'[Len(pending')].message = call.message
           /\ \A i \in 1..Len(pending) : pending'[i] = pending[i]
<1> USE DEF TypesInv, Types
<1> DEFINE entry == [token |-> token, message |-> call.message]
<1>1. /\ UNCHANGED <<connected, attempt, online, topicOf, delivered, early, inbox, misnamed,
                     terminated, token, subscribed, queues, ready, received, freed>>
      /\ Arrived' = Arrived /\ call' = Idle
      /\ mine' = IF call.message = None THEN mine ELSE None
  BY SameArrived DEF StorePending, library, histories
<1>2. call.message \in Arrived \union {None} /\ entry \in Entry(token, Arrived)
  BY CallFields DEF StorePending, Entry, TokensInv, StateTypes
<1>3. pending' = Append(pending, entry) /\ pending \in Seq(Entry(token, Arrived))
  BY DEF StorePending, MessageTypes
<1> HIDE DEF entry
<1>4. /\ pending' \in Seq(Entry(token, Arrived)) /\ Len(pending') = Len(pending) + 1
      /\ Len(pending) \in Nat /\ pending'[Len(pending')] = entry
      /\ \A i \in 1..Len(pending) : pending'[i] = pending[i]
  BY <1>2, <1>3, AppendProperties, LenProperties
<1>5. MessageTypes'
  BY <1>1, <1>4 DEF MessageTypes, Entry
<1>6. StateTypes' /\ CallType'
  BY <1>1, SameArrived, CallIs DEF StateTypes, CallType
<1>7. TokensInv'
  <2>1. entry.token = token /\ \A i \in 1..Len(pending) : pending[i].token # token
    BY DEF entry, StorePending, TokensInv
  <2> QED BY <1>1, <1>4, <2>1 DEF TokensInv, Idle
<1>8. OnceInv'
  BY <1>1 DEF OnceInv, Distinct
<1> QED BY <1>2, <1>4, <1>5, <1>6, <1>7, <1>8 DEF entry

\* The entry of a token, if it is there, is taken out.
LEMMA ErasedEntries ==
    ASSUME TypesInv, NEW tok, tok \notin {e.token : e \in ToSet(pending)}
    PROVE  Erased(tok) = pending
<1>1. pending \in Seq(Entry(token, Arrived))
  BY DEF TypesInv, Types, MessageTypes
<1>2. EntriesOf(tok) = {}
  BY DEF EntriesOf, ToSet
<1> QED BY <1>2 DEF Erased

LEMMA ErasedOne ==
    ASSUME TypesInv, NEW k \in 1..Len(pending)
    PROVE  /\ Erased(pending[k].token) \in Seq(Entry(token, Arrived))
           /\ Len(Erased(pending[k].token)) = Len(pending) - 1
           /\ \A i \in 1..Len(pending) - 1 :
                  Erased(pending[k].token)[i] = IF i < k THEN pending[i] ELSE pending[i + 1]
<1>1. pending \in Seq(Entry(token, Arrived)) /\ DOMAIN pending = 1..Len(pending)
  BY LenProperties DEF TypesInv, Types, MessageTypes
<1>2. EntriesOf(pending[k].token) = {k}
  BY <1>1 DEF EntriesOf, TypesInv, TokensInv
<1>3. Erased(pending[k].token) = RemoveAt(pending, k)
  BY <1>2 DEF Erased
<1>4. /\ RemoveAt(pending, k) \in Seq(Entry(token, Arrived))
      /\ Len(RemoveAt(pending, k)) = Len(pending) - 1
      /\ \A i \in 1..Len(pending) - 1 :
             RemoveAt(pending, k)[i] = IF i < k THEN pending[i] ELSE pending[i + 1]
  BY <1>1, RemoveAtElements
<1> QED BY <1>3, <1>4

\* What is left of the entries: each was one before, another for another.
LEMMA EntriesLeft ==
    ASSUME TypesInv, NEW k \in 1..Len(pending), pending' = Erased(pending[k].token)
    PROVE  /\ Len(pending) \in Nat \ {0} /\ Len(pending') = Len(pending) - 1
           /\ \A i \in 1..Len(pending') : pending'[i] = pending[IF i < k THEN i ELSE i + 1]
<1>1. pending \in Seq(Entry(token, Arrived)) /\ Len(pending) \in Nat
  BY LenProperties DEF TypesInv, Types, MessageTypes
<1>2. /\ Len(pending') = Len(pending) - 1
      /\ \A i \in 1..Len(pending) - 1 :
             pending'[i] = IF i < k THEN pending[i] ELSE pending[i + 1]
  BY ErasedOne
<1> QED BY <1>1, <1>2

LEMMA DeliveryTypes ==
    ASSUME TypesInv, NEW tok \in 1..MaxPublished, DeliveryComplete(tok) PROVE TypesInv'
<1> USE DEF TypesInv, Types
<1>1. /\ UNCHANGED <<connected, attempt, online, topicOf, inbox, misnamed, terminated, token, call,
                     mine, subscribed, queues, ready, received>>
      /\ Arrived' = Arrived /\ pending' = Erased(tok)
  BY SameArrived DEF DeliveryComplete
<1>2. freed' \in [Arrived' -> Nat]
  BY <1>1, FreeTypes DEF DeliveryComplete
<1>3. pending \in Seq(Entry(token, Arrived)) /\ DOMAIN pending = 1..Len(pending)
  BY LenProperties DEF MessageTypes
<1>4. pending' \in Seq(Entry(token, Arrived)) /\ TokensInv'
  <2>1. CASE tok \notin {e.token : e \in ToSet(pending)}
    <3>1. pending' = pending
      BY <2>1, <1>1, ErasedEntries
    <3> QED BY <1>1, <1>3, <3>1 DEF TokensInv
  <2>2. CASE tok \in {e.token : e \in ToSet(pending)}
    <3> PICK k \in 1..Len(pending) : tok = pending[k].token
      BY <2>2, <1>3 DEF ToSet
    <3>1. pending' \in Seq(Entry(token, Arrived))
      BY <1>1, ErasedOne
    <3>2. /\ Len(pending) \in Nat \ {0} /\ Len(pending') = Len(pending) - 1
          /\ \A i \in 1..Len(pending') : pending'[i] = pending[IF i < k THEN i ELSE i + 1]
      BY <1>1, EntriesLeft
    <3>3. ASSUME NEW i \in 1..Len(pending'), NEW j \in 1..Len(pending'),
                 pending'[i].token = pending'[j].token
          PROVE  i = j
      <4>1. /\ (IF i < k THEN i ELSE i + 1) \in 1..Len(pending)
            /\ (IF j < k THEN j ELSE j + 1) \in 1..Len(pending)
        BY <3>2
      <4>2. (IF i < k THEN i ELSE i + 1) = (IF j < k THEN j ELSE j + 1)
        BY <3>2, <3>3, <4>1 DEF TokensInv
      <4> QED BY <4>2, <3>2
    <3>4. ASSUME call.at = "storing", NEW i \in 1..Len(pending')
          PROVE  pending'[i].token # token
      <4>1. (IF i < k THEN i ELSE i + 1) \in 1..Len(pending)
        BY <3>2
      <4> QED BY <3>2, <3>4, <4>1 DEF TokensInv
    <3> QED BY <1>1, <3>1, <3>3, <3>4 DEF TokensInv
  <2> QED BY <2>1, <2>2
<1>5. MessageTypes'
  BY <1>1, <1>2, <1>4 DEF MessageTypes, Entry
<1>6. StateTypes' /\ CallType'
  <2>1. delivered' \subseteq 1..token /\ early' \subseteq delivered'
    BY DEF DeliveryComplete, StateTypes
  <2> QED BY <1>1, <2>1, SameArrived DEF StateTypes, CallType
<1>7. OnceInv'
  BY <1>1 DEF OnceInv, Distinct
<1> QED BY <1>4, <1>5, <1>6, <1>7

LEMMA DestroyTypes ==
    ASSUME TypesInv, Destroy
    PROVE  /\ TypesInv' /\ \A t \in Topics : queues'[t] = <<>> /\ ToSet(queues'[t]) = {}
           /\ pending' = <<>> /\ Len(pending') = 0
<1> USE DEF TypesInv, Types
<1>1. /\ UNCHANGED <<connected, attempt, topicOf, inbox, misnamed, delivered, early, mine, ready,
                     received, token, terminated>>
      /\ Arrived' = Arrived /\ call' = [at |-> "gone"] /\ pending' = <<>>
      /\ online' = FALSE /\ subscribed' = {}
  BY SameArrived DEF Destroy, histories
<1>2. Len(<<>>) = 0 /\ <<>> \in Seq(Arrived) /\ <<>> \in Seq(Entry(token, Arrived))
  BY EmptySeq
<1>3. freed' \in [Arrived' -> Nat]
  BY <1>1, FreeTypes DEF Destroy
<1>4. queues' \in [Topics -> Seq(Arrived)] /\ \A t \in Topics : queues'[t] = <<>>
  BY <1>2 DEF Destroy
<1>5. MessageTypes'
  BY <1>1, <1>2, <1>3, <1>4 DEF MessageTypes, Entry
<1>6. StateTypes'
  <2>1. online' \in BOOLEAN
    BY <1>1
  <2> QED BY <1>1, <2>1 DEF StateTypes
<1>7. CallType'
  BY <1>1, SameArrived, CallIs DEF CallType
<1>8. ToSet(<<>>) = {}
  BY DEF ToSet
<1>9. TokensInv' /\ OnceInv'
  BY <1>1, <1>2, <1>4, <1>8 DEF TokensInv, OnceInv, Distinct
<1> QED BY <1>1, <1>2, <1>4, <1>5, <1>6, <1>7, <1>8, <1>9

LEMMA NextTypes == ASSUME TypesInv, [Next]_vars PROVE TypesInv'
<1>1. ASSUME NEW b \in BOOLEAN, CallConnect(b) \/ ConnectEnds(b) \/ ConnectionLost(b)
      PROVE  TypesInv'
  BY <1>1, ConnectionTypes
<1>2. CASE ConnectReturns \/ Reconnected
  BY <1>2, ConnectionTypes
<1>3. ASSUME NEW t \in Topics, Arrive(t) \/ Subscribe(t) \/ Recv(t) \/ CallPoll(t)
      PROVE  TypesInv'
  BY <1>3, ConnectionTypes, ArriveTypes, RecvTypes, SubscribeTypes
<1>4. ASSUME NEW given \in LengthGiven, MessageArrived(given) PROVE TypesInv'
  BY <1>4, MessageArrivedTypes
<1>5. ASSUME NEW isReady \in BOOLEAN, PollReturns(isReady) PROVE TypesInv'
  BY <1>5, PollReturnsTypes
<1>6. CASE DropMine
  BY <1>6, DropMineTypes
<1>7. ASSUME NEW m \in Arrived \union {None}, CallPublish(m) PROVE TypesInv'
  BY <1>7, CallPublishTypes
<1>8. CASE StorePending
  BY <1>8, StorePendingTypes
<1>9. ASSUME NEW tok \in 1..MaxPublished, DeliveryComplete(tok) PROVE TypesInv'
  BY <1>9, DeliveryTypes
<1>10. CASE Destroy
  BY <1>10, DestroyTypes
<1>11. CASE UNCHANGED vars
  <2>1. StateTypes' /\ CallType'
    BY <1>11, SameArrived
       DEF vars, library, histories, messages, TypesInv, Types, StateTypes, CallType
  <2> QED BY <1>11, <2>1, SameMessagesTypes DEF vars, library, histories
<1> QED BY <1>1, <1>2, <1>3, <1>4, <1>5, <1>6, <1>7, <1>8, <1>9, <1>10, <1>11 DEF Next

LEMMA TypesHold == Spec => []TypesInv
BY InitTypes, NextTypes, PTL DEF Spec

(* Whatever the application and the library do: every variable keeps its   *)
(* type, and no queue ever holds more than its capacity.                   *)
THEOREM MQTTTypeCorrect == Spec => []TypeOK
<1>1. TypesInv => TypeOK
  BY DEF TypesInv, TypeOK, Types, StateTypes, MessageTypes, CallType, Entry
<1> QED BY <1>1, TypesHold, PTL

-----------------------------------------------------------------------------
(* Ownership.                                                              *)

InQueue(t, m) == m \in ToSet(queues[t])
InInbox(m) == m \in ToSet(inbox)
InPending(m) == \E i \in 1..Len(pending) : pending[i].message = m

(* A message has one place, or was freed once.                             *)
OneHolder(m) ==
    /\ \A t, u \in Topics : InQueue(t, m) /\ InQueue(u, m) => t = u
    /\ \A t \in Topics : InQueue(t, m) =>
           ~InInbox(m) /\ ~InPending(m) /\ m # mine /\ freed[m] = 0
    /\ InInbox(m) => ~InPending(m) /\ m # mine /\ freed[m] = 0
    /\ InPending(m) => m # mine /\ freed[m] = 0
    /\ m = mine => freed[m] = 0
    /\ freed[m] # 0 => freed[m] = 1
    /\ freed[m] = 0 => InInbox(m) \/ InPending(m) \/ m = mine \/ \E t \in Topics : InQueue(t, m)

(* A forwarded message is the last of those that are pending, and while    *)
(* publish stores one there is none.                                       *)
ForwardInv ==
    /\ \A i \in 1..Len(pending) :
           pending[i].message # None => i = Len(pending) /\ call.at # "storing"
    /\ call.at = "storing" => call.message \in {None, mine}

OwnInv == TypesInv /\ ForwardInv /\ \A m \in Arrived : OneHolder(m)

Careful == {"fresh", "alone", "room"} \subseteq Discipline

LEMMA InitOwned == Init => OwnInv
<1> SUFFICES ASSUME Init PROVE OwnInv
  OBVIOUS
<1>1. Len(<<>>) = 0 /\ <<>> \in Seq({})
  BY EmptySeq
<1>2. Arrived = {}
  BY <1>1, LenProperties DEF Init, Arrived
<1>3. ForwardInv
  BY <1>1 DEF Init, ForwardInv, Idle
<1> QED BY <1>2, <1>3, InitTypes DEF OwnInv

\* What leaves the messages alone, and does not begin to store one.
LEMMA SameMessagesOwned ==
    ASSUME OwnInv, TypesInv', UNCHANGED <<topicOf, inbox, queues, mine, freed, pending>>,
           call' = call \/ call'.at # "storing"
    PROVE  OwnInv'
<1>1. Arrived' = Arrived
  BY DEF Arrived
<1>2. ForwardInv'
  BY DEF OwnInv, ForwardInv
<1>3. \A m \in Arrived : OneHolder(m)'
  BY <1>1 DEF OwnInv, OneHolder, InQueue, InInbox, InPending
<1> QED BY <1>1, <1>2, <1>3 DEF OwnInv

LEMMA ConnectionOwned == ASSUME OwnInv PROVE
    /\ \A b \in BOOLEAN : CallConnect(b) \/ ConnectEnds(b) \/ ConnectionLost(b) => OwnInv'
    /\ ConnectReturns \/ Reconnected => OwnInv'
    /\ \A t \in Topics : CallPoll(t) \/ Subscribe(t) => OwnInv'
    /\ \A b \in BOOLEAN : PollReturns(b) => OwnInv'
<1> USE DEF OwnInv
<1>1. ASSUME NEW b \in BOOLEAN, CallConnect(b) PROVE OwnInv'
  BY <1>1, ConnectionTypes, SameMessagesOwned DEF CallConnect, library, histories, messages, Idle
<1>2. ASSUME NEW b \in BOOLEAN, ConnectEnds(b) PROVE OwnInv'
  BY <1>2, ConnectionTypes, SameMessagesOwned DEF ConnectEnds, messages
<1>3. ASSUME NEW b \in BOOLEAN, ConnectionLost(b) PROVE OwnInv'
  BY <1>3, ConnectionTypes, SameMessagesOwned DEF ConnectionLost, messages
<1>4. ASSUME ConnectReturns PROVE OwnInv'
  BY <1>4, ConnectionTypes, SameMessagesOwned DEF ConnectReturns, library, histories, messages, Idle
<1>5. ASSUME Reconnected PROVE OwnInv'
  BY <1>5, ConnectionTypes, SameMessagesOwned DEF Reconnected, messages
<1>6. ASSUME NEW t \in Topics, CallPoll(t) PROVE OwnInv'
  BY <1>6, ConnectionTypes, SameMessagesOwned DEF CallPoll, library, histories, messages
<1>7. ASSUME NEW t \in Topics, Subscribe(t) PROVE OwnInv'
  BY <1>7, SubscribeTypes, SameMessagesOwned DEF Subscribe, library, histories
<1>8. ASSUME NEW b \in BOOLEAN, PollReturns(b) PROVE OwnInv'
  BY <1>8, PollReturnsTypes, SameMessagesOwned DEF PollReturns, library, histories, Idle
<1> QED BY <1>1, <1>2, <1>3, <1>4, <1>5, <1>6, <1>7, <1>8

\* What is held has arrived.
LEMMA HeldArrived ==
    ASSUME Types, NEW m, \/ InInbox(m) \/ (m # None /\ (InPending(m) \/ m = mine))
                         \/ \E t \in Topics : InQueue(t, m)
    PROVE  m \in Arrived
<1>1. CASE InInbox(m)
  BY <1>1, ElementOfSeq, LenProperties DEF Types, MessageTypes, InInbox, ToSet
<1>2. CASE m # None /\ m = mine
  BY <1>2 DEF Types, MessageTypes
<1>3. CASE m # None /\ InPending(m)
  <2> PICK i \in 1..Len(pending) : pending[i].message = m
    BY <1>3 DEF InPending
  <2>1. pending[i] \in Entry(token, Arrived)
    BY ElementOfSeq DEF Types, MessageTypes
  <2> QED BY <1>3, <2>1 DEF Entry
<1>4. ASSUME NEW t \in Topics, InQueue(t, m) PROVE m \in Arrived
  <2>1. queues[t] \in Seq(Arrived)
    BY DEF Types, MessageTypes
  <2> QED BY <1>4, <2>1, ElementOfSeq, LenProperties DEF InQueue, ToSet
<1> QED BY <1>1, <1>2, <1>3, <1>4

LEMMA ArriveOwned == ASSUME OwnInv, NEW t \in Topics, Arrive(t) PROVE OwnInv'
<1> USE DEF OwnInv, TypesInv
<1>1. PICK new \in Nat \ Arrived :
          /\ Arrived' = Arrived \union {new} /\ ToSet(inbox') = ToSet(inbox) \union {new}
          /\ freed' = [m \in Arrived' |-> IF m \in Arrived THEN freed[m] ELSE 0]
  BY ArriveTypes
<1>2. UNCHANGED <<queues, mine, pending, call>> /\ TypesInv'
  BY ArriveTypes DEF Arrive
<1>3. ForwardInv'
  BY <1>2 DEF ForwardInv
<1>4. ASSUME NEW m \in Arrived PROVE OneHolder(m)'
  BY <1>1, <1>2 DEF OneHolder, InQueue, InInbox, InPending
<1>5. OneHolder(new)'
  <2>1. new # None
    BY <1>1
  <2>2. new # mine /\ ~InPending(new) /\ \A u \in Topics : ~InQueue(u, new)
    BY <1>1, <2>1, HeldArrived
  <2>3. new # mine' /\ ~InPending(new)' /\ \A u \in Topics : ~InQueue(u, new)'
    BY <1>2, <2>2 DEF InPending, InQueue
  <2>4. InInbox(new)' /\ freed'[new] = 0
    BY <1>1 DEF InInbox
  <2> QED BY <2>3, <2>4 DEF OneHolder
<1> QED BY <1>1, <1>2, <1>3, <1>4, <1>5

LEMMA MessageArrivedOwned ==
    ASSUME Careful, OwnInv, NEW given \in LengthGiven, MessageArrived(given) PROVE OwnInv'
<1> USE DEF OwnInv, TypesInv
<1>1. PICK key : \/ Ignore(Head(inbox), key)
                 \/ Enqueue(Head(inbox), key)
                 \/ Refuse(Head(inbox), key)
  BY DEF MessageArrived
<1>2. CASE Ignore(Head(inbox), key)
  <2>1. TypesInv'
    BY <1>2, IgnoreTypes DEF Ignore, MessageArrived
  <2> QED BY <1>2, <2>1, SameMessagesOwned DEF Ignore, MessageArrived, messages
<1>3. CASE Enqueue(Head(inbox), key)
  <2> DEFINE m == Head(inbox)
  <2>1. inbox # <<>> /\ m \in ToSet(inbox) /\ m \in Arrived
    BY TailSet DEF MessageArrived, Types, MessageTypes, OnceInv
  <2>2. key \in Topics /\ m \notin ToSet(queues[key])
    BY <1>3, <2>1 DEF Enqueue, Types, StateTypes, OneHolder, InQueue, InInbox
  <2>3. /\ TypesInv' /\ ToSet(inbox') = ToSet(inbox) \ {m}
        /\ ToSet(queues'[key]) = ToSet(queues[key]) \union {m}
        /\ \A t \in Topics \ {key} : queues'[t] = queues[t]
    BY <1>3, <2>1, EnqueueTypes
  <2>4. UNCHANGED <<mine, freed, pending, call>> /\ Arrived' = Arrived
    BY <1>3, SameArrived DEF Enqueue, MessageArrived
  <2> HIDE DEF m
  <2>5. ForwardInv'
    BY <2>4 DEF ForwardInv
  <2>6. ASSUME NEW n \in Arrived PROVE OneHolder(n)'
    <3>1. InInbox(n)' <=> InInbox(n) /\ n # m
      BY <2>3 DEF InInbox
    <3>2. \A t \in Topics : InQueue(t, n)' <=> InQueue(t, n) \/ (t = key /\ n = m)
      BY <2>2, <2>3 DEF InQueue
    <3>3. InPending(n)' <=> InPending(n)
      BY <2>4 DEF InPending
    <3>4. OneHolder(n) /\ InInbox(m)
      BY <2>1 DEF InInbox
    <3> QED BY <2>2, <2>4, <3>1, <3>2, <3>3, <3>4 DEF OneHolder
  <2> QED BY <2>3, <2>4, <2>5, <2>6
<1>4. CASE Refuse(Head(inbox), key)
  BY <1>4 DEF Refuse, Careful
<1> QED BY <1>1, <1>2, <1>3, <1>4

LEMMA RecvOwned ==
    ASSUME Careful, OwnInv, NEW t \in Topics, Recv(t) PROVE OwnInv'
<1> USE DEF OwnInv, TypesInv
<1>1. PICK n \in Arrived :
          /\ n = mine' /\ InQueue(t, n) /\ ToSet(queues'[t]) = ToSet(queues[t]) \ {n}
          /\ \A u \in Topics \ {t} : queues'[u] = queues[u]
  BY RecvTypes DEF InQueue
<1>2. /\ UNCHANGED <<inbox, pending, freed, call>> /\ TypesInv' /\ Arrived' = Arrived
      /\ mine = None /\ None \notin Arrived
  BY RecvTypes, SameArrived, NoneIsNew DEF Recv, library, histories, Careful
<1>3. ForwardInv'
  <2>1. call.at # "storing"
    BY CallFields DEF Recv, Between, Types
  <2> QED BY <1>2, <2>1 DEF ForwardInv
<1>4. ASSUME NEW m \in Arrived PROVE OneHolder(m)'
  <2>1. /\ InInbox(m)' <=> InInbox(m)
        /\ InPending(m)' <=> InPending(m)
        /\ \A u \in Topics : InQueue(u, m)' <=> InQueue(u, m) /\ ~(u = t /\ m = n)
    BY <1>1, <1>2 DEF InInbox, InPending, InQueue
  <2>2. OneHolder(m) /\ m # mine
    BY <1>2
  <2> QED BY <1>1, <1>2, <2>1, <2>2 DEF OneHolder
<1> QED BY <1>2, <1>3, <1>4

LEMMA DropMineOwned == ASSUME OwnInv, DropMine PROVE OwnInv'
<1> USE DEF OwnInv, TypesInv
<1>1. /\ UNCHANGED <<inbox, pending, queues, call>> /\ TypesInv' /\ Arrived' = Arrived
      /\ mine' = None /\ None \notin Arrived /\ mine # None
  BY DropMineTypes, SameArrived, NoneIsNew DEF DropMine, library, histories
<1>2. \A m \in Arrived : freed'[m] = IF m \in {mine} THEN freed[m] + 1 ELSE freed[m]
  BY <1>1, FreeTypes DEF DropMine
<1>3. ForwardInv'
  <2>1. call.at # "storing"
    BY CallFields DEF DropMine, Between, Types
  <2> QED BY <1>1, <2>1 DEF ForwardInv
<1>4. ASSUME NEW m \in Arrived PROVE OneHolder(m)'
  <2>1. /\ InInbox(m)' <=> InInbox(m)
        /\ InPending(m)' <=> InPending(m)
        /\ \A u \in Topics : InQueue(u, m)' <=> InQueue(u, m)
    BY <1>1 DEF InInbox, InPending, InQueue
  <2>2. OneHolder(m) /\ freed'[m] = IF m = mine THEN freed[m] + 1 ELSE freed[m]
    BY <1>2
  <2>3. m # mine'
    BY <1>1
  <2>4. CASE m = mine
    <3>1. freed'[m] = 1
      BY <2>2, <2>4 DEF OneHolder
    <3> QED BY <2>1, <2>2, <2>3, <2>4, <3>1 DEF OneHolder
  <2>5. CASE m # mine
    BY <2>1, <2>2, <2>3, <2>5 DEF OneHolder
  <2> QED BY <2>4, <2>5
<1> QED BY <1>1, <1>3, <1>4

\* A call begins only when no forwarded message is pending ...
LEMMA CallPublishOwned ==
    ASSUME Careful, OwnInv, NEW m \in Arrived \union {None}, CallPublish(m) PROVE OwnInv'
<1> USE DEF OwnInv, TypesInv
<1>1. /\ UNCHANGED <<inbox, pending, queues, mine, freed>> /\ TypesInv' /\ Arrived' = Arrived
      /\ call' = [at |-> "storing", message |-> m] /\ m \in {None, mine}
      /\ Forwarded(pending) = {}
  BY CallPublishTypes, SameArrived DEF CallPublish, library, histories, messages, Careful
<1>2. \A i \in 1..Len(pending) : pending[i].message = None
  <2>1. DOMAIN pending = 1..Len(pending)
    BY LenProperties DEF Types, MessageTypes
  <2> QED BY <1>1, <2>1 DEF Forwarded, ToSet
<1>3. ForwardInv'
  BY <1>1, <1>2 DEF ForwardInv
<1>4. ASSUME NEW n \in Arrived PROVE OneHolder(n)'
  BY <1>1 DEF OneHolder, InInbox, InPending, InQueue
<1> QED BY <1>1, <1>3, <1>4

\* ... and the message moves from the variable to the end of the pending ones.
LEMMA StorePendingOwned ==
    ASSUME Careful, OwnInv, StorePending PROVE OwnInv'
<1> USE DEF OwnInv, TypesInv
<1>1. /\ UNCHANGED <<inbox, queues, freed>> /\ TypesInv' /\ Arrived' = Arrived
      /\ call' = Idle /\ call.at = "storing" /\ None \notin Arrived
      /\ mine' = IF call.message = None THEN mine ELSE None
  BY StorePendingTypes, SameArrived, NoneIsNew DEF StorePending, library, histories
<1>2. /\ Len(pending') = Len(pending) + 1 /\ Len(pending) \in Nat
      /\ pending'[Len(pending')].message = call.message
      /\ \A i \in 1..Len(pending) : pending'[i] = pending[i]
  BY StorePendingTypes
<1>3. call.message \in {None, mine} /\ \A i \in 1..Len(pending) : pending[i].message = None
  BY <1>1 DEF ForwardInv
<1>4. ForwardInv'
  BY <1>1, <1>2, <1>3 DEF ForwardInv, Idle
<1>5. ASSUME NEW m \in Arrived PROVE OneHolder(m)'
  <2>1. /\ InInbox(m)' <=> InInbox(m)
        /\ \A u \in Topics : InQueue(u, m)' <=> InQueue(u, m)
    BY <1>1 DEF InInbox, InQueue
  <2>2. ~InPending(m) /\ (InPending(m)' <=> m = call.message)
    BY <1>1, <1>2, <1>3 DEF InPending
  <2>3. OneHolder(m) /\ freed'[m] = freed[m]
    BY <1>1
  <2>4. m = mine' <=> m = mine /\ call.message = None
    BY <1>1, <1>3
  <2> QED BY <1>1, <1>3, <2>1, <2>2, <2>3, <2>4 DEF OneHolder
<1> QED BY <1>1, <1>4, <1>5

\* A delivery takes an entry out, and frees the message of the last one only.
LEMMA DeliveryOwned ==
    ASSUME Careful, OwnInv, NEW tok \in 1..MaxPublished, DeliveryComplete(tok) PROVE OwnInv'
<1> USE DEF OwnInv, TypesInv
<1>1. /\ UNCHANGED <<inbox, queues, mine, call>> /\ TypesInv' /\ Arrived' = Arrived
      /\ pending' = Erased(tok) /\ None \notin Arrived
  BY DeliveryTypes, SameArrived, NoneIsNew DEF DeliveryComplete
<1>2. \A m \in Arrived :
          freed'[m] = IF m \in FreedByErase(tok) THEN freed[m] + 1 ELSE freed[m]
  BY <1>1, FreeTypes DEF DeliveryComplete
<1>3. /\ pending \in Seq(Entry(token, Arrived)) /\ DOMAIN pending = 1..Len(pending)
      /\ Len(pending) \in Nat /\ (pending # <<>> => Len(pending) > 0)
  BY LenProperties, EmptySeq DEF Types, MessageTypes
<1>4. ASSUME NEW m \in Arrived, FreedByErase(tok) = {}, InPending(m)' <=> InPending(m)
      PROVE  OneHolder(m)'
  <2>1. /\ InInbox(m)' <=> InInbox(m)
        /\ \A u \in Topics : InQueue(u, m)' <=> InQueue(u, m)
    BY <1>1 DEF InInbox, InQueue
  <2>2. OneHolder(m) /\ freed'[m] = freed[m] /\ mine' = mine
    BY <1>1, <1>2, <1>4
  <2> QED BY <1>4, <2>1, <2>2 DEF OneHolder
<1>5. CASE tok \notin {e.token : e \in ToSet(pending)}
  <2>1. pending' = pending
    BY <1>1, <1>5, ErasedEntries
  <2>2. FreedByErase(tok) = {}
    BY <1>3, <1>5 DEF FreedByErase, Last, ToSet
  <2>3. ForwardInv' /\ \A m \in Arrived : InPending(m)' <=> InPending(m)
    BY <1>1, <2>1 DEF ForwardInv, InPending
  <2> QED BY <1>1, <1>4, <2>2, <2>3
<1>6. CASE tok \in {e.token : e \in ToSet(pending)}
  <2> PICK k \in 1..Len(pending) : tok = pending[k].token
    BY <1>3, <1>6 DEF ToSet
  <2>1. /\ Len(pending) > 0 /\ Len(pending') = Len(pending) - 1
        /\ \A i \in 1..Len(pending') : pending'[i] = pending[IF i < k THEN i ELSE i + 1]
    BY <1>1, EntriesLeft
  <2>2. \A i \in 1..Len(pending) : pending[i].message # None => i = Len(pending)
    BY DEF ForwardInv
  <2>3. CASE k = Len(pending)
    <3>1. FreedByErase(tok) = {pending[k].message} \ {None}
      <4>1. pending # <<>>
        BY <2>1, EmptySeq
      <4> QED BY <2>3, <4>1 DEF FreedByErase, Last
    <3>2. \A i \in 1..Len(pending') : pending'[i].message = None
      BY <2>1, <2>2, <2>3, <1>3
    <3>3. ForwardInv'
      BY <1>1, <3>2 DEF ForwardInv
    <3>4. ASSUME NEW m \in Arrived PROVE OneHolder(m)'
      <4>1. /\ InInbox(m)' <=> InInbox(m)
            /\ \A u \in Topics : InQueue(u, m)' <=> InQueue(u, m)
        BY <1>1 DEF InInbox, InQueue
      <4>2. ~InPending(m)'
        BY <1>1, <3>2 DEF InPending
      <4>3. InPending(m) <=> m = pending[k].message
        BY <1>1, <2>2, <2>3 DEF InPending
      <4>4. /\ OneHolder(m) /\ mine' = mine
            /\ freed'[m] = IF m = pending[k].message THEN freed[m] + 1 ELSE freed[m]
        BY <1>1, <1>2, <3>1
      <4>5. CASE m = pending[k].message
        <5>1. freed[m] = 0 /\ m # mine /\ ~InInbox(m) /\ \A u \in Topics : ~InQueue(u, m)
          BY <4>3, <4>4, <4>5 DEF OneHolder
        <5>2. freed'[m] = 1
          BY <4>4, <4>5, <5>1
        <5> QED BY <4>1, <4>2, <4>4, <5>1, <5>2 DEF OneHolder
      <4>6. CASE m # pending[k].message
        BY <4>1, <4>2, <4>3, <4>4, <4>6 DEF OneHolder
      <4> QED BY <4>5, <4>6
    <3> QED BY <1>1, <3>3, <3>4
  <2>4. CASE k # Len(pending)
    <3>0. Len(pending) \in 1..Len(pending) /\ k < Len(pending)
      <4>1. Len(pending) \in Nat /\ Len(pending) > 0 /\ k \in 1..Len(pending)
        BY <1>3, <2>1
      <4> QED BY ONLY <4>1, <2>4
    <3>1. FreedByErase(tok) = {}
      <4>1. pending[Len(pending)].token # tok
        BY <2>4, <3>0 DEF TokensInv
      <4> QED BY <4>1 DEF FreedByErase, Last
    <3>2. pending[k].message = None
      BY <2>2, <2>4
    <3>3. ForwardInv'
      <4>1. ASSUME NEW i \in 1..Len(pending'), pending'[i].message # None
            PROVE  i = Len(pending') /\ call.at # "storing"
        <5>1. /\ (IF i < k THEN i ELSE i + 1) \in 1..Len(pending)
              /\ pending[IF i < k THEN i ELSE i + 1].message # None
          BY <1>3, <2>1, <4>1
        <5>2. (IF i < k THEN i ELSE i + 1) = Len(pending) /\ call.at # "storing"
          BY <5>1 DEF ForwardInv
        <5> QED BY <1>3, <2>1, <5>2
      <4> QED BY <1>1, <4>1 DEF ForwardInv
    <3>4. ASSUME NEW m \in Arrived PROVE InPending(m)' <=> InPending(m)
      <4>1. ASSUME NEW i \in 1..Len(pending'), pending'[i].message = m PROVE InPending(m)
        <5>1. (IF i < k THEN i ELSE i + 1) \in 1..Len(pending)
          BY <1>3, <2>1
        <5> QED BY <2>1, <4>1, <5>1 DEF InPending
      <4>2. ASSUME NEW i \in 1..Len(pending), pending[i].message = m PROVE InPending(m)'
        <5>1. i = Len(pending) /\ i > k
          <6>1. pending[i].message # None
            BY <1>1, <4>2
          <6> QED BY <2>2, <3>0, <6>1
        <5>2. i - 1 \in 1..Len(pending') /\ pending'[i - 1] = pending[i]
          BY <1>3, <2>1, <5>1
        <5> QED BY <4>2, <5>2 DEF InPending
      <4> QED BY <4>1, <4>2 DEF InPending
    <3> QED BY <1>1, <1>4, <3>1, <3>3, <3>4
  <2> QED BY <2>3, <2>4
<1> QED BY <1>5, <1>6

LEMMA DestroyOwned == ASSUME OwnInv, Destroy PROVE OwnInv'
<1> USE DEF OwnInv, TypesInv
<1>1. /\ UNCHANGED <<inbox, mine>> /\ TypesInv' /\ Arrived' = Arrived /\ Len(pending') = 0
      /\ call' = [at |-> "gone"] /\ None \notin Arrived
      /\ \A t \in Topics : ToSet(queues'[t]) = {}
  BY DestroyTypes, SameArrived, NoneIsNew DEF Destroy
<1> DEFINE held == Queued \union {e.message : e \in Forwarded(pending)}
<1>2. \A m \in Arrived : freed'[m] = IF m \in held THEN freed[m] + 1 ELSE freed[m]
  BY <1>1, FreeTypes DEF Destroy
<1>3. ForwardInv'
  BY <1>1 DEF ForwardInv
<1>4. ASSUME NEW m \in Arrived PROVE OneHolder(m)'
  <2>1. m \in held <=> InPending(m) \/ \E t \in Topics : InQueue(t, m)
    <3>1. m \in Queued <=> \E t \in Topics : InQueue(t, m)
      BY DEF Queued, InQueue
    <3>2. m \in {e.message : e \in Forwarded(pending)} <=> InPending(m)
      <4>1. DOMAIN pending = 1..Len(pending)
        BY LenProperties DEF Types, MessageTypes
      <4> QED BY <1>1, <4>1 DEF Forwarded, ToSet, InPending
    <3> QED BY <3>1, <3>2
  <2> HIDE DEF held
  <2>2. (InInbox(m)' <=> InInbox(m)) /\ ~InPending(m)' /\ \A t \in Topics : ~InQueue(t, m)'
    BY <1>1 DEF InInbox, InPending, InQueue
  <2>3. /\ OneHolder(m) /\ mine' = mine
        /\ freed'[m] = IF m \in held THEN freed[m] + 1 ELSE freed[m]
    BY <1>1, <1>2
  <2>4. CASE m \in held
    <3>1. freed[m] = 0 /\ m # mine /\ ~InInbox(m)
      BY <2>1, <2>3, <2>4 DEF OneHolder
    <3>2. freed'[m] = 1
      BY <2>3, <2>4, <3>1
    <3> QED BY <2>2, <2>3, <3>1, <3>2 DEF OneHolder
  <2>5. CASE m \notin held
    BY <2>1, <2>2, <2>3, <2>5 DEF OneHolder
  <2> QED BY <2>4, <2>5
<1> QED BY <1>1, <1>3, <1>4

LEMMA NextOwned == ASSUME Careful, OwnInv, [Next]_vars PROVE OwnInv'
<1>1. ASSUME NEW b \in BOOLEAN, CallConnect(b) \/ ConnectEnds(b) \/ ConnectionLost(b)
      PROVE  OwnInv'
  BY <1>1, ConnectionOwned
<1>2. CASE ConnectReturns \/ Reconnected
  BY <1>2, ConnectionOwned
<1>3. ASSUME NEW t \in Topics, Arrive(t) \/ Subscribe(t) \/ Recv(t) \/ CallPoll(t)
      PROVE  OwnInv'
  BY <1>3, ConnectionOwned, ArriveOwned, RecvOwned
<1>4. ASSUME NEW given \in LengthGiven, MessageArrived(given) PROVE OwnInv'
  BY <1>4, MessageArrivedOwned
<1>5. ASSUME NEW isReady \in BOOLEAN, PollReturns(isReady) PROVE OwnInv'
  BY <1>5, ConnectionOwned
<1>6. CASE DropMine
  BY <1>6, DropMineOwned
<1>7. ASSUME NEW m \in Arrived \union {None}, CallPublish(m) PROVE OwnInv'
  BY <1>7, CallPublishOwned
<1>8. CASE StorePending
  BY <1>8, StorePendingOwned
<1>9. ASSUME NEW tok \in 1..MaxPublished, DeliveryComplete(tok) PROVE OwnInv'
  BY <1>9, DeliveryOwned
<1>10. CASE Destroy
  BY <1>10, DestroyOwned
<1>11. CASE UNCHANGED vars
  <2>1. TypesInv'
    BY <1>11, NextTypes DEF OwnInv
  <2> QED BY <1>11, <2>1, SameMessagesOwned DEF vars, library, histories, messages
<1> QED BY <1>1, <1>2, <1>3, <1>4, <1>5, <1>6, <1>7, <1>8, <1>9, <1>10, <1>11 DEF Next

-----------------------------------------------------------------------------
LEMMA OwnedCounts == ASSUME OwnInv PROVE OwnedOnce
<1> USE DEF OwnInv, TypesInv
<1>2. ASSUME NEW m \in Arrived PROVE Holders(m) + freed[m] = 1
  <2> DEFINE Qs == {t \in Topics : m \in ToSet(queues[t])}
             Ps == {e \in ToSet(pending) : e.message = m}
  <2>1. OneHolder(m) /\ freed[m] \in Nat /\ m # None
    BY NoneIsNew DEF Types, MessageTypes
  <2>2. Cardinality(Qs) = IF \E t \in Topics : InQueue(t, m) THEN 1 ELSE 0
    <3>1. CASE \E t \in Topics : InQueue(t, m)
      <4> PICK t \in Topics : InQueue(t, m)
        BY <3>1
      <4>1. Qs = {t}
        BY <2>1 DEF InQueue, OneHolder
      <4> QED BY <3>1, <4>1, FS_Singleton
    <3>2. CASE ~\E t \in Topics : InQueue(t, m)
      <4>1. Qs = {}
        BY <3>2 DEF InQueue
      <4> QED BY <3>2, <4>1, FS_EmptySet
    <3> QED BY <3>1, <3>2
  <2>3. Cardinality(Ps) = IF InPending(m) THEN 1 ELSE 0
    <3>0. DOMAIN pending = 1..Len(pending)
      BY LenProperties DEF Types, MessageTypes
    <3>1. CASE InPending(m)
      <4>1. Ps = {pending[Len(pending)]}
        BY <2>1, <3>0, <3>1 DEF InPending, ForwardInv, ToSet
      <4> QED BY <3>1, <4>1, FS_Singleton
    <3>2. CASE ~InPending(m)
      <4>1. Ps = {}
        BY <3>0, <3>2 DEF InPending, ToSet
      <4> QED BY <3>2, <4>1, FS_EmptySet
    <3> QED BY <3>1, <3>2
  <2>4. Holders(m) = (IF \E t \in Topics : InQueue(t, m) THEN 1 ELSE 0)
                       + (IF InPending(m) THEN 1 ELSE 0)
                       + (IF InInbox(m) THEN 1 ELSE 0) + (IF m = mine THEN 1 ELSE 0)
    BY <2>2, <2>3 DEF Holders, InInbox
  <2>5. \/ freed[m] = 1 /\ ~(InInbox(m) \/ InPending(m) \/ m = mine)
            /\ ~\E t \in Topics : InQueue(t, m)
        \/ freed[m] = 0
    BY <2>1 DEF OneHolder
  <2> HIDE DEF Holders
  <2>6. CASE freed[m] = 0
    BY <2>1, <2>4, <2>6 DEF OneHolder
  <2> QED BY <2>4, <2>5, <2>6
<1> QED BY <1>2 DEF OwnedOnce

(* With an application that gives recv an empty message, publishes nothing *)
(* behind a forwarded message and receives before a queue is full, every   *)
(* message the library hands over always has one owner, or was freed once; *)
(* whether or not deliveries race with publish.                            *)
THEOREM OwnedOnceCorrect == ASSUME Careful PROVE Spec => []OwnedOnce
<1>1. Init => OwnInv
  BY InitOwned
<1>2. OwnInv /\ [Next]_vars => OwnInv'
  BY NextOwned
<1>3. OwnInv => OwnedOnce
  BY OwnedCounts
<1> QED BY <1>1, <1>2, <1>3, PTL DEF Spec

-----------------------------------------------------------------------------
(* Pending messages.                                                       *)

(* A token is pending once publish has stored its message, until its       *)
(* delivery is reported, or for ever if that was before; only the delivery *)
(* of the token that publish has not stored yet can be too early.          *)
IsPending(tok) == \E i \in 1..Len(pending) : pending[i].token = tok
Expected(tok) == ~BeingStored(tok) /\ (tok \notin delivered \/ tok \in early)

PendingInv ==
    call # [at |-> "gone"] =>
        /\ \A tok \in 1..token : IsPending(tok) <=> Expected(tok)
        /\ call.at = "storing" => token \notin delivered \/ token \in early

LEMMA InitPending == Init => PendingInv
BY EmptySeq DEF Init, PendingInv, IsPending, Idle

LEMMA SamePending ==
    ASSUME PendingInv, call # [at |-> "gone"], UNCHANGED <<pending, token, delivered, early>>,
           call' = call \/ (call.at # "storing" /\ call'.at # "storing")
    PROVE  PendingInv'
BY DEF PendingInv, IsPending, Expected, BeingStored

\* The steps that store no message and end no delivery.
LEMMA OthersPending == ASSUME TypesInv, PendingInv PROVE
    /\ \A b \in BOOLEAN : CallConnect(b) \/ ConnectEnds(b) \/ ConnectionLost(b) => PendingInv'
    /\ ConnectReturns \/ Reconnected \/ DropMine \/ UNCHANGED vars => PendingInv'
    /\ \A t \in Topics : Arrive(t) \/ Subscribe(t) \/ Recv(t) \/ CallPoll(t) => PendingInv'
    /\ \A b \in BOOLEAN : MessageArrived(b) \/ PollReturns(b) => PendingInv'
<1>1. ASSUME NEW b \in BOOLEAN,
             CallConnect(b) \/ ConnectEnds(b) \/ ConnectionLost(b) \/ MessageArrived(b)
      PROVE  PendingInv'
  BY <1>1, SamePending
     DEF CallConnect, ConnectEnds, ConnectionLost, MessageArrived, library, histories, Between,
         Running, Idle
<1>2. CASE ConnectReturns \/ Reconnected \/ DropMine
  BY <1>2, SamePending
     DEF ConnectReturns, Reconnected, DropMine, library, histories, Between, Running, Idle
<1>3. CASE UNCHANGED vars
  BY <1>3 DEF vars, library, histories, PendingInv, IsPending, Expected, BeingStored
<1>4. ASSUME NEW t \in Topics, Arrive(t) \/ Subscribe(t) \/ Recv(t) PROVE PendingInv'
  BY <1>4, SamePending DEF Arrive, Subscribe, Recv, library, histories, Between, Running
<1>5. ASSUME NEW t \in Topics, CallPoll(t) PROVE PendingInv'
  BY <1>5, SamePending DEF CallPoll, library, histories, Between, Running, Idle
<1>6. ASSUME NEW b \in BOOLEAN, PollReturns(b) PROVE PendingInv'
  BY <1>6, SamePending DEF PollReturns, library, histories, Running, Idle
<1> QED BY <1>1, <1>2, <1>3, <1>4, <1>5, <1>6

\* The token publish gets is new; it is expected when its message is stored.
LEMMA CallPublishPending ==
    ASSUME TypesInv, PendingInv, NEW m \in Arrived \union {None}, CallPublish(m)
    PROVE  PendingInv'
<1>1. /\ call = Idle /\ call'.at = "storing" /\ UNCHANGED <<pending, delivered, early>>
      /\ token' = token + 1 /\ token \in Nat /\ delivered \subseteq 1..token
  BY DEF CallPublish, Between, library, histories, TypesInv, Types, StateTypes
<1>2. \A tok \in 1..token : IsPending(tok) <=> tok \notin delivered \/ tok \in early
  BY <1>1 DEF PendingInv, Expected, BeingStored, Idle
<1>3. ~IsPending(token')
  <2>1. \A i \in 1..Len(pending) : pending[i] \in Entry(token, Arrived)
    BY ElementOfSeq DEF TypesInv, Types, MessageTypes
  <2> QED BY <1>1, <2>1 DEF IsPending, Entry
<1>4. \A tok \in 1..token' : IsPending(tok)' <=> IsPending(tok)
  BY <1>1 DEF IsPending
<1>5. ASSUME NEW tok \in 1..token'
      PROVE  IsPending(tok) <=> (tok \notin delivered \/ tok \in early) /\ tok # token'
  <2>1. tok \in 1..token \/ tok = token'
    BY <1>1
  <2>2. tok \in 1..token => tok # token'
    BY <1>1
  <2> QED BY <1>2, <1>3, <2>1, <2>2
<1>6. token' \notin delivered'
  BY <1>1
<1> QED BY <1>1, <1>4, <1>5, <1>6 DEF PendingInv, Expected, BeingStored

LEMMA StorePendingPending ==
    ASSUME TypesInv, PendingInv, StorePending PROVE PendingInv'
<1>1. /\ call.at = "storing" /\ call' = Idle /\ UNCHANGED <<token, delivered, early>>
      /\ token \notin delivered \/ token \in early
      /\ call # [at |-> "gone"]
  BY DEF StorePending, library, histories, PendingInv, Running
<1>2. /\ Len(pending') = Len(pending) + 1 /\ Len(pending) \in Nat
      /\ \A i \in 1..Len(pending) : pending'[i] = pending[i]
  BY StorePendingTypes
<1>3. pending'[Len(pending')].token = token
  <2>1. pending \in Seq(Entry(token, Arrived))
    BY DEF TypesInv, Types, MessageTypes
  <2>2. [token |-> token, message |-> call.message] \in Entry(token, Arrived)
    BY <1>1, StorePendingTypes DEF Entry, TypesInv, Types, TokensInv, StateTypes
  <2> QED BY <2>1, <2>2, AppendProperties DEF StorePending
<1>4. ASSUME NEW tok \in 1..token PROVE IsPending(tok)' <=> IsPending(tok) \/ tok = token
  BY <1>2, <1>3 DEF IsPending
<1>5. ASSUME NEW tok \in 1..token
      PROVE  IsPending(tok)' <=> tok \notin delivered \/ tok \in early
  BY <1>1, <1>4 DEF PendingInv, Expected, BeingStored
<1> QED BY <1>1, <1>5 DEF PendingInv, Expected, BeingStored, Idle

\* A delivery that is too early erases nothing.
LEMMA EarlyDeliveryPending ==
    ASSUME TypesInv, PendingInv, NEW tok \in 1..MaxPublished, DeliveryComplete(tok),
           BeingStored(tok)
    PROVE  PendingInv'
<1>1. /\ UNCHANGED <<token, call>> /\ call # [at |-> "gone"] /\ pending' = Erased(tok)
      /\ delivered' = delivered \union {tok} /\ early' = early \union {tok}
      /\ call.at = "storing" /\ tok = token
  BY DEF DeliveryComplete, Running, BeingStored
<1>2. tok \notin {e.token : e \in ToSet(pending)}
  <2>1. DOMAIN pending = 1..Len(pending)
    BY LenProperties DEF TypesInv, Types, MessageTypes
  <2> QED BY <1>1, <2>1 DEF TypesInv, TokensInv, ToSet
<1>3. pending' = pending
  BY <1>1, <1>2, ErasedEntries DEF TypesInv
<1> QED BY <1>1, <1>3 DEF PendingInv, IsPending, Expected, BeingStored

\* The entry of the token that was delivered is gone, the others are left.
LEMMA DeliveryPending ==
    ASSUME TypesInv, PendingInv, NEW tok \in 1..MaxPublished, DeliveryComplete(tok),
           ~BeingStored(tok)
    PROVE  PendingInv'
<1>1. /\ UNCHANGED <<token, call, early>> /\ call # [at |-> "gone"]
      /\ delivered' = delivered \union {tok} /\ tok \in 1..token /\ tok \notin delivered
      /\ tok \notin early /\ pending' = Erased(tok)
  BY DEF DeliveryComplete, Running, TypesInv, Types, StateTypes
<1>2. PICK k \in 1..Len(pending) : pending[k].token = tok
  BY <1>1 DEF PendingInv, Expected, IsPending
<1>3. /\ Len(pending) \in Nat \ {0} /\ Len(pending') = Len(pending) - 1
      /\ \A i \in 1..Len(pending') : pending'[i] = pending[IF i < k THEN i ELSE i + 1]
  BY <1>1, <1>2, EntriesLeft
<1>4. ASSUME NEW u \in 1..token PROVE IsPending(u)' <=> IsPending(u) /\ u # tok
  <2>1. ASSUME NEW i \in 1..Len(pending'), pending'[i].token = u PROVE IsPending(u) /\ u # tok
    <3>1. PICK j \in 1..Len(pending) : j = (IF i < k THEN i ELSE i + 1) /\ j # k
      BY <1>3
    <3>2. pending[j].token = u
      BY <1>3, <2>1, <3>1
    <3> QED BY <1>2, <3>1, <3>2 DEF IsPending, TypesInv, TokensInv
  <2>2. ASSUME NEW i \in 1..Len(pending), pending[i].token = u, u # tok PROVE IsPending(u)'
    <3>1. i # k
      BY <1>2, <2>2
    <3>2. PICK j \in 1..Len(pending') : i = IF j < k THEN j ELSE j + 1
      <4>1. CASE i < k
        <5>1. i \in 1..Len(pending')
          BY <4>1, <1>3
        <5> QED BY <4>1, <5>1
      <4>2. CASE i > k
        <5>1. i - 1 \in 1..Len(pending') /\ ~(i - 1 < k) /\ (i - 1) + 1 = i
          BY <4>2, <1>3
        <5> QED BY <5>1
      <4> QED BY <3>1, <4>1, <4>2
    <3> QED BY <1>3, <2>2, <3>2 DEF IsPending
  <2> QED BY <2>1, <2>2 DEF IsPending
<1>5. ASSUME NEW u \in 1..token PROVE Expected(u)' <=> Expected(u) /\ u # tok
  BY <1>1 DEF Expected, BeingStored
<1>6. call.at = "storing" => token # tok
  BY DEF BeingStored
<1> QED BY <1>1, <1>4, <1>5, <1>6 DEF PendingInv

LEMMA NextPending ==
    ASSUME TypesInv, PendingInv, [Next]_vars PROVE PendingInv'
<1>1. CASE Destroy
  BY <1>1 DEF Destroy, PendingInv
<1>2. ASSUME NEW m \in Arrived \union {None}, CallPublish(m) PROVE PendingInv'
  BY <1>2, CallPublishPending
<1>3. ASSUME NEW tok \in 1..MaxPublished, DeliveryComplete(tok) PROVE PendingInv'
  BY <1>3, EarlyDeliveryPending, DeliveryPending
<1>4. CASE StorePending
  BY <1>4, StorePendingPending
<1> QED BY <1>1, <1>2, <1>3, <1>4, OthersPending DEF Next

LEMMA PendingCount == ASSUME TypesInv, PendingInv PROVE PendingExact
<1> DEFINE S == Stored \cap (Undelivered \union early)
<1> SUFFICES ASSUME call.at # "gone"
             PROVE  {e.token : e \in ToSet(pending)} = S /\ Len(pending) = Cardinality(S)
  BY DEF PendingExact
<1>1. /\ DOMAIN pending = 1..Len(pending) /\ Len(pending) \in Nat
      /\ \A i \in 1..Len(pending) : pending[i] \in Entry(token, Arrived)
  BY ElementOfSeq, LenProperties DEF TypesInv, Types, MessageTypes
<1>2. \A tok \in 1..token : IsPending(tok) <=> tok \in S
  BY DEF PendingInv, Expected, Stored, Undelivered
<1>3. \A i \in 1..Len(pending) : pending[i].token \in S
  BY <1>1, <1>2 DEF Entry, IsPending
<1>4. S \subseteq 1..token
  BY DEF Stored
<1> HIDE DEF S
<1>5. {e.token : e \in ToSet(pending)} = S
  <2>1. ToSet(pending) = {pending[i] : i \in 1..Len(pending)}
    BY <1>1 DEF ToSet
  <2>2. \A tok \in S : \E i \in 1..Len(pending) : pending[i].token = tok
    BY <1>2, <1>4 DEF IsPending
  <2> QED BY ONLY <1>3, <2>1, <2>2
<1>6. Len(pending) = Cardinality(S)
  <2> DEFINE f == [i \in 1..Len(pending) |-> pending[i].token]
  <2>1. f \in [1..Len(pending) -> S]
    BY <1>3
  <2>2. \A i, j \in 1..Len(pending) : f[i] = f[j] => i = j
    BY DEF TypesInv, TokensInv
  <2>3. \A tok \in S : \E i \in 1..Len(pending) : f[i] = tok
    BY <1>2, <1>4 DEF IsPending
  <2> HIDE DEF f
  <2>4. f \in Bijection(1..Len(pending), S)
    BY <2>1, <2>2, <2>3 DEF Bijection, Injection, Surjection, IsInjective
  <2> QED BY <1>1, <2>4, FS_CountingElements DEF ExistsBijection
<1> QED BY <1>5, <1>6

(* Whatever the order of the reports and wherever publish is when one comes: *)
(* the pending entries are exactly the tokens stored whose delivery was not  *)
(* reported since, each once.  A report between MQTTAsync_send and           *)
(* emplace_back (MQTTEndpoint.cpp:240-249) leaves its entry for ever, and no *)
(* other entry.                                                              *)
THEOREM PendingExactCorrect == Spec => []PendingExact
<1>1. Init => PendingInv
  BY InitPending
<1>2. TypesInv /\ PendingInv /\ [Next]_vars => PendingInv'
  BY NextPending
<1>3. TypesInv /\ PendingInv => PendingExact
  BY PendingCount
<1> QED BY <1>1, <1>2, <1>3, TypesHold, PTL DEF Spec

-----------------------------------------------------------------------------
(* Order of reception.                                                     *)

(* What the library offers is in order and arrived after everything it has *)
(* handed over; what a topic's callers have received and what its queue    *)
(* holds are in order, together what was handed over.                      *)
OfferedLast ==
    /\ InOrder(inbox) /\ misnamed \subseteq Arrived \ ToSet(inbox)
    /\ \A m \in Arrived \ ToSet(inbox), n \in ToSet(inbox) : m < n

TopicOrder(t) ==
    /\ InOrder(received[t] \o queues[t])
    /\ ToSet(received[t] \o queues[t]) = HandedOver(t)
    /\ t \in ready => queues[t] # <<>>

OrderInv == OfferedLast /\ (call # [at |-> "gone"] => \A t \in Topics : TopicOrder(t))

LEMMA InitOrder == Init => OrderInv
<1> SUFFICES ASSUME Init PROVE OrderInv
  OBVIOUS
<1>1. Len(<<>>) = 0 /\ <<>> \in Seq({}) /\ ToSet(<<>>) = {} /\ <<>> \o <<>> = <<>>
  BY EmptySeq, ConcatEmptySeq DEF ToSet
<1>2. Arrived = {}
  BY <1>1, LenProperties DEF Init, Arrived
<1>3. OfferedLast
  BY <1>1, <1>2 DEF Init, OfferedLast, InOrder, ToSet
<1>4. ASSUME NEW t \in Topics PROVE TopicOrder(t)
  BY <1>1, <1>2 DEF Init, TopicOrder, InOrder, HandedOver
<1> QED BY <1>3, <1>4 DEF OrderInv

\* A larger element behind a sequence in order.
LEMMA AppendInOrder ==
    ASSUME NEW s \in Seq(Nat), InOrder(s), NEW x \in Nat, \A y \in ToSet(s) : y < x
    PROVE  InOrder(Append(s, x))
<1>1. /\ Len(Append(s, x)) = Len(s) + 1 /\ Len(s) \in Nat
      /\ Append(s, x)[Len(s) + 1] = x /\ \A i \in 1..Len(s) : Append(s, x)[i] = s[i]
  BY AppendProperties, LenProperties
<1>2. \A i \in 1..Len(s) : s[i] < x
  BY LenProperties DEF ToSet
<1> QED BY <1>1, <1>2 DEF InOrder

LEMMA TailInOrder ==
    ASSUME NEW s \in Seq(Nat), s # <<>>, InOrder(s)
    PROVE  InOrder(Tail(s)) /\ \A y \in ToSet(Tail(s)) : Head(s) < y
<1>1. /\ Len(Tail(s)) = Len(s) - 1 /\ Len(s) \in Nat \ {0} /\ Head(s) = s[1]
      /\ \A i \in 1..Len(Tail(s)) : Tail(s)[i] = s[i + 1]
      /\ DOMAIN Tail(s) = 1..Len(Tail(s))
  BY HeadTailProperties, LenProperties, EmptySeq
<1>2. InOrder(Tail(s))
  BY <1>1 DEF InOrder
<1>3. \A y \in ToSet(Tail(s)) : Head(s) < y
  BY <1>1 DEF InOrder, ToSet
<1> QED BY <1>2, <1>3

\* Taking from a queue what is received does not change the two joined.
LEMMA JoinedAppend ==
    ASSUME NEW S, NEW r \in Seq(S), NEW q \in Seq(S), NEW x \in S
    PROVE  r \o Append(q, x) = Append(r \o q, x)
<1>1. Append(q, x) = q \o <<x>> /\ Append(r \o q, x) = (r \o q) \o <<x>>
  BY AppendIsConcat, ConcatProperties
<1>2. <<x>> \in Seq(S)
  OBVIOUS
<1> QED BY <1>1, <1>2, ConcatAssociative

LEMMA JoinedTail ==
    ASSUME NEW S, NEW r \in Seq(S), NEW q \in Seq(S), q # <<>>
    PROVE  Append(r, Head(q)) \o Tail(q) = r \o q
<1>1. /\ Head(q) \in S /\ Head(q) = q[1] /\ Tail(q) \in Seq(S) /\ Len(Tail(q)) = Len(q) - 1
      /\ Len(q) \in Nat \ {0} /\ Len(r) \in Nat /\ \A i \in 1..Len(Tail(q)) : Tail(q)[i] = q[i + 1]
  BY HeadTailProperties, LenProperties, EmptySeq
<1>2. PICK a : a = Append(r, Head(q))
  OBVIOUS
<1>3. /\ a \in Seq(S) /\ Len(a) = Len(r) + 1 /\ a[Len(r) + 1] = q[1]
      /\ \A i \in 1..Len(r) : a[i] = r[i]
  BY <1>1, <1>2, AppendProperties
<1>4. PICK b \in Seq(S) : b = Tail(q)
  BY <1>1
<1>5. /\ a \o b \in Seq(S) /\ Len(a \o b) = Len(a) + Len(b)
      /\ \A i \in 1..Len(a) + Len(b) :
             (a \o b)[i] = IF i <= Len(a) THEN a[i] ELSE b[i - Len(a)]
  BY ONLY <1>3, ConcatProperties
<1>6. /\ r \o q \in Seq(S) /\ Len(r \o q) = Len(r) + Len(q)
      /\ \A i \in 1..Len(r) + Len(q) :
             (r \o q)[i] = IF i <= Len(r) THEN r[i] ELSE q[i - Len(r)]
  BY ConcatProperties
<1>7. Len(a \o b) = Len(r \o q) /\ Len(r \o q) = Len(r) + Len(q)
  BY <1>1, <1>3, <1>4, <1>5, <1>6
<1>8. ASSUME NEW i \in 1..Len(r) + Len(q) PROVE (a \o b)[i] = (r \o q)[i]
  <2>0. i \in 1..Len(a) + Len(b) /\ Len(a) = Len(r) + 1 /\ i \in Int
    BY <1>1, <1>3, <1>4
  <2>1. CASE i <= Len(r)
    BY <2>0, <2>1, <1>1, <1>3, <1>5, <1>6
  <2>2. CASE i = Len(r) + 1
    BY <2>0, <2>2, <1>1, <1>3, <1>5, <1>6
  <2>3. CASE i > Len(r) + 1
    <3>1. (a \o b)[i] = b[i - (Len(r) + 1)] /\ i - (Len(r) + 1) \in 1..Len(b)
      BY <2>0, <2>3, <1>1, <1>4, <1>5
    <3>2. b[i - (Len(r) + 1)] = q[i - Len(r)]
      BY <3>1, <1>1, <1>4, <2>0
    <3> QED BY <2>0, <2>3, <3>1, <3>2, <1>1, <1>6
  <2> QED BY <2>0, <2>1, <2>2, <2>3, <1>1
<1>9. a \o b = r \o q
  BY <1>5, <1>6, <1>7, <1>8, SeqEqual
<1> QED BY <1>2, <1>4, <1>9

\* What changes none of the sequences.
LEMMA SameOrder ==
    ASSUME OrderInv, UNCHANGED <<topicOf, inbox, misnamed, queues, received>>,
           call # [at |-> "gone"], \A t \in ready' : t \in ready \/ queues[t] # <<>>
    PROVE  OrderInv'
BY DEF OrderInv, OfferedLast, TopicOrder, HandedOver, NameOf, InOrder, Arrived

LEMMA OthersOrder == ASSUME TypesInv, OrderInv PROVE
    /\ \A b \in BOOLEAN : CallConnect(b) \/ ConnectEnds(b) \/ ConnectionLost(b) => OrderInv'
    /\ ConnectReturns \/ Reconnected \/ DropMine \/ StorePending \/ UNCHANGED vars => OrderInv'
    /\ \A t \in Topics : Subscribe(t) \/ CallPoll(t) => OrderInv'
    /\ \A b \in BOOLEAN : PollReturns(b) => OrderInv'
    /\ \A m \in Arrived \union {None} : CallPublish(m) => OrderInv'
    /\ \A tok \in 1..MaxPublished : DeliveryComplete(tok) => OrderInv'
<1>1. ASSUME NEW b \in BOOLEAN, CallConnect(b) \/ ConnectEnds(b) \/ ConnectionLost(b)
      PROVE  OrderInv'
  BY <1>1, SameOrder
     DEF CallConnect, ConnectEnds, ConnectionLost, histories, messages, Between, Running, Idle
<1>2. CASE ConnectReturns \/ Reconnected \/ DropMine \/ StorePending
  BY <1>2, SameOrder
     DEF ConnectReturns, Reconnected, DropMine, StorePending, library, histories, messages,
         Between, Running
<1>3. CASE UNCHANGED vars
  BY <1>3
     DEF vars, library, histories, messages, OrderInv, OfferedLast, TopicOrder, HandedOver,
         NameOf, InOrder, Arrived
<1>4. ASSUME NEW t \in Topics, Subscribe(t) \/ CallPoll(t) PROVE OrderInv'
  BY <1>4, SameOrder DEF Subscribe, CallPoll, library, histories, messages, Between, Running
<1>5. ASSUME NEW b \in BOOLEAN, PollReturns(b) PROVE OrderInv'
  BY <1>5, SameOrder DEF PollReturns, library, histories, Running
<1>6. ASSUME NEW m \in Arrived \union {None}, CallPublish(m) PROVE OrderInv'
  BY <1>6, SameOrder DEF CallPublish, library, histories, messages, Between, Running
<1>7. ASSUME NEW tok \in 1..MaxPublished, DeliveryComplete(tok) PROVE OrderInv'
  BY <1>7, SameOrder DEF DeliveryComplete, Running
<1> QED BY <1>1, <1>2, <1>3, <1>4, <1>5, <1>6, <1>7

LEMMA SequenceTypes ==
    ASSUME TypesInv
    PROVE  /\ Arrived \subseteq Nat /\ inbox \in Seq(Arrived) /\ inbox \in Seq(Nat)
           /\ ToSet(inbox) \subseteq Arrived
           /\ \A t \in Topics :
                  /\ queues[t] \in Seq(Arrived) /\ received[t] \in Seq(Arrived)
                  /\ received[t] \o queues[t] \in Seq(Arrived)
                  /\ received[t] \o queues[t] \in Seq(Nat)
                  /\ ToSet(received[t] \o queues[t]) \subseteq Arrived
<1>1. Arrived \subseteq Nat
  BY ArrivedNumbers DEF TypesInv
<1>2. ASSUME NEW s \in Seq(Arrived) PROVE s \in Seq(Nat) /\ ToSet(s) \subseteq Arrived
  <2>1. s \in Seq(Nat)
    BY <1>1, SeqMonotonic
  <2>2. DOMAIN s = 1..Len(s) /\ \A i \in 1..Len(s) : s[i] \in Arrived
    BY LenProperties, ElementOfSeq
  <2> QED BY <2>1, <2>2 DEF ToSet
<1>3. ASSUME NEW t \in Topics
      PROVE  /\ queues[t] \in Seq(Arrived) /\ received[t] \in Seq(Arrived)
             /\ received[t] \o queues[t] \in Seq(Arrived)
  BY ConcatProperties DEF TypesInv, Types, MessageTypes
<1> QED BY <1>1, <1>2, <1>3 DEF TypesInv, Types, MessageTypes

LEMMA ArriveOrder ==
    ASSUME TypesInv, OrderInv, NEW t \in Topics, Arrive(t) PROVE OrderInv'
<1>1. /\ UNCHANGED <<queues, received, ready, call, misnamed>> /\ call # [at |-> "gone"]
      /\ topicOf' = Append(topicOf, t) /\ inbox' = Append(inbox, Len(topicOf'))
  BY DEF Arrive, Running, histories
<1>2. PICK new \in Nat :
          /\ new = Len(topicOf') /\ new \notin Arrived /\ Arrived' = Arrived \union {new}
          /\ ToSet(inbox') = ToSet(inbox) \union {new}
  BY ArriveTypes
<1>3. \A m \in Arrived : m < new /\ topicOf'[m] = topicOf[m]
  <2>1. Arrived = 1..Len(topicOf) /\ topicOf \in Seq(Topics)
    BY ArrivedNumbers DEF TypesInv, Types, MessageTypes
  <2> QED BY <2>1, <1>1, <1>2, AppendProperties, LenProperties
<1>4. ToSet(inbox) \subseteq Arrived /\ inbox \in Seq(Nat) /\ Arrived \subseteq Nat
  BY SequenceTypes
<1>5. OfferedLast'
  <2>1. InOrder(Append(inbox, new))
    BY <1>2, <1>3, <1>4, AppendInOrder DEF OrderInv, OfferedLast
  <2>2. misnamed' \subseteq Arrived' \ ToSet(inbox')
    BY <1>1, <1>2 DEF OrderInv, OfferedLast
  <2>3. \A m \in Arrived' \ ToSet(inbox'), n \in ToSet(inbox') : m < n
    BY <1>2, <1>3, <1>4 DEF OrderInv, OfferedLast
  <2> QED BY <1>1, <1>2, <2>1, <2>2, <2>3 DEF OfferedLast
<1>6. ASSUME NEW u \in Topics PROVE TopicOrder(u)'
  <2>1. HandedOver(u)' = HandedOver(u)
    BY <1>1, <1>2, <1>3, <1>4 DEF HandedOver, NameOf
  <2> QED BY <1>1, <2>1 DEF OrderInv, TopicOrder, InOrder
<1> QED BY <1>1, <1>5, <1>6 DEF OrderInv

\* The oldest message offered goes behind those its topic was given before.
LEMMA EnqueueOrder ==
    ASSUME TypesInv, OrderInv, NEW given \in LengthGiven, MessageArrived(given),
           NEW key, Enqueue(Head(inbox), key), key = Key(topicOf[Head(inbox)], given)
    PROVE  OrderInv'
<1>1. /\ UNCHANGED <<topicOf, received, ready, call>> /\ call # [at |-> "gone"]
      /\ Arrived' = Arrived /\ inbox # <<>> /\ inbox' = Tail(inbox)
      /\ queues' = [queues EXCEPT ![key] = Append(@, Head(inbox))]
  BY SameArrived DEF Enqueue, MessageArrived, Running
<1>2. /\ key \in Topics /\ Head(inbox) \in ToSet(inbox)
      /\ ToSet(inbox') = ToSet(inbox) \ {Head(inbox)}
  BY <1>1, EnqueueTypes
<1>3. PICK m \in Arrived : m = Head(inbox)
  BY <1>2, SequenceTypes
<1>4. /\ m \notin misnamed /\ (m \in misnamed' <=> ~given)
      /\ misnamed' \subseteq misnamed \union {m}
      /\ \A n \in Arrived \ {m} : n \in misnamed' <=> n \in misnamed
  <2>1. inbox' # inbox
    BY <1>2
  <2>2. misnamed' = IF given THEN misnamed ELSE misnamed \union {m}
    BY <1>3, <2>1 DEF MessageArrived
  <2>3. given \in BOOLEAN /\ m \notin misnamed
    BY <1>2, <1>3, MQTTAssumption DEF MQTTAssumption, OrderInv, OfferedLast
  <2> QED BY <2>2, <2>3
<1>5. NameOf(m)' = key /\ \A n \in Arrived \ {m} : NameOf(n)' = NameOf(n)
  BY <1>1, <1>3, <1>4 DEF NameOf, Key
<1>6. OfferedLast'
  <2>1. InOrder(Tail(inbox)) /\ \A y \in ToSet(Tail(inbox)) : Head(inbox) < y
    BY <1>1, SequenceTypes, TailInOrder DEF OrderInv, OfferedLast
  <2>2. misnamed' \subseteq Arrived' \ ToSet(inbox')
    BY <1>1, <1>2, <1>3, <1>4 DEF OrderInv, OfferedLast
  <2> QED BY <1>1, <1>2, <1>3, <2>1, <2>2 DEF OrderInv, OfferedLast
<1>7. ASSUME NEW u \in Topics PROVE TopicOrder(u)'
  <2>0. TopicOrder(u)
    BY <1>1 DEF OrderInv
  <2>1. CASE u = key
    <3>a. PICK s \in Seq(Arrived) : s = received[u] \o queues[u]
      BY SequenceTypes
    <3>0. m \in Arrived
      BY <1>3
    <3>1. s \in Seq(Nat) /\ m \in Nat
      BY <1>3, <3>a, SequenceTypes
    <3>2. (received[u] \o queues[u])' = Append(s, m)
      <4>1. queues'[u] = Append(queues[u], m)
        BY <1>1, <1>3, <2>1 DEF TypesInv, Types, MessageTypes
      <4>2. received[u] \in Seq(Arrived) /\ queues[u] \in Seq(Arrived)
        BY SequenceTypes
      <4>3. ASSUME NEW r \in Seq(Arrived), NEW q \in Seq(Arrived), NEW x \in Arrived
            PROVE  r \o Append(q, x) = Append(r \o q, x)
        BY ONLY JoinedAppend
      <4>4. received[u] \o Append(queues[u], m) = Append(received[u] \o queues[u], m)
        BY ONLY <3>0, <4>2, <4>3
      <4>5. received[u] \o Append(queues[u], m) = Append(s, m)
        BY ONLY <3>a, <4>4
      <4> QED BY <1>1, <4>1, <4>5
    <3>3. \A y \in ToSet(s) : y < m
      BY <2>0, <3>a, <1>2, <1>3 DEF TopicOrder, HandedOver, OrderInv, OfferedLast
    <3>4. InOrder(Append(s, m))
      BY <2>0, <3>a, <3>1, <3>3, AppendInOrder DEF TopicOrder
    <3>5. ToSet(Append(s, m)) = ToSet(s) \union {m}
      BY <3>0, AppendSet
    <3>6. HandedOver(u)' = HandedOver(u) \union {m}
      BY <1>1, <1>2, <1>3, <1>5, <2>1 DEF HandedOver
    <3>7. queues'[u] # <<>>
      <4>1. queues'[u] = Append(queues[u], m) /\ queues[u] \in Seq(Arrived)
        BY <1>1, <1>3, <2>1, SequenceTypes DEF TypesInv, Types, MessageTypes
      <4> QED BY <4>1, AppendProperties
    <3> QED BY <2>0, <3>a, <3>2, <3>4, <3>5, <3>6, <3>7 DEF TopicOrder
  <2>2. CASE u # key
    <3>1. queues'[u] = queues[u]
      BY <1>1, <2>2 DEF TypesInv, Types, MessageTypes
    <3>2. HandedOver(u)' = HandedOver(u)
      BY <1>1, <1>2, <1>3, <1>5, <2>2 DEF HandedOver
    <3> QED BY <1>1, <2>0, <3>1, <3>2 DEF TopicOrder, InOrder
  <2> QED BY <2>1, <2>2
<1> QED BY <1>1, <1>6, <1>7 DEF OrderInv

LEMMA MessageArrivedOrder ==
    ASSUME TypesInv, OrderInv, NEW given \in LengthGiven, MessageArrived(given)
    PROVE  OrderInv'
<1>1. LET key == Key(topicOf[Head(inbox)], given)
      IN Ignore(Head(inbox), key) \/ Enqueue(Head(inbox), key) \/ Refuse(Head(inbox), key)
  BY DEF MessageArrived
<1>2. PICK key : /\ key = Key(topicOf[Head(inbox)], given)
                 /\ \/ Ignore(Head(inbox), key)
                    \/ Enqueue(Head(inbox), key)
                    \/ Refuse(Head(inbox), key)
  BY <1>1
<1>3. CASE Enqueue(Head(inbox), key)
  BY <1>2, <1>3, EnqueueOrder
<1>4. CASE Ignore(Head(inbox), key) \/ Refuse(Head(inbox), key)
  BY <1>4, SameOrder DEF Ignore, Refuse, messages, MessageArrived, Running
<1> QED BY <1>2, <1>3, <1>4

LEMMA RecvOrder == ASSUME TypesInv, OrderInv, NEW t \in Topics, Recv(t) PROVE OrderInv'
<1>1. /\ UNCHANGED <<topicOf, inbox, misnamed, call>> /\ Arrived' = Arrived
      /\ call # [at |-> "gone"]
      /\ queues[t] # <<>> /\ ready' = ready \ {t}
      /\ queues' = [queues EXCEPT ![t] = Tail(@)]
      /\ received' = [received EXCEPT ![t] = Append(@, Head(queues[t]))]
  BY SameArrived DEF Recv, library, histories, Between, Running, Taken
<1>2. OfferedLast'
  BY <1>1 DEF OrderInv, OfferedLast, InOrder
<1>3. ASSUME NEW u \in Topics PROVE TopicOrder(u)'
  <2>0. TopicOrder(u) /\ HandedOver(u)' = HandedOver(u)
    BY <1>1 DEF OrderInv, HandedOver, NameOf
  <2>1. (received[u] \o queues[u])' = received[u] \o queues[u]
    <3>1. CASE u = t
      <4>1. received'[u] = Append(received[u], Head(queues[u])) /\ queues'[u] = Tail(queues[u])
        BY <1>1, <3>1 DEF TypesInv, Types, MessageTypes
      <4>2. received[u] \in Seq(Arrived) /\ queues[u] \in Seq(Arrived)
        BY SequenceTypes
      <4>3. Append(received[u], Head(queues[u])) \o Tail(queues[u]) = received[u] \o queues[u]
        <5>1. queues[u] # <<>>
          BY <1>1, <3>1
        <5> QED BY ONLY <4>2, <5>1, JoinedTail
      <4> QED BY <4>1, <4>3
    <3>2. CASE u # t
      BY <1>1, <3>2 DEF TypesInv, Types, MessageTypes
    <3> QED BY <3>1, <3>2
  <2>2. u \in ready' => queues'[u] # <<>>
    BY <1>1, <2>0 DEF TopicOrder, TypesInv, Types, MessageTypes
  <2> QED BY <2>0, <2>1, <2>2 DEF TopicOrder, InOrder
<1> QED BY <1>1, <1>2, <1>3 DEF OrderInv

LEMMA NextOrder == ASSUME TypesInv, OrderInv, [Next]_vars PROVE OrderInv'
<1>1. CASE Destroy
  <2>1. UNCHANGED <<inbox, topicOf, misnamed>> /\ call' = [at |-> "gone"]
    BY <1>1 DEF Destroy, histories
  <2> QED BY <2>1 DEF OrderInv, OfferedLast, InOrder, Arrived
<1>2. ASSUME NEW t \in Topics, Arrive(t) \/ Recv(t) PROVE OrderInv'
  BY <1>2, ArriveOrder, RecvOrder
<1>3. ASSUME NEW given \in LengthGiven, MessageArrived(given) PROVE OrderInv'
  BY <1>3, MessageArrivedOrder
<1> QED BY <1>1, <1>2, <1>3, OthersOrder DEF Next

(* Whatever topicLen the library passes: each topic's messages are received *)
(* in the order of their arrival, none lost or repeated, whether or not the *)
(* application lets queues fill; those given with the length of their name  *)
(* are under that name and those without it under the name less its last    *)
(* character; and after poll has reported Ready, recv finds a message.      *)
THEOREM ReceivedInOrderCorrect == Spec => []ReceivedInOrder
<1>1. Init => OrderInv
  BY InitOrder
<1>2. TypesInv /\ OrderInv /\ [Next]_vars => OrderInv'
  BY NextOrder
<1>3. OrderInv => ReceivedInOrder
  BY DEF OrderInv, TopicOrder, ReceivedInOrder
<1> QED BY <1>1, <1>2, <1>3, TypesHold, PTL DEF Spec
=============================================================================
