--------------------------- MODULE BoundedChannel ---------------------------
(***************************************************************************)
(* What a single-producer single-consumer queue promises its two threads:  *)
(* a lossless first-in first-out channel that never holds more than Bound  *)
(* messages.  SPSCQueue is shown to implement it.                          *)
(***************************************************************************)
EXTENDS Naturals, Sequences

CONSTANTS Message,  \* the messages that may be sent
          Bound     \* the number of messages the channel has room for

VARIABLES sent,      \* every message accepted so far, in order
          received   \* every message delivered so far, in order

channelVars == <<sent, received>>

Init == sent = <<>> /\ received = <<>>

Send(m) ==
    /\ Len(sent) - Len(received) < Bound
    /\ sent' = Append(sent, m)
    /\ UNCHANGED received

Receive ==
    /\ Len(received) < Len(sent)
    /\ received' = Append(received, sent[Len(received) + 1])
    /\ UNCHANGED sent

Next == Receive \/ \E m \in Message : Send(m)

Spec == Init /\ [][Next]_channelVars

\* A channel whose receiver keeps receiving.
FairSpec == Spec /\ WF_channelVars(Receive)
=============================================================================
