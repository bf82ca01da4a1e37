--------------------------- MODULE MCMQTTEndpoint ---------------------------
(* Two topics, one the other without its last character.                   *)
EXTENDS MQTTEndpoint, TLC
CONSTANTS ab, a

MCTopics == {ab, a}
MCShortened == (ab :> a) @@ (a :> None)
=============================================================================
