------------------------------ MODULE MCPubSub ------------------------------
(* Two topics, one of them found by discovery, over a bridge with one place. *)
EXTENDS PubSubSource

CONSTANTS t1, t2

MCTopics == {t1, t2}
MCExplicit == {t1}
MCKept == [t \in MCTopics |-> IF t = t1 THEN <<FALSE, TRUE>> ELSE <<TRUE>>]

=============================================================================
