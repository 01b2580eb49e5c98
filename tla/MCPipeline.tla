----------------------------- MODULE MCPipeline -----------------------------
(* Small instances of Pipeline for TLC.                                      *)
EXTENDS Pipeline, TLC

CONSTANTS p1, p2, b1

live(c) == [live |-> TRUE, cost |-> c]
keepalive == [live |-> FALSE, cost |-> 0]

\* Two sources that share a lane.
OneLane  == [s \in {p1, p2} |-> "streaming"]
\* A streaming source and a bulk source.
TwoLanes == [s \in {p1, b1} |-> IF s = p1 THEN "streaming" ELSE "bulk"]

\* A real entry, a keepalive and another real entry; and an oversized entry.
SharedScript == (p1 :> <<live(1), keepalive, live(1)>>) @@ (p2 :> <<live(2)>>)
\* A source with two real entries and a keepalive; a bulk source.
SplitScript == (p1 :> <<live(2), keepalive>>) @@ (b1 :> <<live(3), live(1), live(1)>>)
=============================================================================
