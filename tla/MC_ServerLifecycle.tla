------------------------- MODULE MC_ServerLifecycle -------------------------
\* ServerLifecycle with a few connections and two concurrent calls of Stop.
EXTENDS ServerLifecycle

CONSTANTS c1, c2, c3, s1, s2

TwoConns == {c1, c2}
ThreeConns == {c1, c2, c3}
TwoStoppers == {s1, s2}
=============================================================================
