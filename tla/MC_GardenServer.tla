-------------------------- MODULE MC_GardenServer --------------------------
\* GardenServer on small instances: one or two handles, a handful of requests.
EXTENDS GardenServer, TLC

CONSTANTS h1, h2, r1, r2, r3, r4, q1, q2

OneHandle == {h1}
TwoHandles == {h1, h2}

TwoRequests == {r1, r2}
ThreeRequests == {r1, r2, r3}
FourRequests == {r1, r2, r3, r4}

TwoReapers == {q1, q2}

MCGraces == {0, 5}

\* One handler of every shape; a client that never lists containers.
CoreOps == {"Create", "Destroy", "Stop", "SetGraceTime"}

AllShapes == CoreOps \cup {"Ping", "List", "Info"}

ListOps == {"Create", "List", "Info"}

Interchangeable == Permutations(FourRequests) \cup Permutations(TwoReapers)
=============================================================================
