---------------------------- MODULE MC_Streamer ----------------------------
\* Streamer with channels that hold two writes and two readers, on one pipe or on
\* both.
EXTENDS Streamer

CONSTANTS r1, r2

MCPipes == {"stdout", "stderr"}
TwoReaders == {r1, r2}
=============================================================================
