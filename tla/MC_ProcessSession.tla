------------------------- MODULE MC_ProcessSession -------------------------
\* One session with one output.
EXTENDS ProcessSession

OneOutput == <<"stdout">>
One == {"stdout"}
MCStatuses == {1}
=============================================================================
