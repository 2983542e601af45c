---------------------------- MODULE MC_TimeBomb ----------------------------
\* TimeBomb on small countdowns: 0 ("never"), 1 and 3 ticks.
EXTENDS TimeBomb

MCCountdowns == {0, 1, 3}
=============================================================================
