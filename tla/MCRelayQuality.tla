--------------------------- MODULE MCRelayQuality ---------------------------
EXTENDS RelayQuality

\* One clock tick is half a half life: the powers of the square root of 1/2,
\* rounded down to multiples of 1/UNIT.
Decay(d) == CASE d = 0 -> 16384
              [] d = 1 -> 11585
              [] d = 2 -> 8192
              [] d = 3 -> 5792
=============================================================================
