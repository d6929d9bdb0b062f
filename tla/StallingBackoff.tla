--------------------------- MODULE StallingBackoff ---------------------------
(***************************************************************************)
(* What the adaptive stalling timeout promises: it starts at the default,  *)
(* doubles when a stalling peer is disconnected, and shrinks by 15% when a *)
(* block is connected, as if each change were one atomic step.             *)
(***************************************************************************)
EXTENDS Integers

CONSTANTS BLOCK_STALLING_TIMEOUT_DEFAULT, BLOCK_STALLING_TIMEOUT_MAX

VARIABLE timeout  \* in seconds

\* std::min(2 * t, BLOCK_STALLING_TIMEOUT_MAX)
Doubled(t) ==
    IF 2 * t < BLOCK_STALLING_TIMEOUT_MAX THEN 2 * t ELSE BLOCK_STALLING_TIMEOUT_MAX

\* Faulty: rounded, not cut off.
DecayedRounded(t) ==
    LET rounded == (85 * t + 50) \div 100
    IN  IF rounded > BLOCK_STALLING_TIMEOUT_DEFAULT THEN rounded
        ELSE BLOCK_STALLING_TIMEOUT_DEFAULT

\* std::max(duration_cast<seconds>(t * 0.85), BLOCK_STALLING_TIMEOUT_DEFAULT):
\* the cast cuts the fraction off.
Decayed(t) ==
    LET cut == (85 * t) \div 100
    IN  IF cut > BLOCK_STALLING_TIMEOUT_DEFAULT THEN cut ELSE BLOCK_STALLING_TIMEOUT_DEFAULT

Init == timeout = BLOCK_STALLING_TIMEOUT_DEFAULT

Next == timeout' \in {Doubled(timeout), Decayed(timeout)}

Spec == Init /\ [][Next]_timeout
==============================================================================
