--------------------------- MODULE StallingTimeout ---------------------------
(***************************************************************************)
(* The adaptive timeout for a peer that stalls the block download          *)
(* (net_processing.cpp).  m_block_stalling_timeout is an atomic that two   *)
(* threads change without a common lock: the message handler in            *)
(* SendMessages, and the validation queue in BlockConnected.  Each loads   *)
(* it, computes a new value, and writes that by compare_exchange_strong.   *)
(*                                                                         *)
(* One peer at a time stalls; time is in seconds.                          *)
(***************************************************************************)
EXTENDS Integers

CONSTANTS BLOCK_STALLING_TIMEOUT_DEFAULT, BLOCK_STALLING_TIMEOUT_MAX

ASSUME TimeoutAssumption ==
    /\ BLOCK_STALLING_TIMEOUT_DEFAULT \in Nat \ {0}
    /\ BLOCK_STALLING_TIMEOUT_MAX \in Nat
    /\ BLOCK_STALLING_TIMEOUT_DEFAULT <= BLOCK_STALLING_TIMEOUT_MAX

VARIABLES
    m_block_stalling_timeout,
    stalling,   \* seconds since m_stalling_since, or NoValue
    sender,     \* what the message handler has loaded, or NoValue
    connecter   \* what the validation queue has loaded, or NoValue

timeoutVars == <<m_block_stalling_timeout, stalling, sender, connecter>>

NoValue == -1

Backoff == INSTANCE StallingBackoff WITH timeout <- m_block_stalling_timeout

TimeoutInit ==
    /\ m_block_stalling_timeout = BLOCK_STALLING_TIMEOUT_DEFAULT
    /\ stalling = NoValue /\ sender = NoValue /\ connecter = NoValue

\* m_block_stalling_timeout.compare_exchange_strong(expected, new)
CompareExchange(expected, new) ==
    m_block_stalling_timeout' = IF m_block_stalling_timeout = expected THEN new
                                ELSE m_block_stalling_timeout

----------------------------------------------------------------------------
\* The window fills up and SendMessages sets m_stalling_since of a peer, which
\* it does while it handles another peer.
StallStarts ==
    /\ sender = NoValue /\ stalling = NoValue
    /\ stalling' = 0
    /\ UNCHANGED <<m_block_stalling_timeout, sender, connecter>>

\* The block arrives, or the peer is disconnected for another reason.
StallEnds ==
    /\ sender = NoValue /\ stalling # NoValue
    /\ stalling' = NoValue
    /\ UNCHANGED <<m_block_stalling_timeout, sender, connecter>>

\* A second passes; longer than the longest timeout makes no difference.
\* SendMessages reads the clock once, at its start.
StallLasts ==
    /\ sender = NoValue
    /\ stalling \in 0 .. BLOCK_STALLING_TIMEOUT_MAX
    /\ stalling' = stalling + 1
    /\ UNCHANGED <<m_block_stalling_timeout, sender, connecter>>

SendMessagesLoad ==
    /\ sender = NoValue /\ stalling # NoValue
    /\ sender' = m_block_stalling_timeout
    /\ UNCHANGED <<m_block_stalling_timeout, stalling, connecter>>

\* Disconnect the peer if it has stalled for too long, and be more patient
\* with the next one.
SendMessagesCheck ==
    /\ sender # NoValue
    /\ IF stalling > sender
       THEN /\ CompareExchange(sender, Backoff!Doubled(sender))
            /\ stalling' = NoValue
       ELSE UNCHANGED <<m_block_stalling_timeout, stalling>>
    /\ sender' = NoValue
    /\ UNCHANGED connecter

BlockConnectedLoad ==
    /\ connecter = NoValue
    /\ connecter' = m_block_stalling_timeout
    /\ UNCHANGED <<m_block_stalling_timeout, stalling, sender>>

\* Faulty: a plain store.
BlockConnectedStores ==
    /\ connecter # NoValue
    /\ m_block_stalling_timeout' = IF connecter = BLOCK_STALLING_TIMEOUT_DEFAULT
                                   THEN m_block_stalling_timeout
                                   ELSE Backoff!Decayed(connecter)
    /\ connecter' = NoValue
    /\ UNCHANGED <<stalling, sender>>

BlockConnectedUpdate ==
    /\ connecter # NoValue
    /\ IF connecter # BLOCK_STALLING_TIMEOUT_DEFAULT
       THEN CompareExchange(connecter, Backoff!Decayed(connecter))
       ELSE UNCHANGED m_block_stalling_timeout
    /\ connecter' = NoValue
    /\ UNCHANGED <<stalling, sender>>

TimeoutNext ==
    \/ StallStarts
    \/ StallEnds
    \/ StallLasts
    \/ SendMessagesLoad
    \/ SendMessagesCheck
    \/ BlockConnectedLoad
    \/ BlockConnectedUpdate

TimeoutSpec == TimeoutInit /\ [][TimeoutNext]_timeoutVars

\* Both threads finish what they have begun, and blocks go on being connected.
FairTimeoutSpec ==
    /\ TimeoutSpec
    /\ WF_timeoutVars(SendMessagesCheck)
    /\ WF_timeoutVars(BlockConnectedLoad) /\ WF_timeoutVars(BlockConnectedUpdate)

----------------------------------------------------------------------------
(***************************************************************************)
(* However the loads and the exchanges of the two threads interleave, no   *)
(* change is lost halfway: every change of m_block_stalling_timeout is a   *)
(* doubling or a decay of the value it replaces.                           *)
(***************************************************************************)
BackoffSpec == Backoff!Spec

(***************************************************************************)
(* The timeout stays between its default, which BlockConnected assumes     *)
(* (Assume), and its maximum.                                              *)
(***************************************************************************)
TimeoutInRange ==
    /\ m_block_stalling_timeout >= BLOCK_STALLING_TIMEOUT_DEFAULT
    /\ m_block_stalling_timeout <= BLOCK_STALLING_TIMEOUT_MAX

(***************************************************************************)
(* "reduce it slowly back to its default value": once no peer stalls any   *)
(* more, blocks that are connected bring the timeout back to its default.  *)
(***************************************************************************)
ReturnsToDefault ==
    <>[](stalling = NoValue)
        => <>[](m_block_stalling_timeout = BLOCK_STALLING_TIMEOUT_DEFAULT)
==============================================================================
