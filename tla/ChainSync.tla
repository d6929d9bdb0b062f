------------------------------ MODULE ChainSync ------------------------------
(***************************************************************************)
(* Finding out which chain a peer has (net_processing.cpp): SendMessages   *)
(* starts headers synchronisation with one peer, replaces it when it does  *)
(* not deliver, and disconnects an outbound peer whose chain stays behind  *)
(* ours (ConsiderEviction); the INV and HEADERS handlers learn from the    *)
(* peers' messages.                                                        *)
(*                                                                         *)
(* Blocks are the heights of one valid chain of headers, so a height is    *)
(* also an amount of work.  Points in time are kept relative to now: a     *)
(* deadline is the number of ticks left, a time stamp the ticks since.     *)
(***************************************************************************)
EXTENDS Integers, FiniteSets, FiniteSetsExt

CONSTANTS
    Node,
    Full,          \* outbound-full-relay connections
    BlockOnly,     \* block-relay-only connections
    Preferred,     \* peers with fPreferredDownload
    NoBan,         \* peers with the NoBan permission
    Silent,        \* peers that never send anything
    Responsive,    \* peers that answer getheaders within HEADERS_RESPONSE_TIME
    MaxHeight,     \* bound on the length of all chains
    RecentHeight,  \* blocks from this height on are less than a day old
    MinimumChainWork,
    CHAIN_SYNC_TIMEOUT,
    HEADERS_RESPONSE_TIME,
    HEADERS_DOWNLOAD_TIMEOUT,
    MAX_OUTBOUND_PEERS_TO_PROTECT_FROM_DISCONNECT

ASSUME SyncAssumption ==
    /\ IsFiniteSet(Node)
    /\ Full \cup BlockOnly \cup Preferred \cup NoBan \cup Silent \cup Responsive \subseteq Node
    /\ {MaxHeight, RecentHeight, MinimumChainWork} \subseteq Nat
    /\ Responsive \cap Silent = {}
    /\ {CHAIN_SYNC_TIMEOUT, HEADERS_RESPONSE_TIME, HEADERS_DOWNLOAD_TIMEOUT} \subseteq Nat
    /\ HEADERS_RESPONSE_TIME <= CHAIN_SYNC_TIMEOUT
    /\ MAX_OUTBOUND_PEERS_TO_PROTECT_FROM_DISCONNECT \in Nat

None == -1     \* no block
Expired == -1  \* a deadline that has passed
Off == -2      \* no deadline

VARIABLES
    tip,                          \* height of the active chain
    m_best_header,                \* height of the best header known
    chain,                        \* peer -> height of its own chain
    m_node_states,                \* connected peers
    fDisconnect,                  \* peers marked for disconnection
    pindexBestKnownBlock,         \* peer -> best block it has announced
    hashLastUnknownBlock,         \* peer -> block it announced that we lack
    fSyncStarted,                 \* peers we synchronise headers with
    nSyncStarted,
    m_headers_sync_timeout,       \* peer -> deadline
    m_inv_triggered_getheaders_before_sync,
    m_last_block_inv_triggering_headers_sync,
    m_last_getheaders_timestamp,  \* peer -> ticks since, at most Long
    getheaders,                   \* peer -> requests it has yet to answer
    m_timeout, m_work_header, m_sent_getheaders, m_protect,
    m_outbound_peers_with_protect_from_disconnect,
    waited,                       \* history: ticks since m_work_header was set
    probed,                       \* history: the peer's chain when it was probed
    evicted                       \* history: peers ConsiderEviction has marked

blocks     == <<tip, m_best_header, chain>>
announced  == <<pindexBestKnownBlock, hashLastUnknownBlock>>
syncing    == <<fSyncStarted, nSyncStarted, m_headers_sync_timeout>>
invs       == <<m_inv_triggered_getheaders_before_sync,
                m_last_block_inv_triggering_headers_sync>>
asked      == <<m_last_getheaders_timestamp, getheaders>>
timer      == <<m_timeout, m_work_header, m_sent_getheaders, waited, probed, evicted>>
protection == <<m_protect, m_outbound_peers_with_protect_from_disconnect>>
vars == <<blocks, m_node_states, fDisconnect, announced, syncing, invs, asked, timer, protection>>

\* A time stamp older than any of the limits; also the initial value.
Long == HEADERS_RESPONSE_TIME + 1

\* Longer than ConsiderEviction ever waits.
MaxWait == CHAIN_SYNC_TIMEOUT + HEADERS_RESPONSE_TIME + 2

Height == 0 .. MaxHeight

\* The best header is less than a day old.
Recent == m_best_header >= RecentHeight

IsInitialBlockDownload == tip < RecentHeight

IsOutboundOrBlockRelayConn(p) == p \in Full \cup BlockOnly

Init ==
    /\ tip = 0 /\ m_best_header = 0
    /\ chain \in [Node -> Height] /\ \A p \in Silent : chain[p] = 0
    /\ m_node_states = {} /\ fDisconnect = {}
    /\ pindexBestKnownBlock = [p \in Node |-> None]
    /\ hashLastUnknownBlock = [p \in Node |-> None]
    /\ fSyncStarted = {} /\ nSyncStarted = 0
    /\ m_headers_sync_timeout = [p \in Node |-> Off]
    /\ m_inv_triggered_getheaders_before_sync = {}
    /\ m_last_block_inv_triggering_headers_sync = None
    /\ m_last_getheaders_timestamp = [p \in Node |-> Long]
    /\ getheaders = [p \in Node |-> {}]
    /\ m_timeout = [p \in Node |-> Off]
    /\ m_work_header = [p \in Node |-> None]
    /\ m_sent_getheaders = [p \in Node |-> FALSE]
    /\ m_protect = {}
    \* Peers outside the model may have some of the protection.
    /\ m_outbound_peers_with_protect_from_disconnect
         \in 0 .. MAX_OUTBOUND_PEERS_TO_PROTECT_FROM_DISCONNECT
    /\ waited = [p \in Node |-> 0]
    /\ probed = [p \in Node |-> None]
    /\ evicted = {}

----------------------------------------------------------------------------
(* The surroundings: time, blocks and connections. *)

Elapse(deadline) == IF deadline >= 0 THEN deadline - 1 ELSE deadline

\* Time passes; the answer of a responsive peer is not overdue.
Tick ==
    /\ \A p \in Responsive : \A r \in getheaders[p] : r.age < HEADERS_RESPONSE_TIME
    /\ m_timeout' = [p \in Node |-> Elapse(m_timeout[p])]
    /\ m_headers_sync_timeout' = [p \in Node |-> Elapse(m_headers_sync_timeout[p])]
    /\ m_last_getheaders_timestamp' =
         [p \in Node |-> Min({m_last_getheaders_timestamp[p] + 1, Long})]
    /\ getheaders' =
         [p \in Node |-> {[from |-> r.from, age |-> IF p \in Responsive THEN r.age + 1 ELSE 0] :
                             r \in getheaders[p]}]
    /\ waited' = [p \in Node |-> IF m_work_header[p] = None THEN 0
                                 ELSE IF waited[p] < MaxWait THEN waited[p] + 1
                                 ELSE MaxWait]
    /\ UNCHANGED <<blocks, m_node_states, fDisconnect, announced, fSyncStarted, nSyncStarted,
                   invs, m_work_header, m_sent_getheaders, probed, evicted, protection>>

\* A block is connected: one whose header a peer has sent, or one we mined.
TipGrows ==
    /\ tip < MaxHeight
    /\ tip' = tip + 1
    /\ m_best_header' = Max({m_best_header, tip + 1})
    /\ UNCHANGED <<chain, m_node_states, fDisconnect, announced, syncing, invs, asked, timer,
                   protection>>

PeerChainGrows(p) ==
    /\ p \in m_node_states \ Silent /\ chain[p] < MaxHeight
    /\ chain' = [chain EXCEPT ![p] = @ + 1]
    /\ UNCHANGED <<tip, m_best_header, m_node_states, fDisconnect, announced, syncing, invs,
                   asked, timer, protection>>

\* An id is used for one connection only.
Connect(p) ==
    /\ p \notin m_node_states \cup fDisconnect
    /\ m_node_states' = m_node_states \cup {p}
    /\ UNCHANGED <<blocks, fDisconnect, announced, syncing, invs, asked, timer, protection>>

\* The socket is closed, or another rule disconnects the peer.
ConnectionLost(p) ==
    /\ p \in m_node_states \ fDisconnect
    /\ fDisconnect' = fDisconnect \cup {p}
    /\ UNCHANGED <<blocks, m_node_states, announced, syncing, invs, asked, timer, protection>>

SetTimer(p, timeout, header, sent) ==
    /\ m_timeout' = [m_timeout EXCEPT ![p] = timeout]
    /\ m_work_header' = [m_work_header EXCEPT ![p] = header]
    /\ m_sent_getheaders' = [m_sent_getheaders EXCEPT ![p] = sent]

\* What the Peer and the CNodeState of p held is gone with them.
Forget(p) ==
    /\ pindexBestKnownBlock' = [pindexBestKnownBlock EXCEPT ![p] = None]
    /\ hashLastUnknownBlock' = [hashLastUnknownBlock EXCEPT ![p] = None]
    /\ m_headers_sync_timeout' = [m_headers_sync_timeout EXCEPT ![p] = Off]
    /\ m_inv_triggered_getheaders_before_sync' = m_inv_triggered_getheaders_before_sync \ {p}
    /\ m_last_getheaders_timestamp' = [m_last_getheaders_timestamp EXCEPT ![p] = Long]
    /\ getheaders' = [getheaders EXCEPT ![p] = {}]
    /\ SetTimer(p, Off, None, FALSE)
    /\ waited' = [waited EXCEPT ![p] = 0]
    /\ probed' = [probed EXCEPT ![p] = None]
    /\ evicted' = evicted \ {p}

\* Faulty: the sync slot of the peer is not given back.
FinalizeKeepsSync(p) ==
    /\ p \in m_node_states \cap fDisconnect
    /\ m_node_states' = m_node_states \ {p}
    /\ fSyncStarted' = fSyncStarted \ {p}
    /\ m_protect' = m_protect \ {p}
    /\ m_outbound_peers_with_protect_from_disconnect' =
         m_outbound_peers_with_protect_from_disconnect - Cardinality(m_protect \cap {p})
    /\ Forget(p)
    /\ UNCHANGED <<blocks, fDisconnect, nSyncStarted, m_last_block_inv_triggering_headers_sync>>

FinalizeNode(p) ==
    /\ p \in m_node_states \cap fDisconnect
    /\ m_node_states' = m_node_states \ {p}
    /\ fSyncStarted' = fSyncStarted \ {p}
    /\ nSyncStarted' = nSyncStarted - Cardinality(fSyncStarted \cap {p})
    /\ m_protect' = m_protect \ {p}
    /\ m_outbound_peers_with_protect_from_disconnect' =
         m_outbound_peers_with_protect_from_disconnect - Cardinality(m_protect \cap {p})
    /\ Forget(p)
    /\ UNCHANGED <<blocks, fDisconnect, m_last_block_inv_triggering_headers_sync>>

----------------------------------------------------------------------------
(* Asking for headers. *)

Serving(p) == p \in m_node_states \ fDisconnect

\* A message of p is processed.
Receiving(p) == Serving(p) /\ p \notin Silent

\* No getheaders of the last HEADERS_RESPONSE_TIME is unanswered.
MayGetHeaders(p) == m_last_getheaders_timestamp[p] > HEADERS_RESPONSE_TIME

\* Nothing is asked for twice within HEADERS_RESPONSE_TIME.
MaybeSendGetHeaders(p, locator) ==
    IF MayGetHeaders(p)
    THEN /\ m_last_getheaders_timestamp' = [m_last_getheaders_timestamp EXCEPT ![p] = 0]
         /\ getheaders' =
              [q \in Node |-> IF q \in {p} \ Silent
                             THEN getheaders[q] \cup {[from |-> Max({0, locator}), age |-> 0]}
                             ELSE getheaders[q]]
    ELSE UNCHANGED asked

(***************************************************************************)
(* UpdateBlockAvailability for a block h: a block that was unknown when it *)
(* was announced counts from the moment its header is known.               *)
(***************************************************************************)
UpdateBlockAvailability(p, h) ==
    LET named == {hashLastUnknownBlock[p], h}
        known == {g \in named : g <= m_best_header'}
    IN  /\ pindexBestKnownBlock' =
             [pindexBestKnownBlock EXCEPT ![p] = Max(known \cup {@})]
        /\ hashLastUnknownBlock' =
             [hashLastUnknownBlock EXCEPT ![p] = IF h > m_best_header' THEN h
                                                 ELSE IF @ <= m_best_header' THEN None ELSE @]

\* An INV for the peer's tip, when we do not have that block.
Inv(p) ==
    /\ Receiving(p)
    /\ chain[p] > m_best_header
    /\ UNCHANGED m_best_header
    /\ UpdateBlockAvailability(p, chain[p])
    /\ IF \/ p \in fSyncStarted
          \/ /\ p \notin m_inv_triggered_getheaders_before_sync
             /\ chain[p] # m_last_block_inv_triggering_headers_sync
       THEN /\ MaybeSendGetHeaders(p, m_best_header)
            /\ IF p \in fSyncStarted
               THEN UNCHANGED invs
               ELSE /\ m_inv_triggered_getheaders_before_sync' =
                         m_inv_triggered_getheaders_before_sync \cup {p}
                    /\ m_last_block_inv_triggering_headers_sync' = chain[p]
       ELSE UNCHANGED <<asked, invs>>
    /\ UNCHANGED <<tip, chain, m_node_states, fDisconnect, syncing, timer, protection>>

\* HandleUnconnectingHeaders: a header announced whose parent we do not have.
UnconnectingHeader(p) ==
    /\ Receiving(p)
    /\ chain[p] > m_best_header + 1
    /\ UNCHANGED m_best_header
    /\ MaybeSendGetHeaders(p, m_best_header)
    /\ UpdateBlockAvailability(p, chain[p])
    /\ UNCHANGED <<tip, chain, m_node_states, fDisconnect, syncing, invs, timer, protection>>

(***************************************************************************)
(* ProcessHeadersMessage for headers up to h that connect, which may be an *)
(* announcement or an answer, and UpdatePeerStateForReceivedHeaders.       *)
(***************************************************************************)
ProcessHeaders(p, h) ==
    LET lowWork  == /\ IsInitialBlockDownload /\ IsOutboundOrBlockRelayConn(p)
                    /\ pindexBestKnownBlock'[p] < MinimumChainWork
        protects == /\ ~ lowWork
                    /\ p \in Full \ m_protect
                    /\ m_outbound_peers_with_protect_from_disconnect
                         < MAX_OUTBOUND_PEERS_TO_PROTECT_FROM_DISCONNECT
                    /\ pindexBestKnownBlock'[p] >= tip
    IN  /\ m_last_getheaders_timestamp' = [m_last_getheaders_timestamp EXCEPT ![p] = Long]
        /\ m_best_header' = Max({m_best_header, h})
        /\ UpdateBlockAvailability(p, h)
        /\ fDisconnect' = fDisconnect \cup {q \in {p} : lowWork}
        /\ m_protect' = m_protect \cup {q \in {p} : protects}
        /\ m_outbound_peers_with_protect_from_disconnect' =
             m_outbound_peers_with_protect_from_disconnect + (IF protects THEN 1 ELSE 0)
        /\ UNCHANGED <<tip, chain, m_node_states, syncing, invs, timer>>

\* The peer announces its tip by a header that connects.
Announce(p) ==
    /\ Receiving(p)
    /\ chain[p] \in 1 .. m_best_header + 1
    /\ ProcessHeaders(p, chain[p])
    /\ UNCHANGED getheaders

\* An answer without headers only shows that the request was received.
ProcessNoHeaders(p) ==
    /\ m_last_getheaders_timestamp' = [m_last_getheaders_timestamp EXCEPT ![p] = Long]
    /\ UNCHANGED <<blocks, m_node_states, fDisconnect, announced, syncing, invs, timer,
                   protection>>

\* The peer answers with what follows the locator on its chain.
Answer(p) ==
    /\ Receiving(p)
    /\ \E r \in getheaders[p] :
          /\ getheaders' = [getheaders EXCEPT ![p] = @ \ {r}]
          /\ \/ chain[p] > r.from /\ ProcessHeaders(p, chain[p])
             \/ chain[p] <= r.from /\ ProcessNoHeaders(p)

----------------------------------------------------------------------------
(***************************************************************************)
(* SendMessages(p), with the parts that come before ConsiderEviction.      *)
(***************************************************************************)
\* "idle": no block is in flight from anybody.
SyncFromPeer(p, idle) == p \in Preferred \/ Preferred \cap m_node_states = {} \/ idle

StartsSync(p, idle) ==
    /\ p \notin fSyncStarted
    /\ (nSyncStarted = 0 /\ SyncFromPeer(p, idle)) \/ Recent
    /\ MayGetHeaders(p)

\* Faulty: off by one, a single other preferred peer does not count.
SyncStalledTwoOthers(p) ==
    /\ p \in fSyncStarted
    /\ m_headers_sync_timeout[p] = Expired /\ ~ Recent
    /\ nSyncStarted = 1 /\ Cardinality((Preferred \cap m_node_states) \ {p}) > 1

\* The only sync peer has not brought us near today, and there are others.
SyncStalled(p) ==
    /\ p \in fSyncStarted
    /\ m_headers_sync_timeout[p] = Expired /\ ~ Recent
    /\ nSyncStarted = 1 /\ (Preferred \cap m_node_states) \ {p} # {}

SyncTimeout(p) ==
    /\ Serving(p)
    /\ SyncStalled(p) /\ p \notin NoBan
    /\ fDisconnect' = fDisconnect \cup {p}
    /\ UNCHANGED <<blocks, m_node_states, announced, syncing, invs, asked, timer, protection>>

\* The headers sync state after this SendMessages.
UpdateSync(p, starts) ==
    LET resets == SyncStalled(p)
    IN  /\ fSyncStarted' = (fSyncStarted \cup {q \in {p} : starts}) \ {q \in {p} : resets}
        /\ nSyncStarted' = IF starts THEN nSyncStarted + 1
                           ELSE IF resets THEN nSyncStarted - 1 ELSE nSyncStarted
        /\ m_headers_sync_timeout' =
             [m_headers_sync_timeout EXCEPT
                ![p] = IF p \in fSyncStarted' /\ Recent THEN Off
                       ELSE IF starts THEN HEADERS_DOWNLOAD_TIMEOUT
                       ELSE IF resets THEN Off ELSE @]

CaughtUp(p) == pindexBestKnownBlock[p] >= tip

\* Faulty: reaching the work asked for does not count.
NoRestart(p) == m_timeout[p] = Off

\* Behind for the first time, or again after reaching the work asked for.
Restarts(p) ==
    \/ m_timeout[p] = Off
    \/ /\ m_work_header[p] # None /\ pindexBestKnownBlock[p] # None
       /\ pindexBestKnownBlock[p] >= m_work_header[p]

Overdue(p) == ~ CaughtUp(p) /\ ~ Restarts(p) /\ m_timeout[p] = Expired

\* Subject to ConsiderEviction.
Considered(p) == p \notin m_protect /\ IsOutboundOrBlockRelayConn(p) /\ p \in fSyncStarted'

Probes(p) == Considered(p) /\ Overdue(p) /\ ~ m_sent_getheaders[p]

\* Faulty: the deadline is not moved for the answer.
ProbeKeepsDeadline(p) ==
    /\ SetTimer(p, m_timeout[p], m_work_header[p], TRUE)
    /\ probed' = [probed EXCEPT ![p] = chain[p]]


\* One getheaders, and time for the answer.
Probe(p) ==
    /\ SetTimer(p, HEADERS_RESPONSE_TIME, m_work_header[p], TRUE)
    /\ probed' = [probed EXCEPT ![p] = chain[p]]

ConsiderEviction(p) ==
    IF ~ Considered(p) THEN UNCHANGED <<timer, fDisconnect>>
    ELSE
    \/ /\ CaughtUp(p)
       /\ SetTimer(p, Off, None, FALSE)
       /\ waited' = [waited EXCEPT ![p] = 0] /\ probed' = [probed EXCEPT ![p] = None]
       /\ UNCHANGED <<evicted, fDisconnect>>
    \/ /\ ~ CaughtUp(p) /\ Restarts(p)
       /\ SetTimer(p, CHAIN_SYNC_TIMEOUT, tip, FALSE)
       /\ waited' = [waited EXCEPT ![p] = 0] /\ probed' = [probed EXCEPT ![p] = None]
       /\ UNCHANGED <<evicted, fDisconnect>>
    \/ /\ Overdue(p) /\ m_sent_getheaders[p]
       /\ fDisconnect' = fDisconnect \cup {p} /\ evicted' = evicted \cup {p}
       /\ UNCHANGED <<m_timeout, m_work_header, m_sent_getheaders, waited, probed>>
    \/ /\ Overdue(p) /\ ~ m_sent_getheaders[p]
       /\ Probe(p)
       /\ UNCHANGED <<waited, evicted, fDisconnect>>
    \/ /\ ~ CaughtUp(p) /\ ~ Restarts(p) /\ ~ Overdue(p)
       /\ UNCHANGED <<timer, fDisconnect>>

\* FindNextBlocksToDownload, when it is called, starts with this.
ProcessBlockAvailability(p, called) ==
    LET known == {h \in {hashLastUnknownBlock[p]} : called /\ h <= m_best_header}
    IN  /\ pindexBestKnownBlock' = [pindexBestKnownBlock EXCEPT ![p] = Max(known \cup {@})]
        /\ hashLastUnknownBlock' = [hashLastUnknownBlock EXCEPT ![p] = IF known = {} THEN @ ELSE None]

SendMessages(p) ==
    /\ Serving(p)
    /\ ~ (SyncStalled(p) /\ p \notin NoBan)
    /\ \E idle, downloads \in BOOLEAN :
          LET starts == StartsSync(p, idle)
          IN  /\ UpdateSync(p, starts)
              /\ ConsiderEviction(p)
              /\ IF starts THEN MaybeSendGetHeaders(p, m_best_header - 1)
                 ELSE IF Probes(p) THEN MaybeSendGetHeaders(p, m_work_header[p] - 1)
                 ELSE UNCHANGED asked
              /\ ProcessBlockAvailability(p, downloads)
    /\ UNCHANGED <<blocks, m_node_states, invs, protection>>

----------------------------------------------------------------------------
Next ==
    \/ Tick
    \/ TipGrows
    \/ \E p \in Node :
          \/ PeerChainGrows(p)
          \/ Connect(p)
          \/ ConnectionLost(p)
          \/ FinalizeNode(p)
          \/ Inv(p)
          \/ UnconnectingHeader(p)
          \/ Announce(p)
          \/ Answer(p)
          \/ SyncTimeout(p)
          \/ SendMessages(p)

Spec == Init /\ [][Next]_vars

(***************************************************************************)
(* ThreadMessageHandler calls SendMessages for every peer in every round,  *)
(* whatever happened in between, hence strong fairness; time goes on, the  *)
(* net threads open and close connections.  A responsive peer answers, and *)
(* announces a block that is new to us, at least by an INV.                *)
(***************************************************************************)
Fairness ==
    /\ WF_vars(Tick)
    /\ \A p \in Node : /\ WF_vars(Connect(p)) /\ WF_vars(FinalizeNode(p))
                       /\ SF_vars(SyncTimeout(p) \/ SendMessages(p))
    /\ \A p \in Responsive : WF_vars(Answer(p)) /\ WF_vars(Inv(p))

FairSpec == Spec /\ Fairness

----------------------------------------------------------------------------
(***************************************************************************)
(* nSyncStarted, which decides whether another peer may be asked for       *)
(* headers, is the number of connected peers with fSyncStarted, whatever   *)
(* became of the peers it counted.                                         *)
(***************************************************************************)
SyncPeersCounted ==
    /\ fSyncStarted \subseteq m_node_states
    /\ nSyncStarted = Cardinality(fSyncStarted)

(***************************************************************************)
(* ConsiderEviction only disconnects a peer that was given our tip of that *)
(* time as the work to show, was left CHAIN_SYNC_TIMEOUT and then, after a *)
(* probe, HEADERS_RESPONSE_TIME, and has shown less all the while, however *)
(* our tip moved and whatever else the peer sent.                          *)
(***************************************************************************)
LaggardsHadTheirTime ==
    \A p \in evicted :
        /\ m_sent_getheaders[p]
        /\ waited[p] > CHAIN_SYNC_TIMEOUT + HEADERS_RESPONSE_TIME

(***************************************************************************)
(* "it'll either go out or be skipped because of a getheaders in-flight    *)
(* already, in which case the peer should still respond to us with a       *)
(* sufficiently high work chain tip": a peer that answers in time and had  *)
(* the work we asked for when it was probed is not disconnected, although  *)
(* the probe may have been skipped.  Only for the genesis block, which no  *)
(* headers message contains, can nobody show the work.  A NoBan peer is    *)
(* the other exception: when its headers synchronisation stalls it may be  *)
(* started again while the timer runs, from a header beyond the work asked *)
(* for, and then that request is the one in flight.                        *)
(***************************************************************************)
SyncedPeerKept ==
    \A p \in (evicted \cap Responsive) \ NoBan :
        m_work_header[p] > 0 => probed[p] < m_work_header[p]

(***************************************************************************)
(* Headers synchronisation does not hang on a silent peer: the headers of  *)
(* a preferred peer that answers are known in the end, whichever peer was  *)
(* asked first, unless that peer is itself disconnected.                   *)
(***************************************************************************)
HeadersComplete ==
    \A p \in Responsive \cap Preferred :
        p \in m_node_states ~> (p \in fDisconnect \/ m_best_header >= chain[p])

=============================================================================
