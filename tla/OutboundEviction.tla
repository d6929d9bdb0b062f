-------------------------- MODULE OutboundEviction --------------------------
(***************************************************************************)
(* EvictExtraOutboundPeers and CheckForStaleTipAndEvictPeers               *)
(* (net_processing.cpp), which the scheduler runs every 45 seconds, beside *)
(* the threads that open, lose and close connections (net.cpp).            *)
(*                                                                         *)
(* The pass holds cs_main from its first to its last step, so nothing that *)
(* needs cs_main happens inside it, but it takes m_nodes_mutex anew for    *)
(* each of its sections: between them connections are marked, removed and  *)
(* added.  It uses one reading of the clock, so ages do not grow inside it.*)
(***************************************************************************)
EXTENDS Integers, FiniteSets

CONSTANTS
    Node,         \* NodeIds of the outbound connections
    FullChoices,  \* which of them may be the outbound-full-relay ones
    Network,      \* Network[p]: the network p is reached through
    m_max_outbound_full_relay,
    m_max_outbound_block_relay,
    MAX_OUTBOUND_PEERS_TO_PROTECT_FROM_DISCONNECT,
    PoolSize,     \* candidates with a score that the scored rule needs: 3
    Scores,       \* scores that relay quality can give
    MaxTime,      \* bound on the times of announcements and blocks
    Volatile,     \* peers whose connections may be lost
    Downloading   \* peers that blocks are requested from

None == -1

ASSUME EvictionAssumption ==
    /\ Node \subseteq Nat /\ IsFiniteSet(Node) /\ FullChoices \subseteq SUBSET Node
    /\ Scores \subseteq Int /\ None \notin Scores
    /\ MAX_OUTBOUND_PEERS_TO_PROTECT_FROM_DISCONNECT \in Nat
    /\ PoolSize \in Nat \ {0} /\ MaxTime \in Nat
    /\ Volatile \cup Downloading \subseteq Node

VARIABLES
    Full,                   \* outbound-full-relay connections (m_conn_type)
    m_node_states,          \* peers with a CNodeState
    m_nodes,                \* connections CConnman lists, in the order of their ids
    fSuccessfullyConnected, \* peers whose handshake is done
    fDisconnect,            \* connections marked for disconnection
    age,                    \* 0, 1, 2: under, at, over MINIMUM_CONNECT_TIME
    busy,                   \* peers with a non-empty vBlocksInFlight
    m_protect,
    m_outbound_peers_with_protect_from_disconnect,
    m_last_block_announcement,
    m_last_block_time,
    score,                  \* the relay score, None without enough evidence
    m_network_conn_counts,
    m_try_another_outbound_peer,
    pc,                     \* the section the pass is about to enter
    victim                  \* the peer the pass has chosen, or None

connections == <<m_nodes, fSuccessfullyConnected, fDisconnect, m_network_conn_counts>>
protection  == <<m_protect, m_outbound_peers_with_protect_from_disconnect>>
merits      == <<age, busy, m_last_block_announcement, m_last_block_time, score>>
pass        == <<m_try_another_outbound_peer, pc, victim>>
vars        == <<Full, m_node_states, connections, protection, merits, pass>>

\* The others are block-relay-only connections.
BlockOnly == Node \ Full

Networks == {Network[p] : p \in Node}
Idle == pc = "idle"

\* The connections ForEachNode and ForNode reach.
NodeFullyConnected == (m_nodes \cap fSuccessfullyConnected) \ fDisconnect

Init ==
    /\ Full \in FullChoices
    /\ m_node_states = {}
    /\ m_nodes = {} /\ fSuccessfullyConnected = {} /\ fDisconnect = {}
    /\ m_network_conn_counts = [n \in Networks |-> 0]
    /\ age = [p \in Node |-> 0]
    /\ busy = {}
    /\ m_protect = {}
    /\ m_outbound_peers_with_protect_from_disconnect = 0
    /\ m_last_block_announcement = [p \in Node |-> 0]
    /\ m_last_block_time = [p \in Node |-> 0]
    /\ score = [p \in Node |-> None]
    /\ m_try_another_outbound_peer = FALSE
    /\ pc = "idle" /\ victim = None

-----------------------------------------------------------------------------
(* Connections come and go. *)

\* One thread opens outbound connections, and ids only grow.
InitializeNode(p) ==
    /\ Idle
    /\ m_node_states \subseteq m_nodes \cup fDisconnect
    /\ \A q \in m_node_states \cup fDisconnect : q < p
    /\ m_node_states' = m_node_states \cup {p}
    /\ UNCHANGED <<connections, protection, merits, pass>>

\* OpenNetworkConnection, once InitializeNode has returned.
AddNode(p) ==
    /\ p \in m_node_states \ (m_nodes \cup fDisconnect)
    /\ m_nodes' = m_nodes \cup {p}
    /\ m_network_conn_counts' =
         IF p \in Full
         THEN [m_network_conn_counts EXCEPT ![Network[p]] = @ + 1]
         ELSE m_network_conn_counts
    /\ UNCHANGED <<m_node_states, fSuccessfullyConnected, fDisconnect, protection, merits, pass>>

Verack(p) ==
    /\ p \in m_nodes \ (fSuccessfullyConnected \cup fDisconnect)
    /\ fSuccessfullyConnected' = fSuccessfullyConnected \cup {p}
    /\ UNCHANGED <<m_node_states, m_nodes, fDisconnect, m_network_conn_counts,
                   protection, merits, pass>>

ConnectionLost(p) ==
    /\ p \in (m_nodes \cap Volatile) \ fDisconnect
    /\ fDisconnect' = fDisconnect \cup {p}
    /\ UNCHANGED <<m_node_states, m_nodes, fSuccessfullyConnected, m_network_conn_counts,
                   protection, merits, pass>>

\* Faulty: m_network_conn_counts still counts the connection.
DisconnectKeepsCount(p) ==
    /\ p \in m_nodes \cap fDisconnect
    /\ m_nodes' = m_nodes \ {p}
    /\ UNCHANGED <<m_node_states, fSuccessfullyConnected, fDisconnect, m_network_conn_counts,
                   protection, merits, pass>>

DisconnectNodes(p) ==
    /\ p \in m_nodes \cap fDisconnect
    /\ m_nodes' = m_nodes \ {p}
    /\ m_network_conn_counts' =
         IF p \in Full
         THEN [m_network_conn_counts EXCEPT ![Network[p]] = @ - 1]
         ELSE m_network_conn_counts
    /\ UNCHANGED <<m_node_states, fSuccessfullyConnected, fDisconnect, protection, merits, pass>>

\* Faulty: the counter still counts the peer.
FinalizeKeepsProtect(p) ==
    /\ Idle
    /\ p \in (m_node_states \cap fDisconnect) \ m_nodes
    /\ m_node_states' = m_node_states \ {p}
    /\ busy' = busy \ {p}
    /\ m_protect' = m_protect \ {p}
    /\ UNCHANGED <<connections, m_outbound_peers_with_protect_from_disconnect, age,
                   m_last_block_announcement, m_last_block_time, score, pass>>

FinalizeNode(p) ==
    /\ Idle
    /\ p \in (m_node_states \cap fDisconnect) \ m_nodes
    /\ m_node_states' = m_node_states \ {p}
    /\ busy' = busy \ {p}
    /\ m_protect' = m_protect \ {p}
    /\ m_outbound_peers_with_protect_from_disconnect' =
         m_outbound_peers_with_protect_from_disconnect - (IF p \in m_protect THEN 1 ELSE 0)
    /\ UNCHANGED <<connections, age, m_last_block_announcement, m_last_block_time, score, pass>>

-----------------------------------------------------------------------------
(* What peers earn. *)

\* The times a clock that never goes back may show.
Now(times) == {t \in 1 .. MaxTime : \A p \in Node : times[p] <= t}

\* UpdatePeerStateForReceivedHeaders for the last of the headers p has sent:
\* "fresh" when it is new and has more work than our tip, "useful" when p's
\* best known block has at least our tip's work, "poor" when we are in initial
\* block download and its chain has too little work.
UpdatePeerStateForReceivedHeaders(p, fresh, useful, poor) ==
    LET protects == /\ p \in Full \ (fDisconnect \cup m_protect)
                    /\ useful /\ ~poor
                    /\ m_outbound_peers_with_protect_from_disconnect
                         < MAX_OUTBOUND_PEERS_TO_PROTECT_FROM_DISCONNECT
    IN
    /\ Idle
    /\ p \in m_node_states \cap fSuccessfullyConnected
    /\ fresh => useful
    /\ poor => p \in Volatile
    /\ IF fresh
       THEN \E t \in Now(m_last_block_announcement) :
              m_last_block_announcement' = [m_last_block_announcement EXCEPT ![p] = t]
       ELSE UNCHANGED m_last_block_announcement
    /\ fDisconnect' = fDisconnect \cup (IF poor THEN {p} ELSE {})
    /\ m_protect' = m_protect \cup (IF protects THEN {p} ELSE {})
    /\ m_outbound_peers_with_protect_from_disconnect' =
         m_outbound_peers_with_protect_from_disconnect + (IF protects THEN 1 ELSE 0)
    /\ UNCHANGED <<m_node_states, m_nodes, fSuccessfullyConnected, m_network_conn_counts,
                   age, busy, m_last_block_time, score, pass>>

\* p gives us a new block; this needs no cs_main.
ProcessBlock(p) ==
    /\ p \in m_node_states \cap fSuccessfullyConnected \cap BlockOnly
    /\ \E t \in Now(m_last_block_time) : m_last_block_time' = [m_last_block_time EXCEPT ![p] = t]
    /\ UNCHANGED <<m_node_states, connections, protection, age, busy,
                   m_last_block_announcement, score, pass>>

\* vBlocksInFlight of p becomes non-empty, or empty again.
BlockRequested(p) ==
    /\ Idle
    /\ p \in (m_node_states \cap fSuccessfullyConnected \cap Downloading) \ busy
    /\ busy' = busy \cup {p}
    /\ UNCHANGED <<m_node_states, connections, protection, age,
                   m_last_block_announcement, m_last_block_time, score, pass>>

RemoveBlockRequest(p) ==
    /\ Idle
    /\ p \in busy
    /\ busy' = busy \ {p}
    /\ UNCHANGED <<m_node_states, connections, protection, age,
                   m_last_block_announcement, m_last_block_time, score, pass>>

\* An older connection reaches each age no later than a younger one.
TimePasses(p) ==
    /\ Idle
    /\ p \in m_nodes /\ age[p] < 2
    /\ \A q \in m_nodes : q < p => age[q] > age[p]
    /\ age' = [age EXCEPT ![p] = @ + 1]
    /\ UNCHANGED <<m_node_states, connections, protection, busy,
                   m_last_block_announcement, m_last_block_time, score, pass>>

\* HasEnoughEvidence and Score of RelayQuality: a peer has a score only once it
\* has been connected for longer than MINIMUM_CONNECT_TIME.
Rate(p, s) ==
    /\ Idle
    /\ p \in m_nodes \cap fSuccessfullyConnected \cap Full
    /\ age[p] = 2 /\ s # score[p]
    /\ score' = [score EXCEPT ![p] = s]
    /\ UNCHANGED <<m_node_states, connections, protection, age, busy,
                   m_last_block_announcement, m_last_block_time, pass>>

-----------------------------------------------------------------------------
(* The pass of EvictExtraOutboundPeers, section by section. *)

LiveOf(kind) == kind \cap NodeFullyConnected

ExtraFullOutbound == Cardinality(LiveOf(Full)) > m_max_outbound_full_relay
ExtraBlockRelay == Cardinality(LiveOf(BlockOnly)) > m_max_outbound_block_relay

Goto(section) == pc' = section

BeginPass ==
    /\ Idle
    /\ Goto(IF ExtraBlockRelay THEN "youngest" ELSE "count")
    /\ UNCHANGED <<m_node_states, connections, protection, merits,
                   m_try_another_outbound_peer, victim>>

Youngest(S) == IF S = {} THEN None ELSE CHOOSE p \in S : \A q \in S : q <= p

LastBlockTime(p) == IF p = None THEN 0 ELSE m_last_block_time[p]

\* Faulty: a tie counts as the youngest having given a block later.
RelayVictimOnTie(S) ==
    LET youngest == Youngest(S)
        next     == Youngest(S \ {youngest})
    IN  IF LastBlockTime(youngest) >= LastBlockTime(next) THEN next ELSE youngest

\* The youngest, or the next youngest when the youngest gave a block later.
RelayVictim(S) ==
    LET youngest == Youngest(S)
        next     == Youngest(S \ {youngest})
    IN  IF LastBlockTime(youngest) > LastBlockTime(next) THEN next ELSE youngest

ChooseBlockRelay ==
    /\ pc = "youngest"
    /\ victim' = RelayVictim(LiveOf(BlockOnly))
    /\ Goto("drop_relay")
    /\ UNCHANGED <<m_node_states, connections, protection, merits,
                   m_try_another_outbound_peer>>

RelayEvictable(p) ==
    /\ p \in NodeFullyConnected
    /\ p \in m_node_states => age[p] >= 1 /\ p \notin busy

DropBlockRelay ==
    /\ pc = "drop_relay"
    /\ fDisconnect' = fDisconnect \cup {p \in {victim} : RelayEvictable(p)}
    /\ victim' = None
    /\ Goto("count")
    /\ UNCHANGED <<m_node_states, m_nodes, fSuccessfullyConnected, m_network_conn_counts,
                   protection, merits, m_try_another_outbound_peer>>

CountFullOutbound ==
    /\ pc = "count"
    /\ Goto(IF ExtraFullOutbound THEN "collect" ELSE "stale")
    /\ UNCHANGED <<m_node_states, connections, protection, merits,
                   m_try_another_outbound_peer, victim>>

MultipleManualOrFullOutboundConns(n) == m_network_conn_counts[n] > 1

\* Over the minimum age and with no block in flight: asked when candidates are
\* collected and again when one is disconnected.
Settled(p) == p \in m_node_states /\ age[p] > 1 /\ p \notin busy

\* Faulty: m_protect is not consulted.
UnprotectedCandidates ==
    {p \in LiveOf(Full) : MultipleManualOrFullOutboundConns(Network[p]) /\ Settled(p)}

\* Faulty: only the disconnection asks for age and blocks in flight.
UnsettledCandidates ==
    {p \in LiveOf(Full) : p \notin m_protect /\ MultipleManualOrFullOutboundConns(Network[p])}

Candidates ==
    {p \in LiveOf(Full) : /\ p \notin m_protect
                          /\ MultipleManualOrFullOutboundConns(Network[p])
                          /\ Settled(p)}

\* The order of min_element: oldest announcement first, then the higher id.
LegacyBefore(p, q) ==
    \/ m_last_block_announcement[p] < m_last_block_announcement[q]
    \/ m_last_block_announcement[p] = m_last_block_announcement[q] /\ p > q

\* The order of sort: lowest score first, then the lower id.
ScoreBefore(p, q) == score[p] < score[q] \/ (score[p] = score[q] /\ p < q)

Scored(S) == {p \in S : score[p] # None}

\* Faulty: drawn from all of the scored candidates.
AnyScoredPeer(S) ==
    IF Cardinality(Scored(S)) >= PoolSize
    THEN Scored(S)
    ELSE {p \in S : \A q \in S \ {p} : LegacyBefore(p, q)}

\* The peers the selection may return for the candidates S: any of the first
\* PoolSize in the order of sort, or the first in that of min_element.
PeerToDisconnect(S) ==
    IF Cardinality(Scored(S)) >= PoolSize
    THEN {p \in Scored(S) : Cardinality({q \in Scored(S) : ScoreBefore(q, p)}) < PoolSize}
    ELSE {p \in S : \A q \in S \ {p} : LegacyBefore(p, q)}

ChooseFullOutbound ==
    /\ pc = "collect"
    /\ IF Candidates = {}
       THEN Goto("stale") /\ UNCHANGED victim
       ELSE Goto("drop_full") /\ victim' \in PeerToDisconnect(Candidates)
    /\ UNCHANGED <<m_node_states, connections, protection, merits,
                   m_try_another_outbound_peer>>

DropFullOutbound ==
    LET disconnected == victim \in NodeFullyConnected /\ Settled(victim)
    IN
    /\ pc = "drop_full"
    /\ fDisconnect' = fDisconnect \cup (IF disconnected THEN {victim} ELSE {})
    /\ m_try_another_outbound_peer' = (m_try_another_outbound_peer /\ ~disconnected)
    /\ victim' = None
    /\ Goto("stale")
    /\ UNCHANGED <<m_node_states, m_nodes, fSuccessfullyConnected, m_network_conn_counts,
                   protection, merits>>

\* The rest of CheckForStaleTipAndEvictPeers: "due" when the check time has
\* come, "old" when our tip is old and we may connect to others.
CheckForStaleTip(due, old) ==
    /\ pc = "stale"
    /\ m_try_another_outbound_peer' =
         IF due THEN old /\ busy = {} ELSE m_try_another_outbound_peer
    /\ Goto("idle")
    /\ UNCHANGED <<m_node_states, connections, protection, merits, victim>>

PassStep ==
    \/ BeginPass
    \/ ChooseBlockRelay
    \/ DropBlockRelay
    \/ CountFullOutbound
    \/ ChooseFullOutbound
    \/ DropFullOutbound
    \/ \E due, old \in BOOLEAN : CheckForStaleTip(due, old)

PeerStep(p) ==
    \/ InitializeNode(p)
    \/ AddNode(p)
    \/ Verack(p)
    \/ ConnectionLost(p)
    \/ DisconnectNodes(p)
    \/ FinalizeNode(p)
    \/ \E fresh, useful, poor \in BOOLEAN :
         UpdatePeerStateForReceivedHeaders(p, fresh, useful, poor)
    \/ ProcessBlock(p)
    \/ BlockRequested(p)
    \/ RemoveBlockRequest(p)
    \/ TimePasses(p)
    \/ \E s \in Scores \cup {None} : Rate(p, s)

\* A connection keeps its type.
Next ==
    /\ PassStep \/ \E p \in Node : PeerStep(p)
    /\ UNCHANGED Full

Spec == Init /\ [][Next]_vars

\* The scheduler runs the pass again and again, and to its end.
FairSpec == Spec /\ WF_vars(PassStep /\ UNCHANGED Full)

-----------------------------------------------------------------------------
(* The shape of the state. *)
EvictionTypeOK ==
    /\ m_nodes \subseteq m_node_states \cup fDisconnect
    /\ m_node_states \cup fSuccessfullyConnected \cup fDisconnect \subseteq Node
    /\ busy \subseteq m_node_states
    /\ age \in [Node -> 0 .. 2]
    /\ m_last_block_announcement \in [Node -> 0 .. MaxTime]
    /\ m_last_block_time \in [Node -> 0 .. MaxTime]
    /\ score \in [Node -> Scores \cup {None}]
    /\ m_try_another_outbound_peer \in BOOLEAN
    /\ pc \in {"idle", "youngest", "drop_relay", "count", "collect", "drop_full", "stale"}
    /\ victim \in Node \cup {None}

(***************************************************************************)
(* m_outbound_peers_with_protect_from_disconnect, which FinalizeNode       *)
(* asserts never to be negative and to be zero once the last peer is gone, *)
(* is the number of peers with m_protect; those are full-relay peers that  *)
(* we still have, and at most four.                                        *)
(***************************************************************************)
ProtectCounted ==
    /\ m_protect \subseteq m_node_states \cap Full
    /\ m_outbound_peers_with_protect_from_disconnect = Cardinality(m_protect)
    /\ Cardinality(m_protect) <= MAX_OUTBOUND_PEERS_TO_PROTECT_FROM_DISCONNECT

(***************************************************************************)
(* m_network_conn_counts, which the net thread and the thread that opens   *)
(* connections update, counts the full-relay connections CConnman lists.   *)
(***************************************************************************)
ConnCountsAgree ==
    \A n \in Networks :
        m_network_conn_counts[n] = Cardinality({p \in m_nodes \cap Full : Network[p] = n})

\* The peers that a step of the pass marks for disconnection.
Dropped == IF pc \in {"drop_relay", "drop_full"} /\ pc' # pc THEN fDisconnect' \ fDisconnect ELSE {}

(***************************************************************************)
(* "Existing hard protections construct the candidate set before relay     *)
(* quality is consulted": however bad its score, a full-relay peer that    *)
(* the pass disconnects is not protected, is over the minimum age and has  *)
(* no block in flight at that moment, and CConnman lists it.               *)
(***************************************************************************)
HardProtectionsHold ==
    [][\A p \in Dropped \cap Full :
         p \notin m_protect /\ p \notin busy /\ age[p] = 2 /\ p \in m_nodes]_vars

(***************************************************************************)
(* The choice among full-relay peers.  With PoolSize scored candidates, a  *)
(* chosen peer has a score and fewer than PoolSize candidates have a lower *)
(* one, so a peer without enough evidence is never chosen; otherwise none  *)
(* of the candidates has announced a block less recently.                  *)
(***************************************************************************)
WorstChosen ==
    [][pc = "collect" /\ victim' # None =>
         LET scored == {p \in Candidates : score[p] # None}
             lower  == {p \in scored : score[p] < score[victim']}
         IN  IF Cardinality(scored) >= PoolSize
             THEN victim' \in scored /\ Cardinality(lower) < PoolSize
             ELSE \A p \in Candidates :
                    m_last_block_announcement[victim'] <= m_last_block_announcement[p]]_vars

(***************************************************************************)
(* "disconnect the youngest unless it's given us a block -- in which case, *)
(* compare with the second-youngest, and out of those two, disconnect the  *)
(* peer who least recently gave us a block": when the choice is made, at   *)
(* most one live block-relay-only peer is younger than the chosen one, the *)
(* peer that is kept gave us a block no less recently, and a chosen second *)
(* youngest has given us its last block strictly earlier.                  *)
(***************************************************************************)
YoungRelayChosen ==
    [][pc = "youngest" /\ victim' # None =>
         LET live    == {p \in BlockOnly : p \in NodeFullyConnected}
             younger == {p \in live : p > victim'}
         IN  /\ Cardinality(younger) <= 1
             /\ \A p \in younger : m_last_block_time[p] > m_last_block_time[victim']
             /\ younger = {} =>
                  \E p \in live \cup {None} :
                    /\ \A q \in live : q <= p \/ q = victim'
                    /\ m_last_block_time[victim'] <= LastBlockTime(p)]_vars

(***************************************************************************)
(* An extra full-relay peer does not stay while there is a candidate: the  *)
(* pass runs every EXTRA_PEER_CHECK_INTERVAL, and either the excess or the *)
(* candidates go, whatever other connections do in the meantime.           *)
(***************************************************************************)
ExtraPeerGoes ==
    ExtraFullOutbound /\ Candidates # {} ~> ~(ExtraFullOutbound /\ Candidates # {})
=============================================================================
