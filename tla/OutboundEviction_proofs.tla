---------------------- MODULE OutboundEviction_proofs ----------------------
(***************************************************************************)
(* The two counters that decide who may be evicted are right, and so is    *)
(* the choice of the peers to evict, for any number of connections,        *)
(* networks and protected peers, any scores and any limits.  The timeout   *)
(* after which SendMessages drops a peer that stalls the download          *)
(* (StallingTimeout) changes as if each change were atomic, for every      *)
(* default and maximum.                                                    *)
(***************************************************************************)
EXTENDS OutboundEviction, StallingTimeout, Basics_proofs

\* The full-relay connections of network n that CConnman lists.
FullOn(n) == {p \in m_nodes \cap Full : Network[p] = n}

\* The inductive invariant behind ProtectCounted and ConnCountsAgree.
CountersInv ==
    /\ m_nodes \subseteq Node
    /\ m_node_states \subseteq Node
    /\ ProtectCounted
    /\ m_network_conn_counts \in [Networks -> Int]
    /\ ConnCountsAgree

(***************************************************************************)
(* A set of NodeIds grows by one with a new member and shrinks by one when *)
(* it loses a member.                                                      *)
(***************************************************************************)
LEMMA CountLemma ==
    ASSUME NEW S \in SUBSET Node, NEW p
    PROVE  /\ IsFiniteSet(S) /\ Cardinality(S) \in Nat
           /\ p \notin S => Cardinality(S \cup {p}) = Cardinality(S) + 1
           /\ p \in S => Cardinality(S \ {p}) = Cardinality(S) - 1
<1>1. IsFiniteSet(S)
  BY EvictionAssumption, FS_Subset, Zenon
<1> QED BY <1>1, FS_CardinalityType, FS_AddElement, FS_RemoveElement

(***************************************************************************)
(* FinalizeNode and UpdatePeerStateForReceivedHeaders change the counter   *)
(* by as much as the set of protected peers.                               *)
(***************************************************************************)
LEMMA ProtectStep ==
    ASSUME CountersInv, NEW p \in Node,
           \/ FinalizeNode(p)
           \/ \E fresh, useful, poor \in BOOLEAN :
                UpdatePeerStateForReceivedHeaders(p, fresh, useful, poor),
           UNCHANGED Full
    PROVE  ProtectCounted'
<1> DEFINE count == m_outbound_peers_with_protect_from_disconnect
           limit == MAX_OUTBOUND_PEERS_TO_PROTECT_FROM_DISCONNECT
<1>1. /\ m_protect \in SUBSET Node /\ m_protect \subseteq m_node_states \cap Full
      /\ count = Cardinality(m_protect) /\ count <= limit /\ limit \in Nat
  BY EvictionAssumption DEF CountersInv, ProtectCounted
<1>2. /\ Cardinality(m_protect) \in Nat
      /\ p \notin m_protect => Cardinality(m_protect \cup {p}) = Cardinality(m_protect) + 1
      /\ p \in m_protect => Cardinality(m_protect \ {p}) = Cardinality(m_protect) - 1
  BY <1>1, CountLemma, Zenon
<1>3. CASE FinalizeNode(p)
  <2>1. CASE p \in m_protect
    BY <1>1, <1>2, <1>3, <2>1 DEF FinalizeNode, ProtectCounted
  <2>2. CASE p \notin m_protect
    <3>1. m_protect' = m_protect /\ count' = count
      BY <1>1, <1>2, <1>3, <2>2 DEF FinalizeNode
    <3> QED BY <1>1, <1>3, <2>2, <3>1 DEF FinalizeNode, ProtectCounted
  <2> QED BY <2>1, <2>2
<1>4. ASSUME NEW fresh \in BOOLEAN, NEW useful \in BOOLEAN, NEW poor \in BOOLEAN,
             UpdatePeerStateForReceivedHeaders(p, fresh, useful, poor)
      PROVE  ProtectCounted'
  <2>1. m_node_states' = m_node_states /\ p \in m_node_states
    BY <1>4 DEF UpdatePeerStateForReceivedHeaders
  <2>2. \/ m_protect' = m_protect /\ count' = count
        \/ /\ p \in Full /\ p \notin m_protect /\ count < limit
           /\ m_protect' = m_protect \cup {p} /\ count' = count + 1
    BY <1>1, <1>2, <1>4 DEF UpdatePeerStateForReceivedHeaders
  <2>3. CASE m_protect' = m_protect /\ count' = count
    BY <1>1, <2>1, <2>3 DEF ProtectCounted
  <2>4. CASE /\ p \in Full /\ p \notin m_protect /\ count < limit
             /\ m_protect' = m_protect \cup {p} /\ count' = count + 1
    <3>1. m_protect' \subseteq m_node_states' \cap Full
      BY <1>1, <2>1, <2>4
    <3>2. count' = Cardinality(m_protect') /\ Cardinality(m_protect') <= limit
      BY <1>1, <1>2, <2>4
    <3> QED BY <3>1, <3>2 DEF ProtectCounted
  <2> QED BY <2>2, <2>3, <2>4
<1> QED BY <1>3, <1>4

(***************************************************************************)
(* OpenNetworkConnection and DisconnectNodes change the count of one       *)
(* network by as much as m_nodes.                                          *)
(***************************************************************************)
LEMMA ConnCountStep ==
    ASSUME CountersInv, NEW p \in Node, AddNode(p) \/ DisconnectNodes(p), UNCHANGED Full
    PROVE  m_network_conn_counts' \in [Networks -> Int] /\ ConnCountsAgree'
<1>1. Network[p] \in Networks /\ m_network_conn_counts \in [Networks -> Int]
  BY DEF Networks, CountersInv
<1>2. m_network_conn_counts' \in [Networks -> Int]
  BY <1>1 DEF AddNode, DisconnectNodes
<1>3. ASSUME NEW n \in Networks PROVE m_network_conn_counts'[n] = Cardinality(FullOn(n)')
  <2>1. FullOn(n) \in SUBSET Node
    BY DEF FullOn, CountersInv
  <2>2. /\ Cardinality(FullOn(n)) \in Nat
        /\ p \notin FullOn(n) => Cardinality(FullOn(n) \cup {p}) = Cardinality(FullOn(n)) + 1
        /\ p \in FullOn(n) => Cardinality(FullOn(n) \ {p}) = Cardinality(FullOn(n)) - 1
    BY <2>1, CountLemma, Zenon
  <2>3. m_network_conn_counts[n] = Cardinality(FullOn(n))
    BY DEF CountersInv, ConnCountsAgree, FullOn
  <2>4. CASE p \in Full /\ Network[p] = n
    <3>1. CASE AddNode(p)
      <4>1. p \notin FullOn(n) /\ FullOn(n)' = FullOn(n) \cup {p}
        BY <2>4, <3>1 DEF AddNode, FullOn
      <4> QED BY <1>1, <2>2, <2>3, <2>4, <3>1, <4>1 DEF AddNode
    <3>2. CASE DisconnectNodes(p)
      <4>1. p \in FullOn(n) /\ FullOn(n)' = FullOn(n) \ {p}
        BY <2>4, <3>2 DEF DisconnectNodes, FullOn
      <4> QED BY <1>1, <2>2, <2>3, <2>4, <3>2, <4>1 DEF DisconnectNodes
    <3> QED BY <3>1, <3>2
  <2>5. CASE ~(p \in Full /\ Network[p] = n)
    <3>1. FullOn(n)' = FullOn(n)
      BY <2>5 DEF AddNode, DisconnectNodes, FullOn
    <3>2. m_network_conn_counts'[n] = m_network_conn_counts[n]
      BY <1>1, <2>5 DEF AddNode, DisconnectNodes
    <3> QED BY <2>3, <3>1, <3>2
  <2> QED BY <2>4, <2>5
<1> QED BY <1>2, <1>3 DEF ConnCountsAgree, FullOn

(***************************************************************************)
(* Both counters start at zero.                                            *)
(***************************************************************************)
THEOREM CountersInitInv == Init => CountersInv
<1> SUFFICES ASSUME Init PROVE CountersInv
  OBVIOUS
<1>1. Cardinality({}) = 0 /\ MAX_OUTBOUND_PEERS_TO_PROTECT_FROM_DISCONNECT \in Nat
  BY FS_EmptySet, EvictionAssumption
<1>2. \A n \in Networks : {p \in m_nodes \cap Full : Network[p] = n} = {}
  BY DEF Init
<1> QED BY <1>1, <1>2 DEF Init, CountersInv, ProtectCounted, ConnCountsAgree

(***************************************************************************)
(* Every step of a peer, of the net thread and of the pass preserves the   *)
(* invariant, wherever the pass stands.                                    *)
(***************************************************************************)
THEOREM CountersNextInv == CountersInv /\ [Next]_vars => CountersInv'
<1> SUFFICES ASSUME CountersInv, [Next]_vars PROVE CountersInv'
  OBVIOUS
<1> DEFINE Same == UNCHANGED <<Full, m_nodes, m_node_states, m_network_conn_counts, protection>>
<1>1. ASSUME Same PROVE CountersInv'
  BY <1>1 DEF CountersInv, ProtectCounted, ConnCountsAgree, protection
<1>0. UNCHANGED Full
  BY DEF Next, vars
<1>2. ASSUME UNCHANGED vars \/ PassStep PROVE Same
  BY <1>0, <1>2 DEF vars, connections, PassStep, BeginPass, ChooseBlockRelay, DropBlockRelay,
     CountFullOutbound, ChooseFullOutbound, DropFullOutbound, CheckForStaleTip
<1>3. ASSUME NEW p \in Node, PeerStep(p) PROVE CountersInv'
  <2>1. CASE InitializeNode(p)
    BY <1>0, <2>1 DEF InitializeNode, connections, protection, CountersInv, ProtectCounted,
       ConnCountsAgree
  <2>2. CASE AddNode(p) \/ DisconnectNodes(p)
    <3>1. /\ m_nodes' \subseteq Node /\ m_node_states' = m_node_states
          /\ UNCHANGED protection
      BY <2>2 DEF AddNode, DisconnectNodes, CountersInv
    <3>2. ProtectCounted'
      BY <1>0, <3>1 DEF CountersInv, ProtectCounted, protection
    <3> QED BY <1>0, <2>2, <3>1, <3>2, ConnCountStep DEF CountersInv
  <2>3. CASE \/ FinalizeNode(p)
             \/ \E fresh, useful, poor \in BOOLEAN :
                  UpdatePeerStateForReceivedHeaders(p, fresh, useful, poor)
    <3>1. UNCHANGED <<m_nodes, m_network_conn_counts>> /\ m_node_states' \subseteq m_node_states
      BY <2>3 DEF FinalizeNode, UpdatePeerStateForReceivedHeaders, connections
    <3>2. ConnCountsAgree'
      BY <1>0, <3>1 DEF CountersInv, ConnCountsAgree
    <3> QED BY <1>0, <2>3, <3>1, <3>2, ProtectStep DEF CountersInv
  <2>4. CASE \/ Verack(p) \/ ConnectionLost(p) \/ ProcessBlock(p) \/ BlockRequested(p)
             \/ RemoveBlockRequest(p) \/ TimePasses(p)
             \/ \E s \in Scores \cup {None} : Rate(p, s)
    <3>1. Same
      BY <1>0, <2>4 DEF Verack, ConnectionLost, ProcessBlock, BlockRequested, RemoveBlockRequest,
         TimePasses, Rate, connections
    <3> QED BY <1>1, <3>1
  <2> QED BY <1>3, <2>1, <2>2, <2>3, <2>4 DEF PeerStep
<1> QED BY <1>1, <1>2, <1>3 DEF Next

(***************************************************************************)
(* At every moment the counter of protected peers is their number, at most *)
(* four: the asserts of FinalizeNode about it cannot fail.                 *)
(***************************************************************************)
THEOREM ProtectAlwaysCounted == Spec => []ProtectCounted
<1>1. CountersInv => ProtectCounted
  BY DEF CountersInv
<1> QED BY <1>1, CountersInitInv, CountersNextInv, PTL DEF Spec

(***************************************************************************)
(* At every moment m_network_conn_counts has, for each network, the number *)
(* of its full-relay connections in m_nodes.                               *)
(***************************************************************************)
THEOREM ConnCountsAlwaysAgree == Spec => []ConnCountsAgree
<1>1. CountersInv => ConnCountsAgree
  BY DEF CountersInv
<1> QED BY <1>1, CountersInitInv, CountersNextInv, PTL DEF Spec

-----------------------------------------------------------------------------
(***************************************************************************)
(* What the pass remembers from the section in which it chose a peer: a    *)
(* block-relay-only peer stays one, nobody becomes protected while the     *)
(* pass holds cs_main, and the choice is forgotten once it is used.        *)
(***************************************************************************)
VictimInv ==
    /\ Full \subseteq Node
    /\ age \in [Node -> 0 .. 2]
    /\ m_last_block_announcement \in [Node -> Int]
    /\ m_last_block_time \in [Node -> Int]
    /\ score \in [Node -> Int]
    /\ pc = "drop_relay" => victim \in BlockOnly \cup {None}
    /\ pc = "drop_full" => victim \notin m_protect
    /\ pc \notin {"drop_relay", "drop_full"} => victim = None

EvictionInv == CountersInv /\ VictimInv

(***************************************************************************)
(* Youngest, on the connections of one kind.                               *)
(***************************************************************************)
LEMMA YoungestLemma ==
    ASSUME NEW S \in SUBSET Node
    PROVE  /\ S = {} => Youngest(S) = None
           /\ S # {} => Youngest(S) \in S /\ \A q \in S : q <= Youngest(S)
<1>1. S \in SUBSET Nat /\ IsFiniteSet(S)
  BY EvictionAssumption, CountLemma, Zenon
<1>2. CASE S # {}
  <2>1. \E p \in S : \A q \in S : q <= p
    BY <1>1, <1>2, GreatestExists
  <2> QED BY <1>2, <2>1 DEF Youngest
<1> QED BY <1>2 DEF Youngest

(***************************************************************************)
(* The scan of the block-relay-only connections returns one of them, or    *)
(* nothing.                                                                *)
(***************************************************************************)
LEMMA RelayVictimType ==
    ASSUME NEW S \in SUBSET Node
    PROVE  RelayVictim(S) \in S \cup {None}
<1>1. Youngest(S) \in S \cup {None}
  BY YoungestLemma
<1>2. Youngest(S \ {Youngest(S)}) \in S \cup {None}
  <2>1. S \ {Youngest(S)} \in SUBSET Node
    OBVIOUS
  <2> QED BY <2>1, YoungestLemma
<1> QED BY <1>1, <1>2 DEF RelayVictim

(***************************************************************************)
(* Either selection returns a candidate.                                   *)
(***************************************************************************)
LEMMA PeerToDisconnectType ==
    ASSUME NEW S PROVE PeerToDisconnect(S) \subseteq S
BY DEF PeerToDisconnect, Scored

(***************************************************************************)
(* A new announcement or block is given a time.                            *)
(***************************************************************************)
LEMMA NowLemma ==
    ASSUME NEW times, NEW t \in Now(times) PROVE t \in Int
BY EvictionAssumption DEF Now

(***************************************************************************)
(* The pass has chosen nobody at the start.                                *)
(***************************************************************************)
THEOREM VictimInitInv == Init => VictimInv
<1> SUFFICES ASSUME Init PROVE VictimInv
  OBVIOUS
<1>1. Full \subseteq Node
  BY EvictionAssumption DEF Init
<1>2. 0 \in Int /\ None \in Int /\ 0 \in 0 .. 2
  BY DEF None
<1> QED BY <1>1, <1>2 DEF Init, VictimInv

(***************************************************************************)
(* Every step of a peer, of the net thread and of the pass preserves the   *)
(* invariant.                                                              *)
(***************************************************************************)
THEOREM VictimNextInv == EvictionInv /\ [Next]_vars => VictimInv'
<1> SUFFICES ASSUME EvictionInv, [Next]_vars PROVE VictimInv'
  OBVIOUS
<1> USE DEF EvictionInv
<1>0. UNCHANGED Full /\ UNCHANGED BlockOnly
  BY DEF Next, vars, BlockOnly
<1>1. ASSUME UNCHANGED merits PROVE
         /\ Full' \subseteq Node /\ age' \in [Node -> 0 .. 2]
         /\ m_last_block_announcement' \in [Node -> Int]
         /\ m_last_block_time' \in [Node -> Int] /\ score' \in [Node -> Int]
  BY <1>0, <1>1 DEF merits, VictimInv
<1>2. CASE UNCHANGED <<merits, pc, victim, m_protect>>
  BY <1>0, <1>1, <1>2 DEF VictimInv
<1>3. ASSUME PassStep PROVE VictimInv'
  <2>1. UNCHANGED merits
    BY <1>3 DEF PassStep, BeginPass, ChooseBlockRelay, DropBlockRelay, CountFullOutbound,
       ChooseFullOutbound, DropFullOutbound, CheckForStaleTip
  <2>2. CASE ChooseBlockRelay
    <3>1. LiveOf(BlockOnly) \in SUBSET Node
      BY DEF LiveOf, BlockOnly
    <3>2. victim' \in BlockOnly \cup {None} /\ pc' = "drop_relay"
      BY <2>2, <3>1, RelayVictimType DEF ChooseBlockRelay, Goto, LiveOf
    <3> QED BY <1>0, <1>1, <2>1, <3>2 DEF VictimInv
  <2>3. CASE ChooseFullOutbound
    <3>1. \/ pc' = "stale" /\ victim' = None
          \/ pc' = "drop_full" /\ victim' \in Candidates
      BY <2>3, PeerToDisconnectType DEF ChooseFullOutbound, Goto, VictimInv
    <3>2. UNCHANGED m_protect
      BY <2>3 DEF ChooseFullOutbound, protection
    <3> QED BY <1>1, <2>1, <3>1, <3>2 DEF VictimInv, Candidates
  <2>4. CASE ~ (ChooseBlockRelay \/ ChooseFullOutbound)
    <3>1. pc' \in {"youngest", "count", "collect", "stale", "idle"} /\ victim' = None
      BY <1>3, <2>4 DEF PassStep, BeginPass, DropBlockRelay, CountFullOutbound,
         DropFullOutbound, CheckForStaleTip, Goto, Idle, VictimInv
    <3> QED BY <1>1, <2>1, <3>1 DEF VictimInv
  <2> QED BY <2>2, <2>3, <2>4
<1>4. ASSUME NEW p \in Node, PeerStep(p) PROVE VictimInv'
  <2>1. UNCHANGED pass
    BY <1>4 DEF PeerStep, InitializeNode, AddNode, Verack, ConnectionLost, DisconnectNodes,
       FinalizeNode, UpdatePeerStateForReceivedHeaders, ProcessBlock, BlockRequested,
       RemoveBlockRequest, TimePasses, Rate
  <2>2. UNCHANGED m_protect \/ pc = "idle"
    BY <1>4, Zenon DEF PeerStep, InitializeNode, AddNode, Verack, ConnectionLost, DisconnectNodes,
       FinalizeNode, UpdatePeerStateForReceivedHeaders, ProcessBlock, BlockRequested,
       RemoveBlockRequest, TimePasses, Rate, protection, Idle
  <2>3. /\ pc' = "drop_relay" => victim' \in BlockOnly' \cup {None}
        /\ pc' = "drop_full" => victim' \notin m_protect'
        /\ pc' \notin {"drop_relay", "drop_full"} => victim' = None
    BY <1>0, <2>1, <2>2 DEF pass, VictimInv
  <2>4. age' \in [Node -> 0 .. 2]
    <3>1. UNCHANGED age \/ TimePasses(p)
      BY <1>4, Zenon DEF PeerStep, InitializeNode, AddNode, Verack, ConnectionLost, DisconnectNodes,
         FinalizeNode, UpdatePeerStateForReceivedHeaders, ProcessBlock, BlockRequested,
         RemoveBlockRequest, Rate, merits
    <3> QED BY <3>1 DEF TimePasses, VictimInv
  <2>5. m_last_block_announcement' \in [Node -> Int]
    <3>1. \/ UNCHANGED m_last_block_announcement
          \/ \E t \in Now(m_last_block_announcement) :
                m_last_block_announcement' = [m_last_block_announcement EXCEPT ![p] = t]
      BY <1>4 DEF PeerStep, InitializeNode, AddNode, Verack, ConnectionLost, DisconnectNodes,
         FinalizeNode, UpdatePeerStateForReceivedHeaders, ProcessBlock, BlockRequested,
         RemoveBlockRequest, TimePasses, Rate, merits
    <3> QED BY <3>1, NowLemma DEF VictimInv
  <2>6. m_last_block_time' \in [Node -> Int]
    <3>1. \/ UNCHANGED m_last_block_time
          \/ \E t \in Now(m_last_block_time) :
                m_last_block_time' = [m_last_block_time EXCEPT ![p] = t]
      BY <1>4 DEF PeerStep, InitializeNode, AddNode, Verack, ConnectionLost, DisconnectNodes,
         FinalizeNode, UpdatePeerStateForReceivedHeaders, ProcessBlock, BlockRequested,
         RemoveBlockRequest, TimePasses, Rate, merits
    <3> QED BY <3>1, NowLemma DEF VictimInv
  <2>7. score' \in [Node -> Int]
    <3>1. \/ UNCHANGED score
          \/ \E s \in Scores \cup {None} : score' = [score EXCEPT ![p] = s]
      BY <1>4 DEF PeerStep, InitializeNode, AddNode, Verack, ConnectionLost, DisconnectNodes,
         FinalizeNode, UpdatePeerStateForReceivedHeaders, ProcessBlock, BlockRequested,
         RemoveBlockRequest, TimePasses, Rate, merits
    <3>2. Scores \cup {None} \subseteq Int
      BY EvictionAssumption DEF None
    <3> QED BY <3>1, <3>2 DEF VictimInv
  <2> QED BY <1>0, <2>3, <2>4, <2>5, <2>6, <2>7 DEF VictimInv
<1> QED BY <1>2, <1>3, <1>4 DEF Next, vars, pass, protection

(***************************************************************************)
(* The invariant holds in every behaviour.                                 *)
(***************************************************************************)
THEOREM EvictionInvariant == Spec => []EvictionInv
<1>1. EvictionInv /\ [Next]_vars => EvictionInv'
  BY CountersNextInv, VictimNextInv DEF EvictionInv
<1>2. Init => EvictionInv
  BY CountersInitInv, VictimInitInv DEF EvictionInv
<1> QED BY <1>1, <1>2, PTL DEF Spec

(***************************************************************************)
(* Only the two sections that disconnect a peer leave their place by       *)
(* marking one.                                                            *)
(***************************************************************************)
LEMMA DroppedLemma ==
    ASSUME [Next]_vars, NEW p \in Dropped
    PROVE  \/ DropBlockRelay /\ p = victim
           \/ DropFullOutbound /\ p = victim /\ p \in NodeFullyConnected /\ Settled(p)
<1>1. pc \in {"drop_relay", "drop_full"} /\ pc' # pc /\ p \in fDisconnect' \ fDisconnect
  BY DEF Dropped
<1>2. ASSUME NEW q \in Node, PeerStep(q) PROVE FALSE
  <2>1. UNCHANGED pass
    BY <1>2, Zenon DEF PeerStep, InitializeNode, AddNode, Verack, ConnectionLost, DisconnectNodes,
       FinalizeNode, UpdatePeerStateForReceivedHeaders, ProcessBlock, BlockRequested,
       RemoveBlockRequest, TimePasses, Rate
  <2> QED BY <1>1, <2>1 DEF pass
<1>3. PassStep
  BY <1>1, <1>2 DEF Next, vars, pass
<1>4. DropBlockRelay \/ DropFullOutbound
  BY <1>1, <1>3 DEF PassStep, BeginPass, ChooseBlockRelay, CountFullOutbound,
     ChooseFullOutbound, CheckForStaleTip, Idle
<1>5. CASE DropBlockRelay
  BY <1>1, <1>5 DEF DropBlockRelay
<1>6. CASE DropFullOutbound
  BY <1>1, <1>6 DEF DropFullOutbound
<1> QED BY <1>4, <1>5, <1>6

(***************************************************************************)
(* However bad its score, a full-relay peer that the pass disconnects is   *)
(* not protected, over the minimum age, without a block in flight and      *)
(* listed by CConnman, whatever happened since it was chosen.              *)
(***************************************************************************)
THEOREM HardProtectionsAlwaysHold == Spec => HardProtectionsHold
<1> DEFINE Held == \A p \in Dropped \cap Full :
                      p \notin m_protect /\ p \notin busy /\ age[p] = 2 /\ p \in m_nodes
<1>1. EvictionInv /\ [Next]_vars => [Held]_vars
  <2> SUFFICES ASSUME EvictionInv, [Next]_vars, NEW p \in Dropped \cap Full
               PROVE  p \notin m_protect /\ p \notin busy /\ age[p] = 2 /\ p \in m_nodes
    OBVIOUS
  <2>1. CASE DropBlockRelay /\ p = victim
    <3>1. p \in BlockOnly \cup {None} /\ p \in Node
      BY <2>1 DEF DropBlockRelay, EvictionInv, VictimInv
    <3>2. None \notin Node
      BY EvictionAssumption DEF None
    <3> QED BY <3>1, <3>2 DEF BlockOnly
  <2>2. CASE DropFullOutbound /\ p = victim /\ p \in NodeFullyConnected /\ Settled(p)
    <3>1. p \notin m_protect
      BY <2>2 DEF DropFullOutbound, EvictionInv, VictimInv
    <3>2. p \in Node /\ age \in [Node -> 0 .. 2]
      BY DEF EvictionInv, VictimInv
    <3>3. age[p] = 2
      BY <2>2, <3>2 DEF Settled
    <3> QED BY <2>2, <3>1, <3>3 DEF Settled, NodeFullyConnected
  <2> QED BY <2>1, <2>2, DroppedLemma
<1> QED BY <1>1, EvictionInvariant, PTL DEF Spec, HardProtectionsHold

(***************************************************************************)
(* The victim changes only in the sections that choose or drop one.        *)
(***************************************************************************)
LEMMA ChosenLemma ==
    ASSUME Next, pc \in {"youngest", "collect"}, victim' # victim
    PROVE  ChooseBlockRelay \/ ChooseFullOutbound
<1>1. ASSUME NEW q \in Node, PeerStep(q) PROVE FALSE
  <2>1. UNCHANGED pass
    BY <1>1, Zenon DEF PeerStep, InitializeNode, AddNode, Verack, ConnectionLost, DisconnectNodes,
       FinalizeNode, UpdatePeerStateForReceivedHeaders, ProcessBlock, BlockRequested,
       RemoveBlockRequest, TimePasses, Rate
  <2> QED BY <2>1 DEF pass
<1> QED BY <1>1 DEF Next, PassStep, BeginPass, DropBlockRelay, CountFullOutbound,
        DropFullOutbound, CheckForStaleTip, Idle

(***************************************************************************)
(* Whatever the scores: with enough scored candidates one of the PoolSize  *)
(* worst is chosen, and otherwise one that announced least recently.       *)
(***************************************************************************)
THEOREM WorstAlwaysChosen == Spec => WorstChosen
<1> DEFINE scored == {p \in Candidates : score[p] # None}
           lower == {p \in scored : score[p] < score[victim']}
           Worst == pc = "collect" /\ victim' # None =>
                      IF Cardinality(scored) >= PoolSize
                      THEN victim' \in scored /\ Cardinality(lower) < PoolSize
                      ELSE \A p \in Candidates :
                             m_last_block_announcement[victim'] <= m_last_block_announcement[p]
<1>1. EvictionInv /\ [Next]_vars => [Worst]_vars
  <2> SUFFICES ASSUME EvictionInv, Next, pc = "collect", victim' # None
               PROVE  IF Cardinality(scored) >= PoolSize
                      THEN victim' \in scored /\ Cardinality(lower) < PoolSize
                      ELSE \A p \in Candidates :
                             m_last_block_announcement[victim'] <= m_last_block_announcement[p]
    OBVIOUS
  <2>1. victim = None
    BY DEF EvictionInv, VictimInv
  <2>2. victim' \in PeerToDisconnect(Candidates)
    BY <2>1, ChosenLemma DEF ChooseBlockRelay, ChooseFullOutbound
  <2>3. Scored(Candidates) = scored
    BY DEF Scored
  <2>4. Candidates \subseteq Node
    BY DEF Candidates, LiveOf, EvictionInv, VictimInv
  <2>5. CASE Cardinality(scored) >= PoolSize
    <3> DEFINE before == {q \in scored : ScoreBefore(q, victim')}
    <3>1. victim' \in scored /\ Cardinality(before) < PoolSize
      BY <2>2, <2>3, <2>5 DEF PeerToDisconnect
    <3>2. lower \subseteq before /\ before \in SUBSET Node /\ lower \in SUBSET Node
      BY <2>4 DEF ScoreBefore
    <3> HIDE DEF lower, before
    <3>3. /\ IsFiniteSet(before) /\ Cardinality(before) \in Nat /\ Cardinality(lower) \in Nat
      BY <3>2, CountLemma, Zenon
    <3>4. Cardinality(lower) <= Cardinality(before)
      BY <3>2, <3>3, FS_Subset
    <3>5. Cardinality(lower) < PoolSize
      BY <3>1, <3>3, <3>4, EvictionAssumption
    <3> QED BY <2>5, <3>1, <3>5
  <2>6. CASE ~ (Cardinality(scored) >= PoolSize)
    <3>1. victim' \in Candidates /\ \A q \in Candidates \ {victim'} : LegacyBefore(victim', q)
      BY <2>2, <2>3, <2>6 DEF PeerToDisconnect
    <3>2. \A p \in Candidates : m_last_block_announcement[p] \in Int
      BY <2>4 DEF EvictionInv, VictimInv
    <3>3. \A p \in Candidates :
             m_last_block_announcement[victim'] <= m_last_block_announcement[p]
      BY <3>1, <3>2 DEF LegacyBefore
    <3> QED BY <2>6, <3>3
  <2> QED BY <2>5, <2>6
<1> QED BY <1>1, EvictionInvariant, PTL DEF Spec, WorstChosen

(***************************************************************************)
(* The block-relay-only peer to disconnect is the youngest, or the second  *)
(* youngest if it least recently gave us a block.                          *)
(***************************************************************************)
THEOREM YoungRelayAlwaysChosen == Spec => YoungRelayChosen
<1> DEFINE live == {p \in BlockOnly : p \in NodeFullyConnected}
           younger == {p \in live : p > victim'}
           Least == \E p \in live \cup {None} :
                      /\ \A q \in live : q <= p \/ q = victim'
                      /\ m_last_block_time[victim'] <= LastBlockTime(p)
           Young == pc = "youngest" /\ victim' # None =>
                      /\ Cardinality(younger) <= 1
                      /\ \A p \in younger : m_last_block_time[p] > m_last_block_time[victim']
                      /\ younger = {} => Least
<1>1. EvictionInv /\ [Next]_vars => [Young]_vars
  <2> SUFFICES ASSUME EvictionInv, Next, pc = "youngest", victim' # None
               PROVE  /\ Cardinality(younger) <= 1
                      /\ \A p \in younger : m_last_block_time[p] > m_last_block_time[victim']
                      /\ younger = {} => Least
    OBVIOUS
  <2> DEFINE y == Youngest(live)
             n == Youngest(live \ {y})
  <2>1. victim = None
    BY DEF EvictionInv, VictimInv
  <2>2. victim' = RelayVictim(LiveOf(BlockOnly))
    BY <2>1, ChosenLemma DEF ChooseBlockRelay, ChooseFullOutbound
  <2>3. LiveOf(BlockOnly) = live
    BY DEF LiveOf
  <2>4. victim' = IF LastBlockTime(y) > LastBlockTime(n) THEN n ELSE y
    BY <2>2, <2>3 DEF RelayVictim
  <2>5. live \in SUBSET Node /\ live \ {y} \in SUBSET Node
    BY DEF BlockOnly
  <2>6. Node \subseteq Nat /\ None \notin Node /\ m_last_block_time \in [Node -> Int]
    BY EvictionAssumption DEF None, EvictionInv, VictimInv
  <2> HIDE DEF live
  <2>7. /\ live = {} => y = None
        /\ live # {} => y \in live /\ \A q \in live : q <= y
    BY <2>5, YoungestLemma
  <2>8. /\ live \ {y} = {} => n = None
        /\ live \ {y} # {} => n \in live \ {y} /\ \A q \in live \ {y} : q <= n
    BY <2>5, YoungestLemma
  <2> HIDE DEF y, n
  <2>9. CASE LastBlockTime(y) > LastBlockTime(n)
    <3>1. victim' = n /\ n \in live \ {y} /\ \A q \in live \ {y} : q <= n
      BY <2>4, <2>8, <2>9
    <3>2. y \in live /\ n <= y /\ n # y /\ y \in Nat /\ n \in Nat
      BY <2>5, <2>6, <2>7, <3>1, Zenon
    <3>3. younger = {y}
      <4>1. \A p \in live : p \in Nat
        BY <2>5, <2>6
      <4>2. \A p \in live : p > n <=> p = y
        BY <3>1, <3>2, <4>1
      <4> QED BY <3>1, <3>2, <4>2, Zenon
    <3>4. Cardinality({y}) = 1
      BY FS_Singleton
    <3>5. m_last_block_time[y] > m_last_block_time[n]
      BY <2>5, <2>6, <2>9, <3>1, <3>2 DEF LastBlockTime
    <3> HIDE DEF younger, Least
    <3> QED BY <3>1, <3>3, <3>4, <3>5
  <2>10. CASE ~ (LastBlockTime(y) > LastBlockTime(n))
    <3>1. victim' = y /\ y # None
      BY <2>4, <2>10
    <3>2. y \in live /\ \A q \in live : q <= y
      BY <2>7, <3>1
    <3>3. younger = {}
      <4>1. \A p \in live : p \in Nat
        BY <2>5, <2>6
      <4> QED BY <3>1, <3>2, <4>1
    <3>4. n \in live \cup {None} /\ \A q \in live : q <= n \/ q = y
      BY <2>8
    <3>5. LastBlockTime(n) \in Int /\ LastBlockTime(y) = m_last_block_time[y]
          /\ m_last_block_time[y] \in Int
      BY <2>5, <2>6, <3>1, <3>2, <3>4 DEF LastBlockTime
    <3>6. m_last_block_time[y] <= LastBlockTime(n)
      BY <2>10, <3>5
    <3>7. Least
      BY <3>1, <3>4, <3>6
    <3>8. Cardinality({}) = 0
      BY FS_EmptySet
    <3> HIDE DEF younger, Least
    <3> QED BY <3>3, <3>7, <3>8
  <2> QED BY <2>9, <2>10
<1> QED BY <1>1, EvictionInvariant, PTL DEF Spec, YoungRelayChosen

----------------------------------------------------------------------------
(***************************************************************************)
(* A compare-exchange of what was loaded is a doubling or a decay of the   *)
(* current value, or changes nothing: it succeeds only if the value loaded *)
(* is still the current one.                                               *)
(***************************************************************************)
LEMMA TimeoutStep ==
    [TimeoutNext]_timeoutVars => [Backoff!Next]_m_block_stalling_timeout
<1> SUFFICES ASSUME [TimeoutNext]_timeoutVars
             PROVE  [Backoff!Next]_m_block_stalling_timeout
  OBVIOUS
<1>1. CASE SendMessagesCheck
  BY <1>1 DEF SendMessagesCheck, CompareExchange, Backoff!Next
<1>2. CASE BlockConnectedUpdate
  BY <1>2 DEF BlockConnectedUpdate, CompareExchange, Backoff!Next
<1>3. CASE UNCHANGED m_block_stalling_timeout
  BY <1>3
<1> QED
  BY <1>1, <1>2, <1>3
  DEF TimeoutNext, timeoutVars, StallStarts, StallEnds, StallLasts, SendMessagesLoad, BlockConnectedLoad

(***************************************************************************)
(* However the loads and exchanges of SendMessages and BlockConnected      *)
(* interleave, the timeout behaves as if each change were atomic.          *)
(***************************************************************************)
THEOREM TimeoutImplementsBackoff == TimeoutSpec => BackoffSpec
<1>1. TimeoutInit => Backoff!Init
  BY DEF TimeoutInit, Backoff!Init
<1> QED
  BY <1>1, TimeoutStep, PTL DEF TimeoutSpec, BackoffSpec, Backoff!Spec

(***************************************************************************)
(* The inductive form of TimeoutInRange adds that it is an integer.        *)
(***************************************************************************)
RangeInv == m_block_stalling_timeout \in Nat /\ TimeoutInRange

(***************************************************************************)
(* Doubling and decaying stay between the default and the maximum.         *)
(***************************************************************************)
LEMMA StaysInRange ==
    ASSUME NEW t \in Nat,
           t >= BLOCK_STALLING_TIMEOUT_DEFAULT, t <= BLOCK_STALLING_TIMEOUT_MAX
    PROVE  \A new \in {Backoff!Doubled(t), Backoff!Decayed(t)} :
               /\ new \in Nat
               /\ new >= BLOCK_STALLING_TIMEOUT_DEFAULT
               /\ new <= BLOCK_STALLING_TIMEOUT_MAX
<1> USE TimeoutAssumption
<1>1. (85 * t) \div 100 \in Nat /\ (85 * t) \div 100 <= t
  OBVIOUS
<1> QED
  BY <1>1 DEF Backoff!Doubled, Backoff!Decayed

(***************************************************************************)
(* The Assume of BlockConnected holds, and the timeout never exceeds its   *)
(* maximum.                                                                *)
(***************************************************************************)
THEOREM TimeoutAlwaysInRange == TimeoutSpec => []TimeoutInRange
<1>1. TimeoutInit => RangeInv
  BY TimeoutAssumption DEF TimeoutInit, RangeInv, TimeoutInRange
<1>2. RangeInv /\ [TimeoutNext]_timeoutVars => RangeInv'
  <2> SUFFICES ASSUME RangeInv, [TimeoutNext]_timeoutVars PROVE RangeInv'
    OBVIOUS
  <2>1. [Backoff!Next]_m_block_stalling_timeout
    BY TimeoutStep
  <2>2. CASE UNCHANGED m_block_stalling_timeout
    BY <2>2 DEF RangeInv, TimeoutInRange
  <2>3. CASE Backoff!Next
    BY <2>3, StaysInRange DEF RangeInv, TimeoutInRange, Backoff!Next
  <2> QED
    BY <2>1, <2>2, <2>3
<1>3. RangeInv => TimeoutInRange
  BY DEF RangeInv
<1> QED
  BY <1>1, <1>2, <1>3, PTL DEF TimeoutSpec
==============================================================================
