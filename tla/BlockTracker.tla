---------------------------- MODULE BlockTracker ----------------------------
(***************************************************************************)
(* The bookkeeping of outstanding block requests kept by PeerManagerImpl   *)
(* (net_processing.cpp): the multimap mapBlocksInFlight from a block to    *)
(* the peers it is requested from, the list vBlocksInFlight of every peer, *)
(* the counter m_peers_downloading_from and the two stall flags of a peer. *)
(*                                                                         *)
(* Each action is the whole effect that one critical section of cs_main    *)
(* has on this state.  The message handlers that take these steps are in   *)
(* module BlockRelay.                                                      *)
(***************************************************************************)
EXTENDS Integers, Sequences, FiniteSets, Functions, Queues

CONSTANTS
    Node,        \* NodeIds; an id is never given to a second connection
    Hash,        \* block hashes
    MAX_CMPCTBLOCKS_INFLIGHT_PER_BLOCK,
    MAX_BLOCKS_IN_TRANSIT_PER_PEER,
    FetchTargets, \* the NodeIds that getblockfrompeer is called with
    RpcThreads   \* calls that can run at a time (-rpcthreads)

ASSUME LimitAssumption ==
    /\ MAX_CMPCTBLOCKS_INFLIGHT_PER_BLOCK \in Nat \ {0}
    /\ MAX_BLOCKS_IN_TRANSIT_PER_PEER \in Nat \ {0}
    /\ RpcThreads \in Nat

ASSUME FetchAssumption == FetchTargets \subseteq Node

ASSUME HashAssumption == IsFiniteSet(Hash)

VARIABLES
    m_node_states,            \* ids with a CNodeState
    m_peer_map,               \* ids with a Peer
    finalized,                \* ids whose connection has been deleted
    mapBlocksInFlight,        \* block -> peers it is requested from, in order
    vBlocksInFlight,          \* peer -> blocks requested from it
    m_peers_downloading_from, \* number of peers with outstanding requests
    m_stalling_since,         \* peer -> is the stall timer running?
    m_quality_stall_recorded, \* peer -> was this stall counted already?
    fetch,                    \* getblockfrompeer calls <<peer, block>> between
                              \* their look-up of the peer and their lock of
                              \* cs_main
    aborted                   \* an assert() has failed

requestVars == <<mapBlocksInFlight, vBlocksInFlight, m_peers_downloading_from,
                 m_stalling_since, m_quality_stall_recorded>>
lifeVars == <<m_node_states, m_peer_map, finalized>>
trackerVars == <<requestVars, lifeVars, fetch, aborted>>

(***************************************************************************)
(* Where the requests stand.                                               *)
(***************************************************************************)
RequestedFrom(h) == Range(mapBlocksInFlight[h])

IsBlockRequested(h) == mapBlocksInFlight[h] # <<>>

DownloadingPeers == {p \in Node : vBlocksInFlight[p] # {}}

----------------------------------------------------------------------------
TrackerInit ==
    /\ m_node_states = {}
    /\ m_peer_map = {}
    /\ finalized = {}
    /\ mapBlocksInFlight = [h \in Hash |-> <<>>]
    /\ vBlocksInFlight = [p \in Node |-> {}]
    /\ m_peers_downloading_from = 0
    /\ m_stalling_since = [p \in Node |-> FALSE]
    /\ m_quality_stall_recorded = [p \in Node |-> FALSE]
    /\ fetch = {}
    /\ aborted = FALSE

(***************************************************************************)
(* InitializeNode runs on the connection thread: the CNodeState appears    *)
(* under cs_main first, the Peer under m_peer_mutex afterwards.            *)
(***************************************************************************)
InitializeNodeState(p) ==
    /\ p \notin m_node_states \cup finalized
    /\ m_node_states' = m_node_states \cup {p}
    /\ UNCHANGED <<requestVars, m_peer_map, finalized, fetch, aborted>>

InitializePeer(p) ==
    /\ p \in m_node_states \ m_peer_map
    /\ m_peer_map' = m_peer_map \cup {p}
    /\ UNCHANGED <<requestVars, m_node_states, finalized, fetch, aborted>>

(***************************************************************************)
(* FinalizeNode erases the entries of mapBlocksInFlight that the peer's    *)
(* own list names, then the peer.  Its asserts are checked on the result.  *)
(***************************************************************************)
\* Faulty: the checks of the last peer's end are made whenever a peer ends.
AssertsOutsideIf(states, inflight, downloading) ==
    downloading = 0 /\ \A h \in Hash : inflight[h] = <<>>

FinalizeAsserts(states, inflight, downloading) ==
    /\ downloading >= 0
    /\ states = {} => /\ \A h \in Hash : inflight[h] = <<>>
                      /\ downloading = 0

FinalizeNode(p) ==
    /\ p \in m_peer_map
    /\ m_peer_map' = m_peer_map \ {p}
    /\ m_node_states' = m_node_states \ {p}
    /\ finalized' = finalized \cup {p}
    /\ mapBlocksInFlight' =
         [h \in Hash |-> IF h \in vBlocksInFlight[p]
                         THEN Without(mapBlocksInFlight[h], p)
                         ELSE mapBlocksInFlight[h]]
    /\ m_peers_downloading_from' =
         m_peers_downloading_from - IF vBlocksInFlight[p] # {} THEN 1 ELSE 0
    /\ vBlocksInFlight' = [vBlocksInFlight EXCEPT ![p] = {}]
    /\ m_stalling_since' = [m_stalling_since EXCEPT ![p] = FALSE]
    /\ m_quality_stall_recorded' = [m_quality_stall_recorded EXCEPT ![p] = FALSE]
    /\ aborted' = ~ /\ p \in m_node_states
                    /\ FinalizeAsserts(m_node_states', mapBlocksInFlight',
                                       m_peers_downloading_from')
    /\ UNCHANGED fetch

(***************************************************************************)
(* BlockRequested, for the blocks H that one handler requests from p in    *)
(* one critical section.  A block p is already asked for stays as it is.   *)
(***************************************************************************)
RequestEffect(p, H) ==
    /\ mapBlocksInFlight' =
         [h \in Hash |-> IF h \in H /\ p \notin RequestedFrom(h)
                         THEN Append(mapBlocksInFlight[h], p)
                         ELSE mapBlocksInFlight[h]]
    /\ vBlocksInFlight' = [vBlocksInFlight EXCEPT ![p] = @ \cup H]
    /\ m_peers_downloading_from' =
         m_peers_downloading_from +
            IF vBlocksInFlight[p] = {} /\ H # {} THEN 1 ELSE 0
    /\ UNCHANGED <<m_stalling_since, m_quality_stall_recorded>>

\* SendMessages and HeadersDirectFetchBlocks ask for blocks nobody is asked for.
RequestBlocks(p, H) ==
    /\ p \in m_node_states
    /\ H # {}
    /\ \A h \in H : ~ IsBlockRequested(h)
    /\ Cardinality(vBlocksInFlight[p]) + Cardinality(H) <= MAX_BLOCKS_IN_TRANSIT_PER_PEER
    /\ RequestEffect(p, H)
    /\ UNCHANGED <<lifeVars, fetch, aborted>>

\* A compact block is asked for in parallel from a few peers.
MayRequestCompact(p, h) ==
    \/ p \in RequestedFrom(h)
    \/ /\ Len(mapBlocksInFlight[h]) < MAX_CMPCTBLOCKS_INFLIGHT_PER_BLOCK
       /\ Cardinality(vBlocksInFlight[p]) < MAX_BLOCKS_IN_TRANSIT_PER_PEER

RequestCompactBlock(p, h) ==
    /\ p \in m_node_states
    /\ MayRequestCompact(p, h)
    /\ RequestEffect(p, {h})
    /\ UNCHANGED <<lifeVars, fetch, aborted>>

(***************************************************************************)
(* RemoveBlockRequest, for one peer and for all of them (nullopt).         *)
(***************************************************************************)
\* Faulty: the stall stays recorded when its timer is reset.
RemoveKeepsStall(p, h) ==
    /\ p \in RequestedFrom(h)
    /\ mapBlocksInFlight' = [mapBlocksInFlight EXCEPT ![h] = Without(@, p)]
    /\ vBlocksInFlight' = [vBlocksInFlight EXCEPT ![p] = @ \ {h}]
    /\ m_peers_downloading_from' =
         m_peers_downloading_from - IF vBlocksInFlight[p] \ {h} = {} THEN 1 ELSE 0
    /\ m_stalling_since' = [m_stalling_since EXCEPT ![p] = FALSE]
    /\ UNCHANGED <<m_quality_stall_recorded, lifeVars, fetch, aborted>>

RemoveBlockRequestFrom(p, h) ==
    /\ p \in RequestedFrom(h)
    /\ mapBlocksInFlight' = [mapBlocksInFlight EXCEPT ![h] = Without(@, p)]
    /\ vBlocksInFlight' = [vBlocksInFlight EXCEPT ![p] = @ \ {h}]
    /\ m_peers_downloading_from' =
         m_peers_downloading_from - IF vBlocksInFlight[p] \ {h} = {} THEN 1 ELSE 0
    /\ m_stalling_since' = [m_stalling_since EXCEPT ![p] = FALSE]
    /\ m_quality_stall_recorded' = [m_quality_stall_recorded EXCEPT ![p] = FALSE]
    /\ UNCHANGED <<lifeVars, fetch, aborted>>

\* m_peers_downloading_from drops by the peers that have nothing else to send.
Released(h) == {p \in RequestedFrom(h) : vBlocksInFlight[p] \ {h} = {}}

ListsWithout(h) ==
    [p \in Node |-> IF p \in RequestedFrom(h) THEN vBlocksInFlight[p] \ {h}
                    ELSE vBlocksInFlight[p]]

ClearedFor(h, flag) == [p \in Node |-> flag[p] /\ p \notin RequestedFrom(h)]

RemoveBlockRequests(h) ==
    /\ IsBlockRequested(h)
    /\ mapBlocksInFlight' = [mapBlocksInFlight EXCEPT ![h] = <<>>]
    /\ vBlocksInFlight' = ListsWithout(h)
    /\ m_peers_downloading_from' = m_peers_downloading_from - Cardinality(Released(h))
    /\ m_stalling_since' = ClearedFor(h, m_stalling_since)
    /\ m_quality_stall_recorded' = ClearedFor(h, m_quality_stall_recorded)
    /\ UNCHANGED <<lifeVars, fetch, aborted>>

(***************************************************************************)
(* A compact block that is asked for and, in the same critical section,    *)
(* given up: the request comes and goes, p's stall flags are cleared.      *)
(***************************************************************************)
RequestAndGiveUp(p, h) ==
    /\ p \in m_node_states
    /\ p \notin RequestedFrom(h)
    /\ MayRequestCompact(p, h)
    /\ m_stalling_since' = [m_stalling_since EXCEPT ![p] = FALSE]
    /\ m_quality_stall_recorded' = [m_quality_stall_recorded EXCEPT ![p] = FALSE]
    /\ UNCHANGED <<mapBlocksInFlight, vBlocksInFlight, m_peers_downloading_from>>
    /\ UNCHANGED <<lifeVars, fetch, aborted>>

(***************************************************************************)
(* SendMessages has found that p, the first peer asked for block h, holds  *)
(* up the download window.  A running timer is left alone.                 *)
(***************************************************************************)
StallStart(p, h) ==
    /\ IsBlockRequested(h)
    /\ p = Head(mapBlocksInFlight[h])
    /\ ~ m_stalling_since[p]
    /\ m_stalling_since' = [m_stalling_since EXCEPT ![p] = TRUE]
    /\ m_quality_stall_recorded' = [m_quality_stall_recorded EXCEPT ![p] = TRUE]
    /\ UNCHANGED <<mapBlocksInFlight, vBlocksInFlight, m_peers_downloading_from>>
    /\ UNCHANGED <<lifeVars, fetch, aborted>>

(***************************************************************************)
(* FetchBlock (getblockfrompeer) looks the peer up before it locks cs_main,*)
(* and then replaces all requests of the block by one to that peer.        *)
(***************************************************************************)
FetchBlockLookup(p, h) ==
    /\ p \in m_peer_map
    /\ Cardinality(fetch) < RpcThreads
    /\ fetch' = fetch \cup {<<p, h>>}
    /\ UNCHANGED <<requestVars, lifeVars, aborted>>

\* Faulty: the map entries of the other peers go, their lists stay.
FetchKeepsLists(p, h) ==
    /\ <<p, h>> \in fetch
    /\ fetch' = fetch \ {<<p, h>>}
    /\ p \in m_node_states
    /\ mapBlocksInFlight' = [mapBlocksInFlight EXCEPT ![h] = <<p>>]
    /\ vBlocksInFlight' = [vBlocksInFlight EXCEPT ![p] = @ \cup {h}]
    /\ m_peers_downloading_from' =
         m_peers_downloading_from + IF vBlocksInFlight[p] = {} THEN 1 ELSE 0
    /\ UNCHANGED <<m_stalling_since, m_quality_stall_recorded, lifeVars, aborted>>

FetchBlockRequest(p, h) ==
    /\ <<p, h>> \in fetch
    /\ fetch' = fetch \ {<<p, h>>}
    /\ p \in m_node_states
    /\ mapBlocksInFlight' = [mapBlocksInFlight EXCEPT ![h] = <<p>>]
    /\ vBlocksInFlight' = [ListsWithout(h) EXCEPT ![p] = @ \cup {h}]
    /\ m_peers_downloading_from' =
         m_peers_downloading_from - Cardinality(Released(h))
            + IF ListsWithout(h)[p] = {} THEN 1 ELSE 0
    /\ m_stalling_since' = ClearedFor(h, m_stalling_since)
    /\ m_quality_stall_recorded' = ClearedFor(h, m_quality_stall_recorded)
    /\ UNCHANGED <<lifeVars, aborted>>

\* The peer is gone: assert(state != nullptr) in BlockRequested fails.
FetchBlockAbort(p, h) ==
    /\ <<p, h>> \in fetch
    /\ p \notin m_node_states
    /\ aborted' = TRUE
    /\ UNCHANGED <<requestVars, lifeVars, fetch>>

TrackerNext ==
    /\ ~ aborted
    /\ \/ \E p \in Node :
             \/ InitializeNodeState(p)
             \/ InitializePeer(p)
             \/ FinalizeNode(p)
             \/ \E H \in SUBSET Hash : RequestBlocks(p, H)
       \/ \E p \in Node, h \in Hash :
             \/ RequestCompactBlock(p, h)
             \/ RequestAndGiveUp(p, h)
             \/ RemoveBlockRequestFrom(p, h)
             \/ StallStart(p, h)
       \/ \E h \in Hash : RemoveBlockRequests(h)
       \/ \E p \in FetchTargets, h \in Hash :
             \/ FetchBlockLookup(p, h)
             \/ FetchBlockRequest(p, h)
             \/ FetchBlockAbort(p, h)

TrackerSpec == TrackerInit /\ [][TrackerNext]_trackerVars

----------------------------------------------------------------------------
(* The shape of the state. *)
TrackerTypeOK ==
    /\ m_node_states \in SUBSET Node
    /\ m_peer_map \in SUBSET m_node_states
    /\ finalized \in SUBSET Node
    /\ mapBlocksInFlight \in [Hash -> Seq(Node)]
    /\ vBlocksInFlight \in [Node -> SUBSET Hash]
    /\ m_peers_downloading_from \in Int
    /\ m_stalling_since \in [Node -> BOOLEAN]
    /\ m_quality_stall_recorded \in [Node -> BOOLEAN]
    /\ fetch \in SUBSET (Node \X Hash)
    /\ aborted \in BOOLEAN

(***************************************************************************)
(* The two indexes of the outstanding requests are the same relation: a    *)
(* block is in a peer's list exactly when the multimap has an entry of     *)
(* that peer for it, one entry per peer, and only connected peers have     *)
(* any.  RemoveBlockRequest follows the iterator of the map entry into the *)
(* list and dereferences State(node_id); FinalizeNode walks the list to    *)
(* find the map entries.                                                   *)
(***************************************************************************)
RequestsAgree ==
    /\ \A p \in Node, h \in Hash :
          p \in RequestedFrom(h) <=> h \in vBlocksInFlight[p]
    /\ \A h \in Hash : IsInjective(mapBlocksInFlight[h])
    /\ \A p \in Node \ m_node_states : vBlocksInFlight[p] = {}

(***************************************************************************)
(* m_peers_downloading_from counts the peers with a non-empty list; the    *)
(* download timeout of SendMessages is scaled by it and FinalizeNode       *)
(* asserts it is never negative.                                           *)
(***************************************************************************)
DownloadingPeersCounted ==
    m_peers_downloading_from = Cardinality(DownloadingPeers)

(***************************************************************************)
(* No block is outstanding with more peers than the Assume in              *)
(* BlockRequested and RemoveBlockRequest allows.                           *)
(***************************************************************************)
RequestsPerBlockBounded ==
    \A h \in Hash : Len(mapBlocksInFlight[h]) <= MAX_CMPCTBLOCKS_INFLIGHT_PER_BLOCK

(***************************************************************************)
(* A stall has been counted against a peer exactly while its timer runs,   *)
(* so one continuous stall costs one observation and the next one costs    *)
(* another; and the timer only runs while the peer owes a block, so nobody *)
(* is disconnected for stalling with nothing outstanding.                  *)
(***************************************************************************)
StallFlagsAgree ==
    \A p \in Node :
        /\ m_quality_stall_recorded[p] = m_stalling_since[p]
        /\ m_stalling_since[p] => vBlocksInFlight[p] # {}

(***************************************************************************)
(* The asserts of FinalizeNode hold, those made after the last peer has    *)
(* gone included; when an assert fails, it is the one of BlockRequested,   *)
(* in a FetchBlock that looked its peer up before the peer was finalized.  *)
(***************************************************************************)
OnlyFetchAborts ==
    aborted => \E p \in FetchTargets \ m_node_states, h \in Hash : <<p, h>> \in fetch

(***************************************************************************)
(* MAX_BLOCKS_IN_TRANSIT_PER_PEER is "Number of blocks that can be         *)
(* requested at any given time from a single peer", compact blocks and     *)
(* direct fetches together; only getblockfrompeer goes past it.            *)
(***************************************************************************)
RequestsPerPeerBounded ==
    \A p \in Node \ FetchTargets :
        Cardinality(vBlocksInFlight[p]) <= MAX_BLOCKS_IN_TRANSIT_PER_PEER
============================================================================
