------------------------ MODULE BlockTracker_proofs ------------------------
(***************************************************************************)
(* Proofs about the request bookkeeping of module BlockTracker, for any    *)
(* number of peers and blocks and any limits.                              *)
(***************************************************************************)
EXTENDS BlockTracker, Basics_proofs

----------------------------------------------------------------------------
(***************************************************************************)
(* The inductive invariant: the safety invariants, and that every Peer has *)
(* a CNodeState and that there are finitely many of them.                  *)
(***************************************************************************)
TrackerInv ==
    /\ TrackerTypeOK
    /\ RequestsAgree
    /\ DownloadingPeersCounted
    /\ RequestsPerBlockBounded
    /\ StallFlagsAgree
    /\ IsFiniteSet(m_node_states)
    /\ m_peer_map \subseteq m_node_states
    /\ fetch \subseteq FetchTargets \X Hash

(***************************************************************************)
(* Only connected peers owe blocks, so finitely many do.                   *)
(***************************************************************************)
LEMMA DownloadingFinite ==
    ASSUME TrackerInv
    PROVE  IsFiniteSet(DownloadingPeers) /\ DownloadingPeers \subseteq m_node_states
<1>1. DownloadingPeers \subseteq m_node_states
  BY DEF TrackerInv, RequestsAgree, DownloadingPeers
<1> QED BY <1>1, FS_Subset DEF TrackerInv

(***************************************************************************)
(* The bookkeeping starts empty.                                           *)
(***************************************************************************)
THEOREM TrackerInitInv == TrackerInit => TrackerInv
<1> SUFFICES ASSUME TrackerInit PROVE TrackerInv
  OBVIOUS
<1> USE DEF TrackerInit
<1>0. <<>> \in Seq(Node)
  BY EmptySeqLemma
<1>1. TrackerTypeOK
  <2>1. mapBlocksInFlight \in [Hash -> Seq(Node)]
    BY <1>0
  <2>2. vBlocksInFlight \in [Node -> SUBSET Hash]
    OBVIOUS
  <2>3. m_stalling_since \in [Node -> BOOLEAN] /\ m_quality_stall_recorded \in [Node -> BOOLEAN]
    OBVIOUS
  <2>4. m_peers_downloading_from \in Int
    OBVIOUS
  <2> QED BY <2>1, <2>2, <2>3, <2>4, Zenon DEF TrackerTypeOK
<1>2. RequestsAgree
  BY EmptySeqLemma DEF RequestsAgree, RequestedFrom
<1>3. DownloadingPeers = {}
  BY DEF DownloadingPeers
<1>4. DownloadingPeersCounted
  BY <1>3, FS_EmptySet DEF DownloadingPeersCounted
<1>5. RequestsPerBlockBounded
  BY LimitAssumption, EmptySeqLemma DEF RequestsPerBlockBounded
<1>6. StallFlagsAgree
  BY DEF StallFlagsAgree
<1> QED BY <1>1, <1>2, <1>4, <1>5, <1>6, FS_EmptySet DEF TrackerInv

(***************************************************************************)
(* The part of the invariant that relates the request state to itself and  *)
(* the part about connections and calls; a step that leaves the second     *)
(* alone only has to show the first.                                       *)
(***************************************************************************)
RequestInv ==
    /\ mapBlocksInFlight \in [Hash -> Seq(Node)]
    /\ vBlocksInFlight \in [Node -> SUBSET Hash]
    /\ m_peers_downloading_from \in Int
    /\ m_stalling_since \in [Node -> BOOLEAN]
    /\ m_quality_stall_recorded \in [Node -> BOOLEAN]
    /\ RequestsAgree
    /\ DownloadingPeersCounted
    /\ RequestsPerBlockBounded
    /\ StallFlagsAgree

(***************************************************************************)
(* A step that leaves connections and calls alone preserves the invariant  *)
(* if it preserves the part of it that is about requests.                  *)
(***************************************************************************)
LEMMA RequestStep ==
    ASSUME TrackerInv, RequestInv', UNCHANGED <<lifeVars, aborted>>,
           fetch' \subseteq FetchTargets \X Hash
    PROVE  TrackerInv'
<1>1. fetch' \in SUBSET (Node \X Hash)
  BY FetchAssumption
<1> QED BY <1>1 DEF TrackerInv, TrackerTypeOK, RequestInv, lifeVars

(***************************************************************************)
(* That part follows from the whole.                                       *)
(***************************************************************************)
LEMMA InvRequest == TrackerInv => RequestInv
BY DEF TrackerInv, TrackerTypeOK, RequestInv

(***************************************************************************)
(* A new request keeps the two indexes, the counter and the limit.         *)
(***************************************************************************)
LEMMA RequestEffectInv ==
    ASSUME TrackerInv, NEW p \in m_node_states, NEW H \in SUBSET Hash, H # {},
           \A h \in H : p \in RequestedFrom(h)
                         \/ Len(mapBlocksInFlight[h]) < MAX_CMPCTBLOCKS_INFLIGHT_PER_BLOCK,
           RequestEffect(p, H), UNCHANGED <<lifeVars, fetch, aborted>>
    PROVE  TrackerInv'
<1> USE DEF RequestEffect
<1>0. RequestInv /\ p \in Node
  BY InvRequest DEF TrackerInv, TrackerTypeOK
<1>1. ASSUME NEW h \in Hash
      PROVE  /\ mapBlocksInFlight'[h] \in Seq(Node)
             /\ RequestedFrom(h)' = IF h \in H THEN RequestedFrom(h) \cup {p} ELSE RequestedFrom(h)
             /\ IsInjective(mapBlocksInFlight'[h])
             /\ Len(mapBlocksInFlight'[h]) <= MAX_CMPCTBLOCKS_INFLIGHT_PER_BLOCK
  <2>1. /\ mapBlocksInFlight[h] \in Seq(Node) /\ IsInjective(mapBlocksInFlight[h])
        /\ Len(mapBlocksInFlight[h]) \in Nat
        /\ Len(mapBlocksInFlight[h]) <= MAX_CMPCTBLOCKS_INFLIGHT_PER_BLOCK
    BY <1>0 DEF RequestInv, RequestsAgree, RequestsPerBlockBounded
  <2>2. CASE h \in H /\ p \notin RequestedFrom(h)
    <3>1. mapBlocksInFlight'[h] = Append(mapBlocksInFlight[h], p)
      BY <2>2
    <3>2. Len(mapBlocksInFlight[h]) < MAX_CMPCTBLOCKS_INFLIGHT_PER_BLOCK
      BY <2>2
    <3>3. p \notin Range(mapBlocksInFlight[h])
      BY <2>2 DEF RequestedFrom
    <3>4. /\ Append(mapBlocksInFlight[h], p) \in Seq(Node)
          /\ Range(Append(mapBlocksInFlight[h], p)) = Range(mapBlocksInFlight[h]) \cup {p}
          /\ IsInjective(Append(mapBlocksInFlight[h], p))
          /\ Len(Append(mapBlocksInFlight[h], p)) = Len(mapBlocksInFlight[h]) + 1
      BY <1>0, <2>1, <3>3, AppendLemma
    <3>5. Len(mapBlocksInFlight[h]) + 1 <= MAX_CMPCTBLOCKS_INFLIGHT_PER_BLOCK
      BY <2>1, <3>2, LimitAssumption
    <3> QED BY <2>2, <3>1, <3>4, <3>5 DEF RequestedFrom
  <2>3. CASE ~ (h \in H /\ p \notin RequestedFrom(h))
    <3>1. mapBlocksInFlight'[h] = mapBlocksInFlight[h]
      BY <2>3
    <3> QED BY <2>1, <2>3, <3>1, Zenon DEF RequestedFrom
  <2> QED BY <2>2, <2>3
<1>2. mapBlocksInFlight' \in [Hash -> Seq(Node)]
  BY <1>1
<1>3. /\ vBlocksInFlight' \in [Node -> SUBSET Hash]
      /\ vBlocksInFlight'[p] = vBlocksInFlight[p] \cup H
      /\ \A q \in Node : q # p => vBlocksInFlight'[q] = vBlocksInFlight[q]
  BY <1>0 DEF RequestInv
<1>4. RequestsAgree'
  <2>1. ASSUME NEW q \in Node, NEW h \in Hash
        PROVE  q \in RequestedFrom(h)' <=> h \in vBlocksInFlight'[q]
    <3>1. q \in RequestedFrom(h) <=> h \in vBlocksInFlight[q]
      BY <1>0 DEF RequestInv, RequestsAgree
    <3> QED BY <3>1, <1>1, <1>3
  <2>2. \A q \in Node \ m_node_states' : vBlocksInFlight'[q] = {}
    BY <1>0, <1>3 DEF RequestInv, RequestsAgree, lifeVars
  <2> QED BY <1>1, <2>1, <2>2 DEF RequestsAgree
<1>5. DownloadingPeersCounted' /\ m_peers_downloading_from' \in Int
  <2>1. DownloadingPeers' = DownloadingPeers \cup {p}
    BY <1>0, <1>3 DEF DownloadingPeers
  <2>2. p \in DownloadingPeers <=> vBlocksInFlight[p] # {}
    BY <1>0 DEF DownloadingPeers
  <2>3. IsFiniteSet(DownloadingPeers)
    BY DownloadingFinite
  <2>4. Cardinality(DownloadingPeers') =
          IF p \in DownloadingPeers THEN Cardinality(DownloadingPeers)
          ELSE Cardinality(DownloadingPeers) + 1
    BY <2>1, <2>3, FS_AddElement, Zenon
  <2>5. m_peers_downloading_from = Cardinality(DownloadingPeers) /\ m_peers_downloading_from \in Int
    BY <1>0 DEF RequestInv, DownloadingPeersCounted
  <2> QED BY <2>2, <2>4, <2>5 DEF DownloadingPeersCounted
<1>6. RequestsPerBlockBounded'
  BY <1>1 DEF RequestsPerBlockBounded
<1>7. StallFlagsAgree'
  BY <1>0, <1>3 DEF RequestInv, StallFlagsAgree
<1>8. m_stalling_since' \in [Node -> BOOLEAN] /\ m_quality_stall_recorded' \in [Node -> BOOLEAN]
  BY <1>0 DEF RequestInv
<1>9. RequestInv'
  BY <1>2, <1>3, <1>4, <1>5, <1>6, <1>7, <1>8 DEF RequestInv
<1> QED BY <1>9, RequestStep DEF TrackerInv

(***************************************************************************)
(* Dropping one peer's request of a block.                                 *)
(***************************************************************************)
LEMMA RemoveFromInv ==
    ASSUME TrackerInv, NEW p \in Node, NEW h \in Hash, RemoveBlockRequestFrom(p, h)
    PROVE  TrackerInv'
<1> USE DEF RemoveBlockRequestFrom
<1>0. RequestInv
  BY InvRequest
<1>1. /\ mapBlocksInFlight[h] \in Seq(Node) /\ IsInjective(mapBlocksInFlight[h])
      /\ Len(mapBlocksInFlight[h]) <= MAX_CMPCTBLOCKS_INFLIGHT_PER_BLOCK
      /\ Len(mapBlocksInFlight[h]) \in Nat
  BY <1>0 DEF RequestInv, RequestsAgree, RequestsPerBlockBounded
<1>2. /\ Without(mapBlocksInFlight[h], p) \in Seq(Node)
      /\ Range(Without(mapBlocksInFlight[h], p)) = Range(mapBlocksInFlight[h]) \ {p}
      /\ IsInjective(Without(mapBlocksInFlight[h], p))
      /\ Len(Without(mapBlocksInFlight[h], p)) <= Len(mapBlocksInFlight[h])
  BY <1>1, WithoutLemma
<1>3. /\ mapBlocksInFlight' \in [Hash -> Seq(Node)]
      /\ mapBlocksInFlight'[h] = Without(mapBlocksInFlight[h], p)
      /\ \A g \in Hash : g # h => mapBlocksInFlight'[g] = mapBlocksInFlight[g]
  BY <1>0, <1>2 DEF RequestInv
<1>4. /\ vBlocksInFlight' \in [Node -> SUBSET Hash]
      /\ vBlocksInFlight'[p] = vBlocksInFlight[p] \ {h}
      /\ \A q \in Node : q # p => vBlocksInFlight'[q] = vBlocksInFlight[q]
  BY <1>0 DEF RequestInv
<1>5. RequestsAgree'
  <2>1. ASSUME NEW q \in Node, NEW g \in Hash
        PROVE  q \in RequestedFrom(g)' <=> g \in vBlocksInFlight'[q]
    <3>1. q \in RequestedFrom(g) <=> g \in vBlocksInFlight[q]
      BY <1>0 DEF RequestInv, RequestsAgree
    <3>2. CASE g = h
      BY <3>1, <3>2, <1>2, <1>3, <1>4 DEF RequestedFrom
    <3>3. CASE g # h
      BY <3>1, <3>3, <1>3, <1>4 DEF RequestedFrom
    <3> QED BY <3>2, <3>3
  <2>2. \A q \in Node \ m_node_states' : vBlocksInFlight'[q] = {}
    BY <1>0, <1>4 DEF RequestInv, RequestsAgree, lifeVars
  <2>3. \A g \in Hash : IsInjective(mapBlocksInFlight'[g])
    BY <1>0, <1>2, <1>3 DEF RequestInv, RequestsAgree
  <2> QED BY <2>1, <2>2, <2>3 DEF RequestsAgree
<1>6. DownloadingPeersCounted' /\ m_peers_downloading_from' \in Int
  <2>1. h \in vBlocksInFlight[p]
    BY <1>0 DEF RequestInv, RequestsAgree
  <2>2. p \in DownloadingPeers
    BY <2>1 DEF DownloadingPeers
  <2>3. IsFiniteSet(DownloadingPeers)
    BY DownloadingFinite
  <2>4. m_peers_downloading_from = Cardinality(DownloadingPeers) /\ m_peers_downloading_from \in Int
    BY <1>0 DEF RequestInv, DownloadingPeersCounted
  <2>5. CASE vBlocksInFlight[p] \ {h} = {}
    <3>1. DownloadingPeers' = DownloadingPeers \ {p}
      BY <1>4, <2>5 DEF DownloadingPeers
    <3>2. Cardinality(DownloadingPeers') = Cardinality(DownloadingPeers) - 1
      BY <3>1, <2>2, <2>3, FS_RemoveElement, Zenon
    <3> QED BY <3>2, <2>4, <2>5 DEF DownloadingPeersCounted
  <2>6. CASE vBlocksInFlight[p] \ {h} # {}
    <3>1. DownloadingPeers' = DownloadingPeers
      BY <1>4, <2>2, <2>6 DEF DownloadingPeers
    <3> QED BY <3>1, <2>4, <2>6 DEF DownloadingPeersCounted
  <2> QED BY <2>5, <2>6
<1>7. RequestsPerBlockBounded'
  <2>1. Len(mapBlocksInFlight'[h]) <= MAX_CMPCTBLOCKS_INFLIGHT_PER_BLOCK
    <3>1. Len(Without(mapBlocksInFlight[h], p)) \in Nat
      BY <1>2
    <3> QED BY <3>1, <1>1, <1>2, <1>3, LimitAssumption
  <2> QED BY <2>1, <1>0, <1>3 DEF RequestInv, RequestsPerBlockBounded
<1>8. m_stalling_since' \in [Node -> BOOLEAN] /\ m_quality_stall_recorded' \in [Node -> BOOLEAN]
  BY <1>0 DEF RequestInv
<1>9. StallFlagsAgree'
  BY <1>0, <1>4, Zenon DEF RequestInv, StallFlagsAgree
<1>10. RequestInv'
  BY <1>3, <1>4, <1>5, <1>6, <1>7, <1>8, <1>9 DEF RequestInv
<1> QED BY <1>10, RequestStep DEF TrackerInv

(***************************************************************************)
(* The peers that lose their last request are the ones the counter loses.  *)
(***************************************************************************)
LEMMA ReleasedLemma ==
    ASSUME TrackerInv, NEW h \in Hash
    PROVE  /\ Released(h) \subseteq DownloadingPeers
           /\ IsFiniteSet(DownloadingPeers \ Released(h))
           /\ Cardinality(DownloadingPeers \ Released(h)) =
                 m_peers_downloading_from - Cardinality(Released(h))
           /\ Cardinality(DownloadingPeers \ Released(h)) \in Nat
           /\ \A p \in Node : ListsWithout(h)[p] # {} <=> p \in DownloadingPeers \ Released(h)
           /\ \A p \in Node : ListsWithout(h)[p] = vBlocksInFlight[p] \ {h}
           /\ ListsWithout(h) \in [Node -> SUBSET Hash]
<1>0. RequestInv
  BY InvRequest
<1>1. \A p \in Node : p \in RequestedFrom(h) <=> h \in vBlocksInFlight[p]
  BY <1>0 DEF RequestInv, RequestsAgree
<1>2. RequestedFrom(h) \subseteq Node
  BY <1>0 DEF RequestInv, RequestedFrom, Range
<1>3. Released(h) \subseteq DownloadingPeers
  BY <1>1, <1>2 DEF Released, DownloadingPeers
<1>4. IsFiniteSet(DownloadingPeers)
  BY DownloadingFinite
<1>5. DownloadingPeers \cap Released(h) = Released(h)
  BY <1>3
<1>6. /\ IsFiniteSet(DownloadingPeers \ Released(h))
      /\ Cardinality(DownloadingPeers \ Released(h)) =
            Cardinality(DownloadingPeers) - Cardinality(Released(h))
  BY <1>4, <1>5, FS_Difference
<1>7. \A p \in Node : ListsWithout(h)[p] = vBlocksInFlight[p] \ {h}
  BY <1>1 DEF ListsWithout
<1>8. ListsWithout(h) \in [Node -> SUBSET Hash]
  BY <1>0 DEF ListsWithout, RequestInv
<1>9. \A p \in Node : ListsWithout(h)[p] # {} <=> p \in DownloadingPeers \ Released(h)
  BY <1>1, <1>2, <1>7 DEF Released, DownloadingPeers
<1> QED BY <1>0, <1>3, <1>6, <1>7, <1>8, <1>9, FS_CardinalityType
        DEF RequestInv, DownloadingPeersCounted

(***************************************************************************)
(* The flags that survive the removal of all requests of h belong to peers *)
(* that still owe another block.                                           *)
(***************************************************************************)
LEMMA ClearedLemma ==
    ASSUME TrackerInv, NEW h \in Hash
    PROVE  /\ ClearedFor(h, m_stalling_since) \in [Node -> BOOLEAN]
           /\ ClearedFor(h, m_quality_stall_recorded) \in [Node -> BOOLEAN]
           /\ ClearedFor(h, m_quality_stall_recorded) = ClearedFor(h, m_stalling_since)
           /\ \A p \in Node : ClearedFor(h, m_stalling_since)[p] => ListsWithout(h)[p] # {}
<1>0. RequestInv
  BY InvRequest
<1>1. \A p \in Node : m_quality_stall_recorded[p] = m_stalling_since[p]
  BY <1>0 DEF RequestInv, StallFlagsAgree
<1>2. ClearedFor(h, m_quality_stall_recorded) = ClearedFor(h, m_stalling_since)
  BY <1>1 DEF ClearedFor
<1>3. ClearedFor(h, m_stalling_since) \in [Node -> BOOLEAN]
  BY DEF ClearedFor
<1>4. ASSUME NEW p \in Node, ClearedFor(h, m_stalling_since)[p]
      PROVE  ListsWithout(h)[p] # {}
  <2>1. m_stalling_since[p] /\ p \notin RequestedFrom(h)
    BY <1>4, Zenon DEF ClearedFor
  <2> QED BY <2>1, <1>0 DEF RequestInv, StallFlagsAgree, ListsWithout
<1> QED BY <1>2, <1>3, <1>4

(***************************************************************************)
(* Dropping every request of a block, from whomever.                       *)
(***************************************************************************)
LEMMA RemoveAllInv ==
    ASSUME TrackerInv, NEW h \in Hash, RemoveBlockRequests(h)
    PROVE  TrackerInv'
<1> USE DEF RemoveBlockRequests
<1>0. RequestInv
  BY InvRequest
<1>1. /\ mapBlocksInFlight' \in [Hash -> Seq(Node)]
      /\ mapBlocksInFlight'[h] = <<>>
      /\ \A g \in Hash : g # h => mapBlocksInFlight'[g] = mapBlocksInFlight[g]
  BY <1>0, EmptySeqLemma DEF RequestInv
<1>2. /\ vBlocksInFlight' \in [Node -> SUBSET Hash]
      /\ \A p \in Node : vBlocksInFlight'[p] = vBlocksInFlight[p] \ {h}
  BY ReleasedLemma, Zenon
<1>3. RequestsAgree'
  <2>1. ASSUME NEW q \in Node, NEW g \in Hash
        PROVE  q \in RequestedFrom(g)' <=> g \in vBlocksInFlight'[q]
    <3>1. q \in RequestedFrom(g) <=> g \in vBlocksInFlight[q]
      BY <1>0 DEF RequestInv, RequestsAgree
    <3>2. CASE g = h
      BY <3>2, <1>1, <1>2, EmptySeqLemma DEF RequestedFrom
    <3>3. CASE g # h
      BY <3>1, <3>3, <1>1, <1>2 DEF RequestedFrom
    <3> QED BY <3>2, <3>3
  <2>2. \A q \in Node \ m_node_states' : vBlocksInFlight'[q] = {}
    BY <1>0, <1>2 DEF RequestInv, RequestsAgree, lifeVars
  <2>3. \A g \in Hash : IsInjective(mapBlocksInFlight'[g])
    BY <1>0, <1>1, EmptySeqLemma DEF RequestInv, RequestsAgree
  <2> QED BY <2>1, <2>2, <2>3 DEF RequestsAgree
<1>4. DownloadingPeersCounted' /\ m_peers_downloading_from' \in Int
  <2>1. DownloadingPeers' = DownloadingPeers \ Released(h)
    <3>1. \A p \in Node : vBlocksInFlight'[p] # {} <=> p \in DownloadingPeers \ Released(h)
      BY ReleasedLemma, Zenon
    <3> QED BY <3>1 DEF DownloadingPeers
  <2>2. /\ Cardinality(DownloadingPeers \ Released(h)) =
             m_peers_downloading_from - Cardinality(Released(h))
        /\ Cardinality(DownloadingPeers \ Released(h)) \in Nat
    BY ReleasedLemma, Zenon
  <2>3. m_peers_downloading_from' = Cardinality(DownloadingPeers')
    BY <2>1, <2>2
  <2> QED BY <2>1, <2>2, <2>3 DEF DownloadingPeersCounted
<1>5. RequestsPerBlockBounded'
  BY <1>0, <1>1, EmptySeqLemma, LimitAssumption DEF RequestInv, RequestsPerBlockBounded
<1>6. /\ m_stalling_since' \in [Node -> BOOLEAN]
      /\ m_quality_stall_recorded' \in [Node -> BOOLEAN]
      /\ StallFlagsAgree'
  BY ClearedLemma DEF StallFlagsAgree
<1>7. RequestInv'
  BY <1>1, <1>2, <1>3, <1>4, <1>5, <1>6 DEF RequestInv
<1> QED BY <1>7, RequestStep DEF TrackerInv

(***************************************************************************)
(* getblockfrompeer: the requests of the block are replaced by one.        *)
(***************************************************************************)
LEMMA FetchRequestInv ==
    ASSUME TrackerInv, NEW p \in FetchTargets, NEW h \in Hash, FetchBlockRequest(p, h)
    PROVE  TrackerInv'
<1> USE DEF FetchBlockRequest
<1>0. RequestInv /\ p \in Node
  BY InvRequest, FetchAssumption
<1>1. /\ mapBlocksInFlight' \in [Hash -> Seq(Node)]
      /\ mapBlocksInFlight'[h] = <<p>>
      /\ \A g \in Hash : g # h => mapBlocksInFlight'[g] = mapBlocksInFlight[g]
  <2>1. <<p>> \in Seq(Node)
    BY <1>0, SingletonSeqLemma
  <2> QED BY <1>0, <2>1 DEF RequestInv
<1>2. /\ vBlocksInFlight' \in [Node -> SUBSET Hash]
      /\ vBlocksInFlight'[p] = vBlocksInFlight[p] \cup {h}
      /\ \A q \in Node : q # p => vBlocksInFlight'[q] = vBlocksInFlight[q] \ {h}
      /\ \A q \in Node : ListsWithout(h)[q] # {} => vBlocksInFlight'[q] # {}
  <2>1. ListsWithout(h) \in [Node -> SUBSET Hash]
    BY ReleasedLemma, Zenon
  <2>2. \A q \in Node : ListsWithout(h)[q] = vBlocksInFlight[q] \ {h}
    BY ReleasedLemma, Zenon
  <2> QED BY <1>0, <2>1, <2>2
<1>3. RequestsAgree'
  <2>1. ASSUME NEW q \in Node, NEW g \in Hash
        PROVE  q \in RequestedFrom(g)' <=> g \in vBlocksInFlight'[q]
    <3>1. q \in RequestedFrom(g) <=> g \in vBlocksInFlight[q]
      BY <1>0 DEF RequestInv, RequestsAgree
    <3>2. CASE g = h
      BY <3>2, <1>0, <1>1, <1>2, SingletonSeqLemma DEF RequestedFrom
    <3>3. CASE g # h
      BY <3>1, <3>3, <1>1, <1>2 DEF RequestedFrom
    <3> QED BY <3>2, <3>3
  <2>2. \A q \in Node \ m_node_states' : vBlocksInFlight'[q] = {}
    BY <1>0, <1>2 DEF RequestInv, RequestsAgree, lifeVars
  <2>3. \A g \in Hash : IsInjective(mapBlocksInFlight'[g])
    BY <1>0, <1>1, SingletonSeqLemma DEF RequestInv, RequestsAgree
  <2> QED BY <2>1, <2>2, <2>3 DEF RequestsAgree
<1>4. DownloadingPeersCounted' /\ m_peers_downloading_from' \in Int
  <2> DEFINE D == DownloadingPeers \ Released(h)
  <2>1. /\ \A q \in Node : ListsWithout(h)[q] # {} <=> q \in D
        /\ \A q \in Node : ListsWithout(h)[q] = vBlocksInFlight[q] \ {h}
        /\ IsFiniteSet(D) /\ Cardinality(D) \in Nat
        /\ Cardinality(D) = m_peers_downloading_from - Cardinality(Released(h))
    BY ReleasedLemma, Zenon
  <2>2. DownloadingPeers' = D \cup {p}
    <3>1. \A q \in Node : vBlocksInFlight'[q] # {} <=> q \in D \cup {p}
      BY <1>0, <1>2, <2>1
    <3>2. D \cup {p} \subseteq Node
      BY <1>0 DEF DownloadingPeers
    <3> QED BY <3>1, <3>2 DEF DownloadingPeers
  <2>3. Cardinality(DownloadingPeers') = IF p \in D THEN Cardinality(D) ELSE Cardinality(D) + 1
    BY <2>1, <2>2, FS_AddElement, Zenon
  <2>4. m_peers_downloading_from' = Cardinality(D) + IF p \in D THEN 0 ELSE 1
    BY <1>0, <2>1
  <2> HIDE DEF D
  <2> QED BY <2>1, <2>3, <2>4 DEF DownloadingPeersCounted
<1>5. RequestsPerBlockBounded'
  BY <1>0, <1>1, SingletonSeqLemma, LimitAssumption DEF RequestInv, RequestsPerBlockBounded
<1>6. /\ m_stalling_since' \in [Node -> BOOLEAN]
      /\ m_quality_stall_recorded' \in [Node -> BOOLEAN]
      /\ StallFlagsAgree'
  BY <1>2, ClearedLemma DEF StallFlagsAgree
<1>7. RequestInv'
  BY <1>1, <1>2, <1>3, <1>4, <1>5, <1>6 DEF RequestInv
<1> QED BY <1>7, RequestStep DEF TrackerInv

(***************************************************************************)
(* A peer that goes takes its requests with it, and the asserts hold.      *)
(***************************************************************************)
LEMMA FinalizeInv ==
    ASSUME TrackerInv, ~ aborted, NEW p \in Node, FinalizeNode(p)
    PROVE  TrackerInv' /\ ~ aborted'
<1> USE DEF FinalizeNode
<1>0. RequestInv /\ p \in m_node_states
  BY InvRequest DEF TrackerInv
<1>1. ASSUME NEW h \in Hash
      PROVE  /\ mapBlocksInFlight'[h] \in Seq(Node)
             /\ RequestedFrom(h)' = RequestedFrom(h) \ {p}
             /\ IsInjective(mapBlocksInFlight'[h])
             /\ Len(mapBlocksInFlight'[h]) <= MAX_CMPCTBLOCKS_INFLIGHT_PER_BLOCK
  <2>1. /\ mapBlocksInFlight[h] \in Seq(Node) /\ IsInjective(mapBlocksInFlight[h])
        /\ Len(mapBlocksInFlight[h]) \in Nat
        /\ Len(mapBlocksInFlight[h]) <= MAX_CMPCTBLOCKS_INFLIGHT_PER_BLOCK
        /\ p \in RequestedFrom(h) <=> h \in vBlocksInFlight[p]
    BY <1>0 DEF RequestInv, RequestsAgree, RequestsPerBlockBounded
  <2>2. CASE h \in vBlocksInFlight[p]
    <3>1. mapBlocksInFlight'[h] = Without(mapBlocksInFlight[h], p)
      BY <2>2
    <3>2. /\ Without(mapBlocksInFlight[h], p) \in Seq(Node)
          /\ Range(Without(mapBlocksInFlight[h], p)) = Range(mapBlocksInFlight[h]) \ {p}
          /\ IsInjective(Without(mapBlocksInFlight[h], p))
          /\ Len(Without(mapBlocksInFlight[h], p)) <= Len(mapBlocksInFlight[h])
      BY <2>1, WithoutLemma
    <3>3. Len(Without(mapBlocksInFlight[h], p)) <= MAX_CMPCTBLOCKS_INFLIGHT_PER_BLOCK
      <4>1. Len(Without(mapBlocksInFlight[h], p)) \in Nat
        BY <3>2
      <4> QED BY <4>1, <3>2, <2>1, LimitAssumption
    <3> QED BY <3>1, <3>2, <3>3 DEF RequestedFrom
  <2>3. CASE h \notin vBlocksInFlight[p]
    <3>1. mapBlocksInFlight'[h] = mapBlocksInFlight[h]
      BY <2>3
    <3> QED BY <2>1, <2>3, <3>1 DEF RequestedFrom
  <2> QED BY <2>2, <2>3
<1>2. mapBlocksInFlight' \in [Hash -> Seq(Node)]
  BY <1>1
<1>3. /\ vBlocksInFlight' \in [Node -> SUBSET Hash]
      /\ vBlocksInFlight'[p] = {}
      /\ \A q \in Node : q # p => vBlocksInFlight'[q] = vBlocksInFlight[q]
  BY <1>0 DEF RequestInv
<1>4. RequestsAgree'
  <2>1. ASSUME NEW q \in Node, NEW h \in Hash
        PROVE  q \in RequestedFrom(h)' <=> h \in vBlocksInFlight'[q]
    <3>1. q \in RequestedFrom(h) <=> h \in vBlocksInFlight[q]
      BY <1>0 DEF RequestInv, RequestsAgree
    <3> QED BY <3>1, <1>1, <1>3
  <2>2. \A q \in Node \ m_node_states' : vBlocksInFlight'[q] = {}
    BY <1>0, <1>3 DEF RequestInv, RequestsAgree
  <2> QED BY <1>1, <2>1, <2>2 DEF RequestsAgree
<1>5. /\ DownloadingPeersCounted' /\ m_peers_downloading_from' \in Nat
      /\ IsFiniteSet(DownloadingPeers')
  <2>1. DownloadingPeers' = DownloadingPeers \ {p}
    BY <1>3 DEF DownloadingPeers
  <2>2. p \in DownloadingPeers <=> vBlocksInFlight[p] # {}
    BY DEF DownloadingPeers
  <2>3. IsFiniteSet(DownloadingPeers)
    BY DownloadingFinite
  <2>4. /\ Cardinality(DownloadingPeers') =
             IF p \in DownloadingPeers THEN Cardinality(DownloadingPeers) - 1
             ELSE Cardinality(DownloadingPeers)
        /\ IsFiniteSet(DownloadingPeers')
    BY <2>1, <2>3, FS_RemoveElement
  <2>5. m_peers_downloading_from = Cardinality(DownloadingPeers) /\ m_peers_downloading_from \in Int
    BY <1>0 DEF RequestInv, DownloadingPeersCounted
  <2>6. m_peers_downloading_from' = Cardinality(DownloadingPeers')
    BY <2>2, <2>4, <2>5
  <2>7. Cardinality(DownloadingPeers') \in Nat
    BY <2>4, FS_CardinalityType
  <2> QED BY <2>4, <2>6, <2>7 DEF DownloadingPeersCounted
<1>6. RequestsPerBlockBounded'
  BY <1>1 DEF RequestsPerBlockBounded
<1>7. m_stalling_since' \in [Node -> BOOLEAN] /\ m_quality_stall_recorded' \in [Node -> BOOLEAN]
  BY <1>0 DEF RequestInv
<1>8. StallFlagsAgree'
  BY <1>0, <1>3, Zenon DEF RequestInv, StallFlagsAgree
<1>9. FinalizeAsserts(m_node_states', mapBlocksInFlight', m_peers_downloading_from')
  <2>1. m_peers_downloading_from' >= 0
    BY <1>5
  <2>2. ASSUME m_node_states' = {}
        PROVE  /\ \A h \in Hash : mapBlocksInFlight'[h] = <<>>
               /\ m_peers_downloading_from' = 0
    <3>1. \A q \in Node : vBlocksInFlight'[q] = {}
      BY <1>4, <2>2 DEF RequestsAgree
    <3>2. ASSUME NEW h \in Hash PROVE mapBlocksInFlight'[h] = <<>>
      <4>1. Range(mapBlocksInFlight'[h]) \subseteq Node
        BY <1>2 DEF Range
      <4>2. Range(mapBlocksInFlight'[h]) = {}
        BY <4>1, <3>1, <1>4 DEF RequestsAgree, RequestedFrom
      <4> QED BY <4>2, <1>2, EmptySeqLemma, Zenon
    <3>3. DownloadingPeers' = {}
      BY <3>1 DEF DownloadingPeers
    <3> QED BY <3>2, <3>3, <1>5, FS_EmptySet, Zenon DEF DownloadingPeersCounted
  <2> QED BY <2>1, <2>2 DEF FinalizeAsserts
<1>10. aborted' = FALSE
  BY <1>0, <1>9, Zenon
<1>11. /\ m_node_states' \in SUBSET Node /\ m_peer_map' \in SUBSET Node
       /\ finalized' \in SUBSET Node
       /\ m_peer_map' \subseteq m_node_states'
       /\ fetch' \in SUBSET (Node \X Hash)
       /\ fetch' \subseteq FetchTargets \X Hash
  BY DEF TrackerInv, TrackerTypeOK
<1>12. IsFiniteSet(m_node_states')
  BY FS_Subset DEF TrackerInv
<1>13. TrackerTypeOK'
  BY <1>2, <1>3, <1>5, <1>7, <1>10, <1>11 DEF TrackerTypeOK
<1> QED BY <1>4, <1>5, <1>6, <1>8, <1>10, <1>11, <1>12, <1>13 DEF TrackerInv

(***************************************************************************)
(* The stall flags of one peer change together.                            *)
(***************************************************************************)
LEMMA FlagsInv ==
    ASSUME TrackerInv, NEW p \in Node, NEW b \in BOOLEAN,
           b => vBlocksInFlight[p] # {},
           m_stalling_since' = [m_stalling_since EXCEPT ![p] = b],
           m_quality_stall_recorded' = [m_quality_stall_recorded EXCEPT ![p] = b],
           UNCHANGED <<mapBlocksInFlight, vBlocksInFlight, m_peers_downloading_from>>,
           UNCHANGED <<lifeVars, fetch, aborted>>
    PROVE  TrackerInv'
<1>0. RequestInv
  BY InvRequest
<1>1. m_stalling_since' \in [Node -> BOOLEAN] /\ m_quality_stall_recorded' \in [Node -> BOOLEAN]
  BY <1>0 DEF RequestInv
<1>2. StallFlagsAgree'
  BY <1>0 DEF RequestInv, StallFlagsAgree
<1>3. RequestsAgree' /\ DownloadingPeersCounted' /\ RequestsPerBlockBounded'
  BY <1>0 DEF RequestInv, RequestsAgree, RequestedFrom, DownloadingPeersCounted,
              DownloadingPeers, RequestsPerBlockBounded, lifeVars
<1>4. RequestInv'
  BY <1>0, <1>1, <1>2, <1>3 DEF RequestInv
<1> QED BY <1>4, RequestStep DEF TrackerInv

(***************************************************************************)
(* A connection or a call that leaves the requests alone.                  *)
(***************************************************************************)
LEMMA LifeInv ==
    ASSUME TrackerInv, UNCHANGED requestVars,
           m_node_states \subseteq m_node_states',
           m_node_states' \in SUBSET Node, m_peer_map' \in SUBSET Node,
           finalized' \in SUBSET Node, m_peer_map' \subseteq m_node_states',
           IsFiniteSet(m_node_states'),
           fetch' \subseteq FetchTargets \X Hash,
           aborted' \in BOOLEAN
    PROVE  TrackerInv'
<1>1. fetch' \in SUBSET (Node \X Hash)
  BY FetchAssumption
<1>2. TrackerTypeOK'
  BY <1>1 DEF TrackerInv, TrackerTypeOK, requestVars
<1>3. RequestsAgree'
  BY DEF TrackerInv, RequestsAgree, RequestedFrom, requestVars
<1>4. DownloadingPeersCounted' /\ RequestsPerBlockBounded' /\ StallFlagsAgree'
  BY DEF TrackerInv, DownloadingPeersCounted, DownloadingPeers, RequestsPerBlockBounded,
         StallFlagsAgree, requestVars
<1> QED BY <1>2, <1>3, <1>4 DEF TrackerInv

(***************************************************************************)
(* Every critical section that requests a block, drops a request, times a  *)
(* peer, or begins or ends a connection preserves the invariant.           *)
(***************************************************************************)
THEOREM TrackerNextInv == TrackerInv /\ [TrackerNext]_trackerVars => TrackerInv'
<1> SUFFICES ASSUME TrackerInv, [TrackerNext]_trackerVars PROVE TrackerInv'
  OBVIOUS
<1>0. /\ m_node_states \in SUBSET Node /\ m_peer_map \in SUBSET Node
      /\ finalized \in SUBSET Node /\ m_peer_map \subseteq m_node_states
      /\ IsFiniteSet(m_node_states) /\ fetch \subseteq FetchTargets \X Hash
      /\ aborted \in BOOLEAN
  BY DEF TrackerInv, TrackerTypeOK
<1>1. CASE UNCHANGED trackerVars
  BY <1>0, <1>1, LifeInv DEF trackerVars, lifeVars
<1>2. CASE TrackerNext
  <2>1. ASSUME NEW p \in Node, InitializeNodeState(p) PROVE TrackerInv'
    <3>1. IsFiniteSet(m_node_states \cup {p})
      BY <1>0, FS_AddElement
    <3> QED BY <1>0, <2>1, <3>1, LifeInv DEF InitializeNodeState
  <2>2. ASSUME NEW p \in Node, InitializePeer(p) PROVE TrackerInv'
    BY <1>0, <2>2, LifeInv DEF InitializePeer
  <2>3. ASSUME NEW p \in Node, FinalizeNode(p) PROVE TrackerInv'
    BY <1>2, <2>3, FinalizeInv DEF TrackerNext
  <2>4. ASSUME NEW p \in Node, NEW H \in SUBSET Hash, RequestBlocks(p, H) PROVE TrackerInv'
    <3>1. \A h \in H : Len(mapBlocksInFlight[h]) < MAX_CMPCTBLOCKS_INFLIGHT_PER_BLOCK
      BY <2>4, LimitAssumption, EmptySeqLemma DEF RequestBlocks, IsBlockRequested
    <3> QED BY <2>4, <3>1, RequestEffectInv DEF RequestBlocks
  <2>5. ASSUME NEW p \in Node, NEW h \in Hash, RequestCompactBlock(p, h) PROVE TrackerInv'
    <3>1. \A g \in {h} : p \in RequestedFrom(g)
                \/ Len(mapBlocksInFlight[g]) < MAX_CMPCTBLOCKS_INFLIGHT_PER_BLOCK
      BY <2>5 DEF RequestCompactBlock, MayRequestCompact
    <3> QED BY <2>5, <3>1, RequestEffectInv, Zenon DEF RequestCompactBlock
  <2>6. ASSUME NEW p \in Node, NEW h \in Hash, RequestAndGiveUp(p, h) PROVE TrackerInv'
    BY <2>6, FlagsInv, Zenon DEF RequestAndGiveUp
  <2>7. ASSUME NEW p \in Node, NEW h \in Hash, RemoveBlockRequestFrom(p, h) PROVE TrackerInv'
    BY <2>7, RemoveFromInv
  <2>8. ASSUME NEW p \in Node, NEW h \in Hash, StallStart(p, h) PROVE TrackerInv'
    <3>1. mapBlocksInFlight[h] \in Seq(Node) /\ mapBlocksInFlight[h] # <<>>
      BY <2>8 DEF TrackerInv, TrackerTypeOK, StallStart, IsBlockRequested
    <3>2. 1 \in DOMAIN mapBlocksInFlight[h] /\ mapBlocksInFlight[h][1] = p
      BY <2>8, <3>1 DEF StallStart
    <3>3. p \in RequestedFrom(h)
      BY <3>2 DEF RequestedFrom, Range
    <3>4. vBlocksInFlight[p] # {}
      BY <3>3 DEF TrackerInv, RequestsAgree
    <3> QED BY <2>8, <3>4, FlagsInv, Zenon DEF StallStart
  <2>9. ASSUME NEW h \in Hash, RemoveBlockRequests(h) PROVE TrackerInv'
    BY <2>9, RemoveAllInv
  <2>10. ASSUME NEW p \in FetchTargets, NEW h \in Hash, FetchBlockLookup(p, h) PROVE TrackerInv'
    BY <1>0, <2>10, LifeInv DEF FetchBlockLookup, lifeVars
  <2>11. ASSUME NEW p \in FetchTargets, NEW h \in Hash, FetchBlockRequest(p, h) PROVE TrackerInv'
    BY <2>11, FetchRequestInv
  <2>12. ASSUME NEW p \in FetchTargets, NEW h \in Hash, FetchBlockAbort(p, h) PROVE TrackerInv'
    BY <1>0, <2>12, LifeInv DEF FetchBlockAbort, lifeVars
  <2> QED BY <1>2, <2>1, <2>2, <2>3, <2>4, <2>5, <2>6, <2>7, <2>8, <2>9, <2>10, <2>11, <2>12
          DEF TrackerNext
<1> QED BY <1>1, <1>2

(***************************************************************************)
(* The invariant holds in every reachable state of the bookkeeping.        *)
(***************************************************************************)
THEOREM TrackerInvariant == TrackerSpec => []TrackerInv
BY TrackerInitInv, TrackerNextInv, PTL DEF TrackerSpec

(***************************************************************************)
(* The state keeps its shape, and there is never a Peer without CNodeState, *)
(* which FinalizeNode asserts.                                             *)
(***************************************************************************)
THEOREM TrackerAlwaysTyped == TrackerSpec => []TrackerTypeOK
<1>1. TrackerInv => TrackerTypeOK
  BY DEF TrackerInv
<1> QED BY <1>1, TrackerInvariant, PTL

(***************************************************************************)
(* In every reachable state the multimap and the lists hold the same       *)
(* requests, each once, and only of connected peers.                       *)
(***************************************************************************)
THEOREM RequestsAlwaysAgree == TrackerSpec => []RequestsAgree
<1>1. TrackerInv => RequestsAgree
  BY DEF TrackerInv
<1> QED BY <1>1, TrackerInvariant, PTL

(***************************************************************************)
(* m_peers_downloading_from is always the number of peers that owe a block.*)
(***************************************************************************)
THEOREM DownloadingPeersAlwaysCounted == TrackerSpec => []DownloadingPeersCounted
<1>1. TrackerInv => DownloadingPeersCounted
  BY DEF TrackerInv
<1> QED BY <1>1, TrackerInvariant, PTL

(***************************************************************************)
(* The Assume on the number of peers asked for one block always holds.     *)
(***************************************************************************)
THEOREM RequestsPerBlockAlwaysBounded == TrackerSpec => []RequestsPerBlockBounded
<1>1. TrackerInv => RequestsPerBlockBounded
  BY DEF TrackerInv
<1> QED BY <1>1, TrackerInvariant, PTL

(***************************************************************************)
(* The quality flag follows the stall timer, which only runs for a peer    *)
(* that owes a block.                                                      *)
(***************************************************************************)
THEOREM StallFlagsAlwaysAgree == TrackerSpec => []StallFlagsAgree
<1>1. TrackerInv => StallFlagsAgree
  BY DEF TrackerInv
<1> QED BY <1>1, TrackerInvariant, PTL

(***************************************************************************)
(* No assert of FinalizeNode ever fails, and the one of BlockRequested only *)
(* for a getblockfrompeer whose peer went after it had been looked up.     *)
(***************************************************************************)
THEOREM OnlyFetchEverAborts == TrackerSpec => []OnlyFetchAborts
<1>1. TrackerInit => OnlyFetchAborts
  BY DEF TrackerInit, OnlyFetchAborts
<1>2. TrackerInv /\ OnlyFetchAborts /\ [TrackerNext]_trackerVars => OnlyFetchAborts'
  <2> SUFFICES ASSUME TrackerInv, OnlyFetchAborts, [TrackerNext]_trackerVars
               PROVE  OnlyFetchAborts'
    OBVIOUS
  <2>1. CASE UNCHANGED trackerVars
    BY <2>1, Zenon DEF trackerVars, lifeVars, OnlyFetchAborts
  <2>2. ASSUME ~ aborted, NEW p \in Node, FinalizeNode(p) PROVE OnlyFetchAborts'
    BY <2>2, FinalizeInv DEF OnlyFetchAborts
  <2>3. ASSUME NEW p \in FetchTargets, NEW h \in Hash, FetchBlockAbort(p, h)
        PROVE  OnlyFetchAborts'
    BY <2>3 DEF FetchBlockAbort, lifeVars, OnlyFetchAborts
  <2>4. ASSUME ~ aborted, aborted' = aborted PROVE OnlyFetchAborts'
    BY <2>4 DEF OnlyFetchAborts
  <2>5. CASE TrackerNext
    BY <2>2, <2>3, <2>4, <2>5, Zenon
       DEF TrackerNext, InitializeNodeState, InitializePeer, RequestBlocks,
           RequestCompactBlock, RequestAndGiveUp, RemoveBlockRequestFrom, StallStart,
           RemoveBlockRequests, FetchBlockLookup, FetchBlockRequest
  <2> QED BY <2>1, <2>5
<1> QED BY <1>1, <1>2, TrackerInvariant, PTL DEF TrackerSpec

(***************************************************************************)
(* A step after which nobody but a target of getblockfrompeer owes a block *)
(* it did not owe before keeps the limit per peer.                         *)
(***************************************************************************)
LEMMA ShrinkingBounded ==
    ASSUME TrackerInv, RequestsPerPeerBounded, vBlocksInFlight' \in [Node -> SUBSET Hash],
           \A p \in Node \ FetchTargets : vBlocksInFlight'[p] \subseteq vBlocksInFlight[p]
    PROVE  RequestsPerPeerBounded'
<1> SUFFICES ASSUME NEW p \in Node \ FetchTargets
             PROVE  Cardinality(vBlocksInFlight'[p]) <= MAX_BLOCKS_IN_TRANSIT_PER_PEER
  BY DEF RequestsPerPeerBounded
<1>1. IsFiniteSet(vBlocksInFlight[p])
  BY HashAssumption, FS_Subset DEF TrackerInv, TrackerTypeOK
<1>2. /\ Cardinality(vBlocksInFlight'[p]) <= Cardinality(vBlocksInFlight[p])
      /\ Cardinality(vBlocksInFlight'[p]) \in Nat /\ Cardinality(vBlocksInFlight[p]) \in Nat
  BY <1>1, FS_Subset, FS_CardinalityType
<1>3. Cardinality(vBlocksInFlight[p]) <= MAX_BLOCKS_IN_TRANSIT_PER_PEER
  BY DEF RequestsPerPeerBounded
<1> QED BY <1>2, <1>3, LimitAssumption

(***************************************************************************)
(* Requests that fit into what is left of a peer's limit keep it.          *)
(***************************************************************************)
LEMMA FittingBounded ==
    ASSUME TrackerInv, RequestsPerPeerBounded, NEW p \in Node, NEW H \in SUBSET Hash,
           vBlocksInFlight' = [vBlocksInFlight EXCEPT ![p] = @ \cup H],
           \/ H \subseteq vBlocksInFlight[p]
           \/ Cardinality(vBlocksInFlight[p]) + Cardinality(H) <= MAX_BLOCKS_IN_TRANSIT_PER_PEER
    PROVE  RequestsPerPeerBounded'
<1> SUFFICES ASSUME NEW q \in Node \ FetchTargets
             PROVE  Cardinality(vBlocksInFlight'[q]) <= MAX_BLOCKS_IN_TRANSIT_PER_PEER
  BY Zenon DEF RequestsPerPeerBounded
<1>0. vBlocksInFlight \in [Node -> SUBSET Hash]
  BY DEF TrackerInv, TrackerTypeOK
<1>1. Cardinality(vBlocksInFlight[q]) <= MAX_BLOCKS_IN_TRANSIT_PER_PEER
  BY DEF RequestsPerPeerBounded
<1>2. CASE q # p \/ H \subseteq vBlocksInFlight[p]
  <2>1. vBlocksInFlight'[q] = vBlocksInFlight[q]
    BY <1>0, <1>2
  <2> QED BY <1>1, <2>1
<1>3. CASE q = p /\ ~ (H \subseteq vBlocksInFlight[p])
  <2>1. vBlocksInFlight'[q] = vBlocksInFlight[p] \cup H
    BY <1>0, <1>3
  <2>2. IsFiniteSet(vBlocksInFlight[p]) /\ IsFiniteSet(H)
    BY <1>0, HashAssumption, FS_Subset
  <2>3. /\ Cardinality(vBlocksInFlight[p] \cup H) =
             Cardinality(vBlocksInFlight[p]) + Cardinality(H)
               - Cardinality(vBlocksInFlight[p] \cap H)
        /\ IsFiniteSet(vBlocksInFlight[p] \cap H)
    BY <2>2, FS_Union, FS_Intersection, Zenon
  <2>4. /\ Cardinality(vBlocksInFlight[p]) \in Nat /\ Cardinality(H) \in Nat
        /\ Cardinality(vBlocksInFlight[p] \cap H) \in Nat
    BY <2>2, <2>3, FS_CardinalityType
  <2>5. Cardinality(vBlocksInFlight[p]) + Cardinality(H) <= MAX_BLOCKS_IN_TRANSIT_PER_PEER
    BY <1>3
  <2>6. Cardinality(vBlocksInFlight[p] \cup H) <= MAX_BLOCKS_IN_TRANSIT_PER_PEER
    BY <2>3, <2>4, <2>5, LimitAssumption
  <2> QED BY <2>1, <2>6, Zenon
<1> QED BY <1>2, <1>3

(***************************************************************************)
(* Nobody but a target of getblockfrompeer is ever asked for more than     *)
(* MAX_BLOCKS_IN_TRANSIT_PER_PEER blocks at a time.                        *)
(***************************************************************************)
THEOREM RequestsPerPeerAlwaysBounded == TrackerSpec => []RequestsPerPeerBounded
<1>1. TrackerInit => RequestsPerPeerBounded
  BY FS_EmptySet, LimitAssumption DEF TrackerInit, RequestsPerPeerBounded
<1>2. TrackerInv /\ TrackerInv' /\ RequestsPerPeerBounded /\ [TrackerNext]_trackerVars
        => RequestsPerPeerBounded'
  <2> SUFFICES ASSUME TrackerInv, TrackerInv', RequestsPerPeerBounded,
                      [TrackerNext]_trackerVars
               PROVE  RequestsPerPeerBounded'
    OBVIOUS
  <2>0. /\ vBlocksInFlight \in [Node -> SUBSET Hash]
        /\ vBlocksInFlight' \in [Node -> SUBSET Hash]
    BY DEF TrackerInv, TrackerTypeOK
  <2>1. CASE UNCHANGED vBlocksInFlight
    BY <2>0, <2>1, ShrinkingBounded
  <2>2. ASSUME NEW p \in Node, FinalizeNode(p) PROVE RequestsPerPeerBounded'
    BY <2>0, <2>2, ShrinkingBounded DEF FinalizeNode
  <2>3. ASSUME NEW p \in Node, NEW H \in SUBSET Hash, RequestBlocks(p, H)
        PROVE  RequestsPerPeerBounded'
    BY <2>3, FittingBounded, Zenon DEF RequestBlocks, RequestEffect
  <2>4. ASSUME NEW p \in Node, NEW h \in Hash, RequestCompactBlock(p, h)
        PROVE  RequestsPerPeerBounded'
    <3>1. vBlocksInFlight' = [vBlocksInFlight EXCEPT ![p] = @ \cup {h}]
      BY <2>4 DEF RequestCompactBlock, RequestEffect
    <3>4. {h} \in SUBSET Hash
      OBVIOUS
    <3>2. CASE p \in RequestedFrom(h)
      <4>1. {h} \subseteq vBlocksInFlight[p]
        BY <3>2 DEF TrackerInv, RequestsAgree
      <4> QED BY <3>1, <3>4, <4>1, FittingBounded, Zenon
    <3>3. CASE p \notin RequestedFrom(h)
      <4>1. Cardinality(vBlocksInFlight[p]) < MAX_BLOCKS_IN_TRANSIT_PER_PEER
        BY <2>4, <3>3 DEF RequestCompactBlock, MayRequestCompact
      <4>2. Cardinality(vBlocksInFlight[p]) \in Nat /\ Cardinality({h}) = 1
        BY <2>0, HashAssumption, FS_Subset, FS_CardinalityType, FS_Singleton, Zenon
      <4>3. Cardinality(vBlocksInFlight[p]) + Cardinality({h}) <= MAX_BLOCKS_IN_TRANSIT_PER_PEER
        BY <4>1, <4>2, LimitAssumption
      <4> QED BY <3>1, <3>4, <4>3, FittingBounded, Zenon
    <3> QED BY <3>2, <3>3
  <2>5. ASSUME NEW p \in Node, NEW h \in Hash, RemoveBlockRequestFrom(p, h)
        PROVE  RequestsPerPeerBounded'
    BY <2>0, <2>5, ShrinkingBounded DEF RemoveBlockRequestFrom
  <2>6. ASSUME NEW h \in Hash, RemoveBlockRequests(h) PROVE RequestsPerPeerBounded'
    BY <2>0, <2>6, ReleasedLemma, ShrinkingBounded, Zenon DEF RemoveBlockRequests
  <2>7. ASSUME NEW p \in FetchTargets, NEW h \in Hash, FetchBlockRequest(p, h)
        PROVE  RequestsPerPeerBounded'
    <3>1. \A q \in Node \ FetchTargets : vBlocksInFlight'[q] = ListsWithout(h)[q]
      BY <2>7, ReleasedLemma DEF FetchBlockRequest
    <3>2. \A q \in Node : ListsWithout(h)[q] = vBlocksInFlight[q] \ {h}
      BY ReleasedLemma, Zenon
    <3>3. \A q \in Node \ FetchTargets : vBlocksInFlight'[q] \subseteq vBlocksInFlight[q]
      BY <3>1, <3>2
    <3> QED BY <2>0, <3>3, ShrinkingBounded
  <2>8. ASSUME NEW p \in Node, NEW h \in Hash,
               RequestAndGiveUp(p, h) \/ StallStart(p, h)
        PROVE  RequestsPerPeerBounded'
    BY <2>1, <2>8 DEF RequestAndGiveUp, StallStart
  <2>9. ASSUME NEW p \in Node, InitializeNodeState(p) \/ InitializePeer(p)
        PROVE  RequestsPerPeerBounded'
    BY <2>1, <2>9 DEF InitializeNodeState, InitializePeer, requestVars
  <2>10. ASSUME NEW p \in FetchTargets, NEW h \in Hash,
                FetchBlockLookup(p, h) \/ FetchBlockAbort(p, h)
         PROVE  RequestsPerPeerBounded'
    BY <2>1, <2>10 DEF FetchBlockLookup, FetchBlockAbort, requestVars
  <2>11. CASE UNCHANGED trackerVars
    BY <2>1, <2>11 DEF trackerVars, requestVars
  <2> QED BY <2>2, <2>3, <2>4, <2>5, <2>6, <2>7, <2>8, <2>9, <2>10, <2>11 DEF TrackerNext
<1> QED BY <1>1, <1>2, TrackerInvariant, PTL DEF TrackerSpec

(***************************************************************************)
(* The first peer asked for a block stays the first for as long as it is   *)
(* asked at all, whichever requests are made and dropped.                  *)
(***************************************************************************)
LEMMA HeadKept ==
    ASSUME TrackerInv, [TrackerNext]_trackerVars, NEW h \in Hash, NEW p,
           mapBlocksInFlight[h] # <<>>, Head(mapBlocksInFlight[h]) = p,
           p \in Range(mapBlocksInFlight'[h])
    PROVE  Head(mapBlocksInFlight'[h]) = p
<1> DEFINE s == mapBlocksInFlight[h]
           t == mapBlocksInFlight'[h]
<1>1. s \in Seq(Node) /\ IsInjective(s) /\ mapBlocksInFlight \in [Hash -> Seq(Node)]
  BY DEF TrackerInv, TrackerTypeOK, RequestsAgree
<1>2. \/ t = s
      \/ \E q \in Node : t = Append(s, q)
      \/ \E q \in Node : t = Without(s, q)
      \/ t = <<>>
      \/ \E q \in Node : t = <<q>>
  <2>1. CASE UNCHANGED trackerVars
    BY <2>1 DEF trackerVars, requestVars
  <2>2. ASSUME NEW q \in Node, InitializeNodeState(q) \/ InitializePeer(q) PROVE t = s
    BY <2>2, Zenon DEF InitializeNodeState, InitializePeer, requestVars
  <2>3. ASSUME NEW q \in Node, FinalizeNode(q) PROVE t = s \/ t = Without(s, q)
    BY <2>3 DEF FinalizeNode
  <2>4. ASSUME NEW q \in Node, NEW H, RequestEffect(q, H) PROVE t = s \/ t = Append(s, q)
    BY <2>4 DEF RequestEffect
  <2>5. ASSUME NEW q \in Node, NEW g \in Hash, RequestAndGiveUp(q, g) \/ StallStart(q, g)
        PROVE  t = s
    BY <2>5 DEF RequestAndGiveUp, StallStart
  <2>6. ASSUME NEW q \in Node, NEW g \in Hash, RemoveBlockRequestFrom(q, g)
        PROVE  t = s \/ t = Without(s, q)
    BY <1>1, <2>6 DEF RemoveBlockRequestFrom
  <2>7. ASSUME NEW g \in Hash, RemoveBlockRequests(g) PROVE t = s \/ t = <<>>
    BY <1>1, <2>7 DEF RemoveBlockRequests
  <2>8. ASSUME NEW q \in FetchTargets, NEW g \in Hash, FetchBlockRequest(q, g)
        PROVE  t = s \/ t = <<q>>
    BY <1>1, <2>8 DEF FetchBlockRequest
  <2>9. ASSUME NEW q \in FetchTargets, NEW g \in Hash,
               FetchBlockLookup(q, g) \/ FetchBlockAbort(q, g)
        PROVE  t = s
    BY <2>9 DEF FetchBlockLookup, FetchBlockAbort, requestVars
  <2> HIDE DEF s, t
  <2> QED BY <2>1, <2>2, <2>3, <2>4, <2>5, <2>6, <2>7, <2>8, <2>9, FetchAssumption, Zenon
          DEF TrackerNext, RequestBlocks, RequestCompactBlock
<1>3. ASSUME NEW q \in Node, t = Append(s, q) PROVE Head(t) = p
  BY <1>1, <1>3
<1>4. ASSUME NEW q \in Node, t = Without(s, q) PROVE Head(t) = p
  <2>1. q # p
    BY <1>1, <1>4, WithoutLemma
  <2>2. CASE q \notin Range(s)
    BY <1>4, <2>2 DEF Without
  <2>3. CASE q \in Range(s)
    BY <1>1, <1>4, <2>1, <2>3, WithoutFront
  <2> QED BY <2>2, <2>3
<1>5. CASE t = <<>>
  BY <1>5 DEF Range
<1>6. ASSUME NEW q \in Node, t = <<q>> PROVE Head(t) = p
  BY <1>6 DEF Range
<1> QED BY <1>2, <1>3, <1>4, <1>5, <1>6
============================================================================
