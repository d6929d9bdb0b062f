----------------------- MODULE BlockDownload_proofs ------------------------
(***************************************************************************)
(* The download implements the request bookkeeping of module BlockTracker, *)
(* asks for no stored block, keeps its window and blames the right peer    *)
(* for a stall, for any number of peers and blocks and any limits.         *)
(***************************************************************************)
EXTENDS BlockDownload, BlockTracker_proofs

(***************************************************************************)
(* A block is its height.                                                  *)
(***************************************************************************)
LEMMA HashInts == Hash \subseteq Nat /\ \A h \in Hash : 1 <= h /\ 1 .. h \subseteq Hash
<1>1. Cardinality(Hash) \in Nat /\ Hash = 1 .. Cardinality(Hash)
  BY HashAssumption, ChainAssumption, FS_CardinalityType, Zenon
<1> QED BY <1>1

(***************************************************************************)
(* The members of a set of blocks with fewer than k of the set below them  *)
(* are at most k: FindNextBlocks and HeadersDirectFetchBlocks stop there.  *)
(***************************************************************************)
LEMMA LowestBounded ==
    ASSUME NEW T \in SUBSET Hash, NEW k \in Nat,
           NEW S, S = {h \in T : Cardinality({g \in T : g < h}) < k}
    PROVE  IsFiniteSet(S) /\ Cardinality(S) \in Nat /\ Cardinality(S) <= k
<1>0. IsFiniteSet(T) /\ IsFiniteSet(S) /\ Cardinality(S) \in Nat
  BY HashAssumption, FS_Subset, FS_CardinalityType, Zenon
<1>1. CASE S = {}
  <2>1. Cardinality(S) = 0
    BY <1>1, FS_EmptySet, Zenon
  <2> QED BY <1>0, <2>1
<1>2. CASE S # {}
  <2>1. Cardinality(Hash) \in Nat /\ Hash = 1 .. Cardinality(Hash)
    BY HashAssumption, ChainAssumption, FS_CardinalityType
  <2>2. S \in SUBSET (0 .. Cardinality(Hash))
    BY <2>1
  <2>3. PICK m \in S : \A s \in S : s <= m
    BY <1>2, <2>1, <2>2, HighestExists, Zenon
  <2> DEFINE B == {g \in T : g < m}
  <2>4. Cardinality(B) < k
    BY <2>3
  <2>5. S \ {m} \subseteq B
    <3>1. ASSUME NEW s \in S \ {m} PROVE s \in T /\ s < m
      <4>1. s \in Int /\ m \in Int /\ s <= m /\ s # m
        BY <2>2, <2>3
      <4> QED BY <4>1
    <3> QED BY <3>1
  <2>6. IsFiniteSet(B) /\ Cardinality(B) \in Nat
    BY <1>0, FS_Subset, FS_CardinalityType
  <2>7. Cardinality(S \ {m}) <= Cardinality(B)
    BY <2>5, <2>6, FS_Subset, Zenon
  <2>8. Cardinality(S \ {m}) = Cardinality(S) - 1
    BY <1>0, <2>3, FS_RemoveElement, Zenon
  <2> QED BY <1>0, <2>4, <2>6, <2>7, <2>8
<1> QED BY <1>1, <1>2

(***************************************************************************)
(* What is left of a peer's limit.                                         *)
(***************************************************************************)
LEMMA BudgetLemma ==
    ASSUME TrackerInv, NEW p \in Node
    PROVE  /\ InflightBudget(p) \in Nat
           /\ InflightBudget(p) > 0 =>
                 Cardinality(vBlocksInFlight[p]) + InflightBudget(p)
                    = MAX_BLOCKS_IN_TRANSIT_PER_PEER
           /\ Cardinality(vBlocksInFlight[p]) \in Nat
<1>1. Cardinality(vBlocksInFlight[p]) \in Nat
  BY HashAssumption, FS_Subset, FS_CardinalityType DEF TrackerInv, TrackerTypeOK
<1> DEFINE left == MAX_BLOCKS_IN_TRANSIT_PER_PEER - Cardinality(vBlocksInFlight[p])
<1>2. left \in Int
  BY <1>1, LimitAssumption
<1>3. \E x \in {0, left} : \A y \in {0, left} : x >= y
  BY <1>2
<1>4. /\ InflightBudget(p) \in {0, left}
      /\ \A y \in {0, left} : InflightBudget(p) >= y
  BY <1>3 DEF InflightBudget, Max
<1> QED BY <1>1, <1>2, <1>4, LimitAssumption

(***************************************************************************)
(* A getdata message for the lowest blocks of T is a RequestBlocks step    *)
(* when nobody is asked for any of them.                                   *)
(***************************************************************************)
LEMMA LowestRequested ==
    ASSUME TrackerInv, NEW p \in m_node_states, NEW T \in SUBSET Hash, NEW S,
           S = {h \in T : Cardinality({g \in T : g < h}) < InflightBudget(p)},
           \A h \in T : ~ IsBlockRequested(h),
           SendRequests(p, S)
    PROVE  RequestBlocks(p, S) /\ S \in SUBSET Hash
<1>1. p \in Node
  BY DEF TrackerInv, TrackerTypeOK
<1>2. InflightBudget(p) \in Nat /\ Cardinality(vBlocksInFlight[p]) \in Nat
  BY <1>1, BudgetLemma
<1>3. /\ IsFiniteSet(S) /\ Cardinality(S) \in Nat
      /\ Cardinality(S) <= InflightBudget(p)
  BY <1>2, LowestBounded, Zenon
<1>4. S # {} /\ S \subseteq T
  BY DEF SendRequests
<1>5. Cardinality(S) # 0
  BY <1>3, <1>4, FS_EmptySet, Zenon
<1>6. InflightBudget(p) > 0
  BY <1>2, <1>3, <1>5
<1>7. Cardinality(vBlocksInFlight[p]) + InflightBudget(p) = MAX_BLOCKS_IN_TRANSIT_PER_PEER
  BY <1>1, <1>6, BudgetLemma
<1>8. Cardinality(vBlocksInFlight[p]) + Cardinality(S) <= MAX_BLOCKS_IN_TRANSIT_PER_PEER
  BY <1>2, <1>3, <1>7
<1> QED BY <1>4, <1>8 DEF SendRequests, RequestBlocks

(***************************************************************************)
(* What the message handler thread works on: a known block, from a peer    *)
(* that DisconnectNodes does not delete meanwhile.                         *)
(***************************************************************************)
MsgInv ==
    \/ msg = Idle
    \/ /\ {"at", "peer", "hash"} \subseteq DOMAIN msg
       /\ msg.peer \in m_peer_map
       /\ msg.hash \in Hash

(***************************************************************************)
(* A handler that has started has a peer and a block.                      *)
(***************************************************************************)
LEMMA MsgBusy ==
    ASSUME TrackerInv, MsgInv, msg # Idle
    PROVE  /\ {"at", "peer", "hash"} \subseteq DOMAIN msg
           /\ msg.peer \in m_peer_map /\ msg.peer \in m_node_states
           /\ msg.peer \in Node /\ msg.hash \in Hash
BY DEF TrackerInv, TrackerTypeOK, MsgInv

(***************************************************************************)
(* The steps of the tracker other than a request for a compact block.      *)
(***************************************************************************)
QuietNext ==
    /\ ~ aborted
    /\ \/ \E p \in Node :
             \/ InitializeNodeState(p)
             \/ InitializePeer(p)
             \/ FinalizeNode(p)
             \/ \E H \in SUBSET Hash : RequestBlocks(p, H)
       \/ \E p \in Node, h \in Hash :
             \/ RequestAndGiveUp(p, h)
             \/ RemoveBlockRequestFrom(p, h)
             \/ StallStart(p, h)
       \/ \E h \in Hash : RemoveBlockRequests(h)
       \/ \E p \in FetchTargets, h \in Hash :
             \/ FetchBlockLookup(p, h)
             \/ FetchBlockRequest(p, h)
             \/ FetchBlockAbort(p, h)

(***************************************************************************)
(* They are steps of the tracker.                                          *)
(***************************************************************************)
LEMMA QuietLemma == QuietNext => TrackerNext
BY Zenon DEF QuietNext, TrackerNext

(***************************************************************************)
(* SendMessages asks for blocks or starts a stall timer as the tracker may.*)
(***************************************************************************)
LEMMA SendGetDataStep ==
    ASSUME TrackerInv, ~ aborted, NEW p \in Node, SendGetData(p)
    PROVE  [QuietNext]_trackerVars
<1>1. p \in m_node_states
  BY DEF SendGetData, Serving, TrackerInv
<1>2. CASE SendRequests(p, ToDownload(p))
  <2>1. Wanted(p) \in SUBSET Hash /\ \A h \in Wanted(p) : ~ IsBlockRequested(h)
    BY DEF Wanted, Missing, Walked
  <2>2. RequestBlocks(p, ToDownload(p)) /\ ToDownload(p) \in SUBSET Hash
    <3> DEFINE S == ToDownload(p)
    <3>1. S = {h \in Wanted(p) : Cardinality({g \in Wanted(p) : g < h}) < InflightBudget(p)}
      BY DEF ToDownload
    <3> HIDE DEF S
    <3>2. SendRequests(p, S)
      BY <1>2 DEF S
    <3>3. RequestBlocks(p, S) /\ S \in SUBSET Hash
      BY <1>1, <2>1, <3>1, <3>2, LowestRequested, Zenon
    <3> QED BY <3>3 DEF S
  <2> QED BY <2>2 DEF QuietNext
<1>3. CASE \E q \in Staller(p) : StallStart(q, Awaited(p))
  <2>1. PICK q \in Staller(p) : StallStart(q, Awaited(p))
    BY <1>3
  <2>2. q \in Staller(p) /\ InFlightWalked(p) # {}
    BY <2>1 DEF Staller, WaitingFor
  <2>3. InFlightWalked(p) \subseteq Hash
    BY DEF InFlightWalked, Walked
  <2>4. Awaited(p) \in Hash
    <3>1. Cardinality(Hash) \in Nat /\ Hash = 1 .. Cardinality(Hash)
      BY HashAssumption, ChainAssumption, FS_CardinalityType
    <3>2. \E x \in InFlightWalked(p) : \A y \in InFlightWalked(p) : x <= y
      BY <2>2, <2>3, <3>1, LowestExists, Zenon
    <3> QED BY <2>3, <3>2 DEF Awaited, Min
  <2>5. q \in Node
    <3>1. /\ mapBlocksInFlight[Awaited(p)] \in Seq(Node)
          /\ mapBlocksInFlight[Awaited(p)] # <<>>
          /\ q = Head(mapBlocksInFlight[Awaited(p)])
      BY <2>1, <2>4 DEF TrackerInv, TrackerTypeOK, StallStart, IsBlockRequested
    <3> QED BY <3>1
  <2> QED BY <2>1, <2>4, <2>5 DEF QuietNext
<1>4. CASE UNCHANGED trackerVars
  BY <1>4
<1> QED BY <1>2, <1>3, <1>4 DEF SendGetData

(***************************************************************************)
(* The steps of one connection that the download and the relay share.      *)
(***************************************************************************)
LEMMA PeerActions ==
    ASSUME TrackerInv, MsgInv, ~ aborted, NEW p \in Node,
           \/ Connect(p) \/ ConnectionLost(p) \/ DeleteNode(p) \/ ReceiveHeaders(p)
           \/ SendTimeout(p) \/ SendGetData(p)
    PROVE  [QuietNext]_trackerVars /\ MsgInv'
<1>1. CASE Connect(p)
  <2>1. QuietNext
    BY <1>1 DEF Connect, QuietNext
  <2>2. m_peer_map \subseteq m_peer_map' /\ msg' = msg
    BY <1>1 DEF Connect, InitializeNodeState, InitializePeer, downloadVars
  <2> QED BY <2>1, <2>2 DEF MsgInv
<1>2. CASE ConnectionLost(p) \/ ReceiveHeaders(p) \/ SendTimeout(p)
  <2>1. UNCHANGED <<trackerVars, msg>>
    BY <1>2 DEF ConnectionLost, ReceiveHeaders, SendTimeout
  <2> QED BY <2>1, Zenon DEF MsgInv, trackerVars, lifeVars
<1>3. CASE DeleteNode(p)
  <2>1. QuietNext
    BY <1>3 DEF DeleteNode, QuietNext
  <2>2. m_peer_map' = m_peer_map \ {p} /\ msg' = msg /\ (msg # Idle => msg.peer # p)
    BY <1>3, Zenon DEF DeleteNode, FinalizeNode
  <2> QED BY <2>1, <2>2 DEF MsgInv
<1>4. CASE SendGetData(p)
  <2>1. msg' = Idle
    BY <1>4 DEF SendGetData, Serving
  <2> QED BY <1>4, <2>1, SendGetDataStep DEF MsgInv, Idle
<1> QED BY <1>1, <1>2, <1>3, <1>4

(***************************************************************************)
(* The BLOCK handler, ProcessNewBlock and the RPCs.                        *)
(***************************************************************************)
LEMMA BlockActions ==
    ASSUME TrackerInv, MsgInv, ~ aborted,
           \/ \E p \in Node, h \in Hash : ReceiveBlock(p, h)
           \/ StoreBlock \/ ConnectTip \/ FinishBlock
           \/ \E h \in Submitted : SubmitBlock(h)
           \/ \E p \in FetchTargets, h \in Hash : FetchBlock(p, h)
    PROVE  [QuietNext]_trackerVars /\ MsgInv'
<1>1. ASSUME NEW p \in Node, NEW h \in Hash, ReceiveBlock(p, h)
      PROVE  [QuietNext]_trackerVars /\ MsgInv'
  <2>1. RemoveBlockRequestFrom(p, h) \/ UNCHANGED trackerVars
    BY <1>1 DEF ReceiveBlock
  <2>2. m_peer_map' = m_peer_map
    BY <2>1, Zenon DEF RemoveBlockRequestFrom, trackerVars, lifeVars
  <2>3. MsgInv'
    BY <1>1, <2>2 DEF ReceiveBlock, Serving, MsgInv
  <2> QED BY <2>1, <2>3, Zenon DEF QuietNext
<1>2. CASE StoreBlock
  <2>1. UNCHANGED trackerVars /\ msg' = [msg EXCEPT !.at = "stored"] /\ msg # Idle
    BY <1>2 DEF StoreBlock, Idle
  <2>2. /\ {"at", "peer", "hash"} \subseteq DOMAIN msg
        /\ msg.peer \in m_peer_map /\ msg.hash \in Hash
    BY <2>1, MsgBusy
  <2>3. DOMAIN msg' = DOMAIN msg /\ msg'.peer = msg.peer /\ msg'.hash = msg.hash
    BY <2>1, <2>2
  <2> QED BY <2>1, <2>2, <2>3 DEF MsgInv, trackerVars, lifeVars
<1>3. CASE ConnectTip
  BY <1>3 DEF ConnectTip, MsgInv, trackerVars, lifeVars
<1>4. CASE FinishBlock
  <2>1. msg # Idle /\ msg' = Idle
    BY <1>4 DEF FinishBlock, Idle
  <2>2. RemoveBlockRequests(msg.hash) \/ UNCHANGED trackerVars
    BY <1>4 DEF FinishBlock
  <2> QED BY <2>1, <2>2, MsgBusy DEF QuietNext, MsgInv, Idle
<1>5. ASSUME NEW h \in Submitted, SubmitBlock(h)
      PROVE  [QuietNext]_trackerVars /\ MsgInv'
  BY <1>5, Zenon DEF SubmitBlock, RejectEffect, MsgInv, trackerVars, lifeVars
<1>6. ASSUME NEW p \in FetchTargets, NEW h \in Hash, FetchBlock(p, h)
      PROVE  [QuietNext]_trackerVars /\ MsgInv'
  <2>1. QuietNext
    BY <1>6, Zenon DEF FetchBlock, QuietNext
  <2>2. msg' = msg /\ m_peer_map' = m_peer_map
    BY <1>6 DEF FetchBlock, FetchBlockLookup, FetchBlockRequest, FetchBlockAbort,
                lifeVars, downloadVars
  <2> QED BY <2>1, <2>2 DEF MsgInv
<1> QED BY <1>1, <1>2, <1>3, <1>4, <1>5, <1>6

(***************************************************************************)
(* Every step of the download is a step of the tracker or leaves it alone. *)
(***************************************************************************)
LEMMA DownloadStep ==
    TrackerInv /\ MsgInv /\ [Next]_vars => [TrackerNext]_trackerVars /\ MsgInv'
<1> SUFFICES ASSUME TrackerInv, MsgInv, [Next]_vars
             PROVE  [TrackerNext]_trackerVars /\ MsgInv'
  OBVIOUS
<1>1. CASE UNCHANGED vars
  BY <1>1 DEF vars, downloadVars, trackerVars, lifeVars, MsgInv
<1>2. CASE Next
  <2>0. ~ aborted
    BY <1>2, Zenon DEF Next
  <2>1. CASE RejectBlock
    BY <2>1 DEF RejectBlock, RejectEffect, MsgInv, Idle
  <2>2. CASE \E p \in Node : \/ Connect(p) \/ ConnectionLost(p) \/ DeleteNode(p)
                             \/ ReceiveHeaders(p) \/ SendTimeout(p) \/ SendGetData(p)
    BY <2>0, <2>2, PeerActions, QuietLemma
  <2>3. CASE \/ \E p \in Node, h \in Hash : ReceiveBlock(p, h)
             \/ StoreBlock \/ ConnectTip \/ FinishBlock
             \/ \E h \in Submitted : SubmitBlock(h)
             \/ \E p \in FetchTargets, h \in Hash : FetchBlock(p, h)
    BY <2>0, <2>3, BlockActions, QuietLemma
  <2> QED BY <1>2, <2>1, <2>2, <2>3 DEF Next
<1> QED BY <1>1, <1>2

(***************************************************************************)
(* Parallel block download implements the request bookkeeping, so every    *)
(* theorem about the bookkeeping is one about the download.                *)
(***************************************************************************)
THEOREM DownloadImplementsTracker == Spec => TrackerSpec
<1>1. Init => TrackerInit /\ TrackerInv /\ MsgInv
  BY TrackerInitInv DEF Init, MsgInv
<1>2. TrackerInv /\ MsgInv /\ [Next]_vars
        => [TrackerNext]_trackerVars /\ TrackerInv' /\ MsgInv'
  BY DownloadStep, TrackerNextInv
<1> QED BY <1>1, <1>2, PTL DEF Spec, TrackerSpec

(***************************************************************************)
(* What is proved of the bookkeeping is therefore true of the download: in *)
(* every reachable state the requests agree and are counted and bounded,   *)
(* the stall flags agree, and no assert but that of getblockfrompeer can   *)
(* fail.                                                                   *)
(***************************************************************************)
THEOREM DownloadKeepsTracker ==
    Spec => [](/\ RequestsAgree /\ DownloadingPeersCounted /\ RequestsPerBlockBounded
               /\ RequestsPerPeerBounded /\ StallFlagsAgree /\ OnlyFetchAborts)
BY DownloadImplementsTracker, RequestsAlwaysAgree, DownloadingPeersAlwaysCounted,
   RequestsPerBlockAlwaysBounded, RequestsPerPeerAlwaysBounded, StallFlagsAlwaysAgree,
   OnlyFetchEverAborts, PTL

----------------------------------------------------------------------------
(***************************************************************************)
(* Where the download stands.  Blocks are known to be there without a gap  *)
(* up to the tip and up to the last block in common with any peer, and     *)
(* that is what the window of every request is counted from; a block that  *)
(* is stored is only asked for while its handler is still at work.         *)
(***************************************************************************)
DownloadInv ==
    /\ tip \in Nat /\ stored \subseteq Hash /\ 1 .. tip \subseteq stored
    /\ pindexBestKnownBlock \in [Node -> Nat]
    /\ pindexLastCommonBlock \in [Node -> Nat]
    /\ \A p \in Node : 1 .. pindexLastCommonBlock[p] \subseteq stored
    /\ \A p \in Node \ FetchTargets : \A h \in vBlocksInFlight[p] :
          \E l \in Nat : 1 .. l \subseteq stored /\ h <= l + BLOCK_DOWNLOAD_WINDOW
    /\ \A p \in Node \ FetchTargets : \A h \in vBlocksInFlight[p] :
          h \in stored \ Submitted => msg.at = "stored" /\ msg.hash = h

(***************************************************************************)
(* Linked is the height up to which there is no gap.                       *)
(***************************************************************************)
LEMMA LinkedLemma ==
    ASSUME stored \subseteq Hash
    PROVE  /\ Linked \in Nat /\ 1 .. Linked \subseteq stored
           /\ \A l \in Nat : 1 .. l \subseteq stored => l <= Linked
<1> DEFINE S == {0} \cup {h \in Hash : 1 .. h \subseteq stored}
<1>1. Cardinality(Hash) \in Nat /\ Hash = 1 .. Cardinality(Hash)
  BY HashAssumption, ChainAssumption, FS_CardinalityType
<1>2. S \in SUBSET (0 .. Cardinality(Hash)) /\ S # {}
  BY <1>1
<1>3. \E m \in S : \A s \in S : s <= m
  <2> HIDE DEF S
  <2> QED BY <1>1, <1>2, HighestExists, Zenon
<1>4. \E m \in S : \A s \in S : m >= s
  BY <1>1, <1>2, <1>3
<1>5. Linked \in S /\ \A s \in S : Linked >= s
  BY <1>4, Zenon DEF Linked, Max
<1>6. ASSUME NEW l \in Nat, 1 .. l \subseteq stored PROVE l \in S
  <2>1. CASE l = 0
    BY <2>1
  <2>2. CASE l # 0
    <3>1. l \in 1 .. l
      BY <2>2
    <3> QED BY <1>6, <3>1
  <2> QED BY <2>1, <2>2
<1>7. ASSUME NEW l \in Nat, 1 .. l \subseteq stored PROVE l <= Linked
  BY <1>1, <1>2, <1>5, <1>6, <1>7
<1>8. 1 .. Linked \subseteq stored
  BY <1>5
<1>9. Linked \in Nat
  <2> HIDE DEF S
  <2>1. Linked \in 0 .. Cardinality(Hash)
    BY <1>2, <1>5
  <2> QED BY <1>1, <2>1
<1> HIDE DEF S
<1> QED BY <1>7, <1>8, <1>9

(***************************************************************************)
(* The walk of FindNextBlocks starts where there is no gap below it, and   *)
(* so does the next one.                                                   *)
(***************************************************************************)
LEMMA WalkLemma ==
    ASSUME DownloadInv, NEW p \in Node
    PROVE  /\ WalkStart(p) \in Nat /\ 1 .. WalkStart(p) \subseteq stored
           /\ NewLastCommon(p) \in Nat /\ 1 .. NewLastCommon(p) \subseteq stored
<1> DEFINE best == pindexBestKnownBlock[p]
           last == pindexLastCommonBlock[p]
           low == Min({best, tip})
<1>0. /\ best \in Nat /\ last \in Nat /\ tip \in Nat
      /\ 1 .. tip \subseteq stored /\ 1 .. last \subseteq stored
  BY DEF DownloadInv
<1>1. low \in {best, tip} /\ low <= tip
  <2>1. \E x \in {best, tip} : \A y \in {best, tip} : x <= y
    BY <1>0
  <2>2. low \in {best, tip} /\ \A y \in {best, tip} : low <= y
    BY <2>1 DEF Min
  <2> QED BY <2>2
<1>2. low \in Nat /\ 1 .. low \subseteq stored
  BY <1>0, <1>1
<1>3. WalkStart(p) \in {last, low}
  <2>1. \E x \in {last, low} : \A y \in {last, low} : x >= y
    BY <1>0, <1>2
  <2> QED BY <2>1 DEF WalkStart, Max
<1>4. WalkStart(p) \in Nat /\ 1 .. WalkStart(p) \subseteq stored
  BY <1>0, <1>2, <1>3
<1>5. NewLastCommon(p) \in {WalkStart(p)} \cup {h \in Walked(p) : h <= Linked}
  <2> DEFINE S == {WalkStart(p)} \cup {h \in Walked(p) : h <= Linked}
  <2>1. Linked \in Nat
    BY LinkedLemma DEF DownloadInv
  <2>2. Cardinality(Hash) \in Nat /\ Hash = 1 .. Cardinality(Hash) /\ Walked(p) \subseteq Hash
    BY HashAssumption, ChainAssumption, FS_CardinalityType DEF Walked
  <2>3. S \in SUBSET (0 .. WalkStart(p) + Linked) /\ S # {} /\ WalkStart(p) + Linked \in Nat
    BY <1>4, <2>1, <2>2
  <2>4. \E m \in S : \A s \in S : s <= m
    <3> HIDE DEF S
    <3> QED BY <2>3, HighestExists, Zenon
  <2>5. \E m \in S : \A s \in S : m >= s
    BY <2>3, <2>4
  <2> QED BY <2>5 DEF NewLastCommon, Max
<1>6. CASE NewLastCommon(p) = WalkStart(p)
  BY <1>4, <1>6
<1>7. CASE NewLastCommon(p) \in Walked(p) /\ NewLastCommon(p) <= Linked
  <2>1. NewLastCommon(p) \in Nat
    BY <1>7, HashAssumption, ChainAssumption, FS_CardinalityType DEF Walked
  <2>2. Linked \in Nat /\ 1 .. Linked \subseteq stored
    BY LinkedLemma DEF DownloadInv
  <2> QED BY <1>4, <1>7, <2>1, <2>2
<1> QED BY <1>4, <1>5, <1>6, <1>7
(***************************************************************************)
(* A step that makes no request and stores nothing but what submitblock    *)
(* brings keeps the invariant, if its handler goes on.                     *)
(***************************************************************************)
LEMMA NoRequestInv ==
    ASSUME DownloadInv, tip' \in Nat, 1 .. tip' \subseteq stored', stored \subseteq stored',
           stored' \subseteq Hash, stored' \ stored \subseteq Submitted,
           pindexBestKnownBlock' \in [Node -> Nat],
           pindexLastCommonBlock' \in [Node -> Nat],
           \A p \in Node : 1 .. pindexLastCommonBlock'[p] \subseteq stored',
           \A p \in Node \ FetchTargets : vBlocksInFlight'[p] \subseteq vBlocksInFlight[p],
           msg.at = "stored" => msg'.at = "stored" /\ msg'.hash = msg.hash
    PROVE  DownloadInv'
<1>1. ASSUME NEW p \in Node \ FetchTargets, NEW h \in vBlocksInFlight'[p]
      PROVE  \E l \in Nat : 1 .. l \subseteq stored' /\ h <= l + BLOCK_DOWNLOAD_WINDOW
  <2>1. PICK l \in Nat : 1 .. l \subseteq stored /\ h <= l + BLOCK_DOWNLOAD_WINDOW
    BY <1>1 DEF DownloadInv
  <2>2. 1 .. l \subseteq stored'
    BY <2>1
  <2> QED BY <2>1, <2>2
<1>2. ASSUME NEW p \in Node \ FetchTargets, NEW h \in vBlocksInFlight'[p],
             h \in stored' \ Submitted
      PROVE  msg'.at = "stored" /\ msg'.hash = h
  BY <1>2 DEF DownloadInv
<1> QED BY <1>1, <1>2 DEF DownloadInv

(***************************************************************************)
(* The requests of one getdata message are in the window and for blocks    *)
(* that are missing.                                                       *)
(***************************************************************************)
LEMMA SendGetDataInv ==
    ASSUME TrackerInv, DownloadInv, NEW p \in Node, SendGetData(p)
    PROVE  DownloadInv'
<1>0. /\ stored' = stored /\ tip' = tip /\ pindexBestKnownBlock' = pindexBestKnownBlock
      /\ msg' = msg /\ msg = Idle
  BY DEF SendGetData, Serving
<1>1. /\ pindexLastCommonBlock' \in [Node -> Nat]
      /\ \A q \in Node : 1 .. pindexLastCommonBlock'[q] \subseteq stored
  <2>1. pindexLastCommonBlock' = [pindexLastCommonBlock EXCEPT ![p] = NewLastCommon(p)]
    BY DEF SendGetData
  <2>2. NewLastCommon(p) \in Nat /\ 1 .. NewLastCommon(p) \subseteq stored
    BY WalkLemma
  <2>3. /\ pindexLastCommonBlock \in [Node -> Nat]
        /\ \A q \in Node : 1 .. pindexLastCommonBlock[q] \subseteq stored
    BY DEF DownloadInv
  <2>4. \A q \in Node : pindexLastCommonBlock'[q] =
                           IF q = p THEN NewLastCommon(p) ELSE pindexLastCommonBlock[q]
    BY <2>1, <2>3, Zenon
  <2> QED BY <2>1, <2>2, <2>3, <2>4
<1>2. CASE UNCHANGED vBlocksInFlight
  BY <1>0, <1>1, <1>2, NoRequestInv, Zenon DEF DownloadInv
<1>3. CASE SendRequests(p, ToDownload(p))
  <2>1. ASSUME NEW h \in ToDownload(p)
        PROVE  h \notin stored /\ h <= WalkStart(p) + BLOCK_DOWNLOAD_WINDOW
    BY DEF ToDownload, Wanted, Missing, nWindowEnd
  <2>2. \A q \in Node : vBlocksInFlight'[q] =
                           IF q = p THEN vBlocksInFlight[p] \cup ToDownload(p)
                           ELSE vBlocksInFlight[q]
    BY <1>3 DEF SendRequests, RequestEffect, TrackerInv, TrackerTypeOK
  <2>3. WalkStart(p) \in Nat /\ 1 .. WalkStart(p) \subseteq stored
    BY WalkLemma
  <2>4. ASSUME NEW q \in Node \ FetchTargets, NEW h \in vBlocksInFlight'[q]
        PROVE  \E l \in Nat : 1 .. l \subseteq stored /\ h <= l + BLOCK_DOWNLOAD_WINDOW
    <3>1. CASE h \in vBlocksInFlight[q]
      BY <3>1 DEF DownloadInv
    <3>2. CASE h \notin vBlocksInFlight[q]
      BY <2>1, <2>2, <2>3, <3>2
    <3> QED BY <3>1, <3>2
  <2>5. ASSUME NEW q \in Node \ FetchTargets, NEW h \in vBlocksInFlight'[q],
               h \in stored \ Submitted
        PROVE  msg.at = "stored" /\ msg.hash = h
    <3>1. h \in vBlocksInFlight[q]
      BY <2>1, <2>2, <2>5
    <3> QED BY <2>5, <3>1 DEF DownloadInv
  <2>6. tip \in Nat /\ stored \subseteq Hash /\ 1 .. tip \subseteq stored
        /\ pindexBestKnownBlock \in [Node -> Nat]
    BY DEF DownloadInv
  <2> QED BY <1>0, <1>1, <2>4, <2>5, <2>6 DEF DownloadInv
<1>4. UNCHANGED vBlocksInFlight \/ SendRequests(p, ToDownload(p))
  BY DEF SendGetData, StallStart, trackerVars, requestVars
<1> QED BY <1>2, <1>3, <1>4

(***************************************************************************)
(* Storing a block and dropping the other requests for it.                 *)
(***************************************************************************)
LEMMA StoreFinishInv ==
    ASSUME TrackerInv, MsgInv, DownloadInv, StoreBlock \/ FinishBlock
    PROVE  DownloadInv'
<1>0. /\ tip' = tip /\ pindexBestKnownBlock' = pindexBestKnownBlock
      /\ pindexLastCommonBlock' = pindexLastCommonBlock /\ msg # Idle
  BY DEF StoreBlock, FinishBlock, Idle
<1>1. msg.hash \in Hash /\ {"at", "hash"} \subseteq DOMAIN msg
  BY <1>0, MsgBusy
<1>2. CASE StoreBlock
  <2>1. /\ stored' = stored \cup {msg.hash} /\ vBlocksInFlight' = vBlocksInFlight
        /\ msg' = [msg EXCEPT !.at = "stored"] /\ msg.at = "accept"
    BY <1>2 DEF StoreBlock, trackerVars, requestVars
  <2>2. msg'.at = "stored" /\ msg'.hash = msg.hash
    BY <1>1, <2>1
  <2>3. ASSUME NEW p \in Node \ FetchTargets, NEW h \in vBlocksInFlight'[p],
               h \in stored' \ Submitted
        PROVE  msg'.at = "stored" /\ msg'.hash = h
    <3>1. h \notin stored
      BY <2>1, <2>3 DEF DownloadInv
    <3> QED BY <2>1, <2>2, <2>3, <3>1
  <2>4. ASSUME NEW p \in Node \ FetchTargets, NEW h \in vBlocksInFlight'[p]
        PROVE  \E l \in Nat : 1 .. l \subseteq stored' /\ h <= l + BLOCK_DOWNLOAD_WINDOW
    <3>1. PICK l \in Nat : 1 .. l \subseteq stored /\ h <= l + BLOCK_DOWNLOAD_WINDOW
      BY <2>1, <2>4 DEF DownloadInv
    <3>2. 1 .. l \subseteq stored'
      BY <2>1, <3>1
    <3> QED BY <3>1, <3>2
  <2>5. /\ stored' \subseteq Hash /\ 1 .. tip \subseteq stored'
        /\ \A p \in Node : 1 .. pindexLastCommonBlock[p] \subseteq stored'
    BY <1>1, <2>1 DEF DownloadInv
  <2>6. /\ tip \in Nat /\ pindexBestKnownBlock \in [Node -> Nat]
        /\ pindexLastCommonBlock \in [Node -> Nat]
    BY DEF DownloadInv
  <2> QED BY <1>0, <2>3, <2>4, <2>5, <2>6 DEF DownloadInv
<1>3. CASE FinishBlock
  <2>1. stored' = stored
    BY <1>3 DEF FinishBlock
  <2>2. \A p \in Node : vBlocksInFlight'[p] = vBlocksInFlight[p] \ {msg.hash}
    <3>1. CASE RemoveBlockRequests(msg.hash)
      <4>1. vBlocksInFlight' = ListsWithout(msg.hash)
        BY <3>1 DEF RemoveBlockRequests
      <4> QED BY <1>1, <4>1, ReleasedLemma, Zenon
    <3>2. CASE ~ IsBlockRequested(msg.hash) /\ UNCHANGED trackerVars
      <4>1. RequestedFrom(msg.hash) = {}
        BY <3>2, EmptySeqLemma DEF IsBlockRequested, RequestedFrom
      <4>2. \A p \in Node : msg.hash \notin vBlocksInFlight[p]
        BY <1>1, <4>1 DEF TrackerInv, RequestsAgree
      <4>3. vBlocksInFlight' = vBlocksInFlight
        BY <3>2 DEF trackerVars, requestVars
      <4> QED BY <4>2, <4>3
    <3> QED BY <1>3, <3>1, <3>2, Zenon DEF FinishBlock
  <2>3. ASSUME NEW p \in Node \ FetchTargets, NEW h \in vBlocksInFlight'[p],
               h \in stored \ Submitted
        PROVE  FALSE
    BY <2>2, <2>3 DEF DownloadInv
  <2>4. \A p \in Node \ FetchTargets : \A h \in vBlocksInFlight'[p] :
          \E l \in Nat : 1 .. l \subseteq stored /\ h <= l + BLOCK_DOWNLOAD_WINDOW
    BY <2>2 DEF DownloadInv
  <2>5. /\ tip \in Nat /\ stored \subseteq Hash /\ 1 .. tip \subseteq stored
        /\ pindexBestKnownBlock \in [Node -> Nat]
        /\ pindexLastCommonBlock \in [Node -> Nat]
        /\ \A p \in Node : 1 .. pindexLastCommonBlock[p] \subseteq stored
    BY DEF DownloadInv
  <2> QED BY <1>0, <2>1, <2>3, <2>4, <2>5 DEF DownloadInv
<1> QED BY <1>2, <1>3

(***************************************************************************)
(* The other steps make no request to anybody but a target of              *)
(* getblockfrompeer.                                                       *)
(***************************************************************************)
LEMMA OtherStepsInv ==
    ASSUME TrackerInv, DownloadInv,
           \/ UNCHANGED vars
           \/ \E p \in Node : \/ Connect(p) \/ ConnectionLost(p) \/ DeleteNode(p)
                               \/ ReceiveHeaders(p) \/ SendTimeout(p)
           \/ \E p \in Node, h \in Hash : ReceiveBlock(p, h)
           \/ RejectBlock \/ ConnectTip
           \/ \E h \in Submitted : SubmitBlock(h)
           \/ \E p \in FetchTargets, h \in Hash : FetchBlock(p, h)
    PROVE  DownloadInv'
<1>0. /\ tip \in Nat /\ stored \subseteq Hash /\ 1 .. tip \subseteq stored
      /\ pindexBestKnownBlock \in [Node -> Nat]
      /\ pindexLastCommonBlock \in [Node -> Nat]
      /\ \A p \in Node : 1 .. pindexLastCommonBlock[p] \subseteq stored
      /\ vBlocksInFlight \in [Node -> SUBSET Hash]
  BY DEF DownloadInv, TrackerInv, TrackerTypeOK
<1>1. CASE UNCHANGED <<vBlocksInFlight, downloadVars>>
  BY <1>0, <1>1, NoRequestInv DEF downloadVars
<1>2. CASE UNCHANGED vars
  BY <1>1, <1>2 DEF vars, trackerVars, requestVars
<1>3. ASSUME NEW p \in Node, Connect(p) PROVE DownloadInv'
  BY <1>1, <1>3 DEF Connect, InitializeNodeState, InitializePeer, requestVars
<1>4. ASSUME NEW p \in Node, ConnectionLost(p) \/ SendTimeout(p) PROVE DownloadInv'
  <2>1. /\ vBlocksInFlight' = vBlocksInFlight /\ stored' = stored /\ tip' = tip /\ msg' = msg
        /\ pindexBestKnownBlock' = pindexBestKnownBlock
        /\ pindexLastCommonBlock' = pindexLastCommonBlock
    BY <1>4, Zenon DEF ConnectionLost, SendTimeout, trackerVars, requestVars
  <2> QED BY <1>0, <2>1, NoRequestInv, Zenon
<1>5. ASSUME NEW p \in Node, DeleteNode(p) PROVE DownloadInv'
  <2>1. /\ stored' = stored /\ tip' = tip /\ msg' = msg
        /\ pindexBestKnownBlock' = [pindexBestKnownBlock EXCEPT ![p] = 0]
        /\ pindexLastCommonBlock' = [pindexLastCommonBlock EXCEPT ![p] = 0]
        /\ vBlocksInFlight' = [vBlocksInFlight EXCEPT ![p] = {}]
    BY <1>5, Zenon DEF DeleteNode, FinalizeNode
  <2>2. \A q \in Node : vBlocksInFlight'[q] \subseteq vBlocksInFlight[q]
    BY <1>0, <2>1
  <2>3. \A q \in Node : 1 .. pindexLastCommonBlock'[q] \subseteq stored
    BY <1>0, <2>1
  <2> QED BY <1>0, <2>1, <2>2, <2>3, NoRequestInv, Zenon
<1>6. ASSUME NEW p \in Node, ReceiveHeaders(p) PROVE DownloadInv'
  <2>1. /\ vBlocksInFlight' = vBlocksInFlight /\ stored' = stored /\ tip' = tip /\ msg' = msg
        /\ pindexBestKnownBlock' = [pindexBestKnownBlock EXCEPT ![p] = Announced[p]]
        /\ pindexLastCommonBlock' = pindexLastCommonBlock
    BY <1>6 DEF ReceiveHeaders, trackerVars, requestVars
  <2>2. Announced[p] \in Nat
    BY ChainAssumption, HashAssumption, FS_CardinalityType
  <2> QED BY <1>0, <2>1, <2>2, NoRequestInv
<1>7. ASSUME NEW p \in Node, NEW h \in Hash, ReceiveBlock(p, h) PROVE DownloadInv'
  <2>1. /\ stored' = stored /\ tip' = tip /\ msg = Idle
        /\ pindexBestKnownBlock' = pindexBestKnownBlock
        /\ pindexLastCommonBlock' = pindexLastCommonBlock
    BY <1>7, Zenon DEF ReceiveBlock, Serving
  <2>2. \A q \in Node : vBlocksInFlight'[q] \subseteq vBlocksInFlight[q]
    BY <1>0, <1>7, Zenon DEF ReceiveBlock, RemoveBlockRequestFrom, trackerVars, requestVars
  <2>3. msg.at # "stored"
    BY <2>1 DEF Idle
  <2> QED BY <1>0, <2>1, <2>2, <2>3, NoRequestInv, Zenon
<1>8. CASE RejectBlock
  <2>1. /\ vBlocksInFlight' = vBlocksInFlight /\ stored' = stored /\ tip' = tip
        /\ msg.at # "stored"
        /\ pindexBestKnownBlock' = pindexBestKnownBlock
        /\ pindexLastCommonBlock' = pindexLastCommonBlock
    BY <1>8 DEF RejectBlock, RejectEffect, trackerVars, requestVars
  <2> QED BY <1>0, <2>1, NoRequestInv, Zenon
<1>9. CASE ConnectTip
  <2>1. /\ vBlocksInFlight' = vBlocksInFlight /\ stored' = stored /\ msg' = msg
        /\ tip' = tip \/ (tip' = tip + 1 /\ tip + 1 \in stored)
        /\ pindexBestKnownBlock' = pindexBestKnownBlock
        /\ pindexLastCommonBlock' = pindexLastCommonBlock
    BY <1>9 DEF ConnectTip, CanConnect, trackerVars, requestVars
  <2>2. tip' \in Nat /\ 1 .. tip' \subseteq stored
    <3>1. CASE tip' = tip
      BY <1>0, <3>1
    <3>2. CASE tip' = tip + 1 /\ tip + 1 \in stored
      <4>1. 1 .. (tip + 1) = 1 .. tip \cup {tip + 1}
        BY <1>0
      <4> QED BY <1>0, <3>2, <4>1
    <3> QED BY <2>1, <3>1, <3>2
  <2> QED BY <1>0, <2>1, <2>2, NoRequestInv, Zenon
<1>10. ASSUME NEW h \in Submitted, SubmitBlock(h) PROVE DownloadInv'
  <2>1. /\ vBlocksInFlight' = vBlocksInFlight /\ tip' = tip /\ msg' = msg
        /\ stored' = stored \/ stored' = stored \cup {h}
        /\ pindexBestKnownBlock' = pindexBestKnownBlock
        /\ pindexLastCommonBlock' = pindexLastCommonBlock
    BY <1>10, Zenon DEF SubmitBlock, RejectEffect, trackerVars, requestVars
  <2>2. stored \subseteq stored' /\ stored' \subseteq Hash /\ stored' \ stored \subseteq Submitted
    BY <1>0, <2>1, ChainAssumption
  <2>3. 1 .. tip' \subseteq stored' /\ \A p \in Node : 1 .. pindexLastCommonBlock'[p] \subseteq stored'
    BY <1>0, <2>1
  <2> QED BY <1>0, <2>1, <2>2, <2>3, NoRequestInv
<1>11. ASSUME NEW p \in FetchTargets, NEW h \in Hash, FetchBlock(p, h) PROVE DownloadInv'
  <2>1. CASE FetchBlockRequest(p, h)
    <3>1. /\ vBlocksInFlight' = [ListsWithout(h) EXCEPT ![p] = @ \cup {h}]
          /\ UNCHANGED downloadVars
      BY <1>11, <2>1 DEF FetchBlock, FetchBlockRequest
    <3>2. /\ ListsWithout(h) \in [Node -> SUBSET Hash]
          /\ \A q \in Node : ListsWithout(h)[q] = vBlocksInFlight[q] \ {h}
      BY ReleasedLemma, Zenon
    <3>3. \A q \in Node \ FetchTargets : vBlocksInFlight'[q] \subseteq vBlocksInFlight[q]
      BY <3>1, <3>2, Zenon
    <3> QED BY <1>0, <3>1, <3>3, NoRequestInv, Zenon DEF downloadVars
  <2>2. CASE FetchBlockLookup(p, h) \/ FetchBlockAbort(p, h)
    BY <1>1, <1>11, <2>2 DEF FetchBlock, FetchBlockLookup, FetchBlockAbort, requestVars
  <2> QED BY <1>11, <2>1, <2>2, Zenon DEF FetchBlock
<1> QED BY <1>2, <1>3, <1>4, <1>5, <1>6, <1>7, <1>8, <1>9, <1>10, <1>11

(***************************************************************************)
(* The invariant of the download holds in every reachable state.           *)
(***************************************************************************)
THEOREM DownloadInvariant == Spec => [](TrackerInv /\ MsgInv /\ DownloadInv)
<1>1. Init => TrackerInv /\ MsgInv /\ DownloadInv
  <2> SUFFICES ASSUME Init PROVE TrackerInv /\ MsgInv /\ DownloadInv
    OBVIOUS
  <2>1. 1 .. 0 = {}
    OBVIOUS
  <2>2. DownloadInv
    BY <2>1 DEF Init, TrackerInit, DownloadInv
  <2> QED BY <2>2, TrackerInitInv DEF Init, MsgInv
<1>2. TrackerInv /\ MsgInv /\ DownloadInv /\ [Next]_vars
        => TrackerInv' /\ MsgInv' /\ DownloadInv'
  <2> SUFFICES ASSUME TrackerInv, MsgInv, DownloadInv, [Next]_vars
               PROVE  TrackerInv' /\ MsgInv' /\ DownloadInv'
    OBVIOUS
  <2>1. TrackerInv' /\ MsgInv'
    BY DownloadStep, TrackerNextInv
  <2>2. DownloadInv'
    BY SendGetDataInv, StoreFinishInv, OtherStepsInv DEF Next
  <2> QED BY <2>1, <2>2
<1> QED BY <1>1, <1>2, PTL DEF Spec

(***************************************************************************)
(* No peer but a target of getblockfrompeer is ever asked for a block      *)
(* further ahead of what we have without a gap than the download window.   *)
(***************************************************************************)
THEOREM RequestsAlwaysInWindow == Spec => []RequestsInWindow
<1>1. TrackerInv /\ DownloadInv => RequestsInWindow
  <2> SUFFICES ASSUME TrackerInv, DownloadInv, NEW h \in Hash, NEW p \in RequestedFrom(h),
                      p \notin FetchTargets
               PROVE  h <= Linked + BLOCK_DOWNLOAD_WINDOW
    BY DEF RequestsInWindow
  <2>1. p \in Node
    BY DEF TrackerInv, TrackerTypeOK, RequestedFrom, Range
  <2>2. h \in vBlocksInFlight[p]
    BY <2>1 DEF TrackerInv, RequestsAgree
  <2>3. PICK l \in Nat : 1 .. l \subseteq stored /\ h <= l + BLOCK_DOWNLOAD_WINDOW
    BY <2>1, <2>2 DEF DownloadInv
  <2>4. Linked \in Nat /\ l <= Linked
    BY <2>3, LinkedLemma DEF DownloadInv
  <2>5. h \in Nat /\ BLOCK_DOWNLOAD_WINDOW \in Nat
    BY HashAssumption, ChainAssumption, FS_CardinalityType
  <2> QED BY <2>3, <2>4, <2>5
<1> QED BY <1>1, DownloadInvariant, PTL

(***************************************************************************)
(* Between messages no peer but a target of getblockfrompeer owes us a     *)
(* block that is stored, unless it came by submitblock.                    *)
(***************************************************************************)
THEOREM NoStoredBlockEverRequested == Spec => []NoStoredBlockRequested
<1>1. TrackerInv /\ DownloadInv => NoStoredBlockRequested
  <2> SUFFICES ASSUME TrackerInv, DownloadInv, msg = Idle, NEW h \in stored \ Submitted,
                      NEW p \in RequestedFrom(h), p \notin FetchTargets
               PROVE  FALSE
    BY DEF NoStoredBlockRequested
  <2>0. h \in Hash
    BY DEF DownloadInv
  <2>1. p \in Node
    BY <2>0 DEF TrackerInv, TrackerTypeOK, RequestedFrom, Range
  <2>2. h \in vBlocksInFlight[p]
    BY <2>0, <2>1 DEF TrackerInv, RequestsAgree
  <2>3. msg.at = "stored"
    BY <2>1, <2>2 DEF DownloadInv
  <2> QED BY <2>3 DEF Idle
<1> QED BY <1>1, DownloadInvariant, PTL

(***************************************************************************)
(* Only known blocks are marked invalid.                                   *)
(***************************************************************************)
FailedInHash == failed \subseteq Hash

(***************************************************************************)
(* BLOCK_FAILED_VALID is only set on blocks whose header is known.         *)
(***************************************************************************)
LEMMA FailedKnown == Spec => []FailedInHash
<1>1. Init => FailedInHash
  BY DEF Init, FailedInHash
<1>2. DownloadInv /\ FailedInHash /\ [Next]_vars => FailedInHash'
  <2> SUFFICES ASSUME DownloadInv, failed \subseteq Hash, [Next]_vars
               PROVE  failed' \subseteq Hash
    BY DEF FailedInHash
  <2>1. CASE UNCHANGED failed
    BY <2>1
  <2>2. ASSUME NEW h, NEW r, RejectEffect(h, r) PROVE failed' \subseteq Hash
    BY <2>2, ChainAssumption DEF RejectEffect
  <2>3. CASE ConnectTip
    BY <2>3 DEF ConnectTip, CanConnect, DownloadInv
  <2>4. CASE \E p \in Node : \/ Connect(p) \/ ConnectionLost(p) \/ DeleteNode(p)
                             \/ ReceiveHeaders(p) \/ SendTimeout(p) \/ SendGetData(p)
                             \/ \E h \in Hash : ReceiveBlock(p, h)
    BY <2>1, <2>4, Zenon
       DEF Connect, downloadVars, ConnectionLost, DeleteNode, ReceiveHeaders, SendTimeout,
           SendGetData, ReceiveBlock
  <2>5. CASE StoreBlock \/ FinishBlock \/ UNCHANGED vars
             \/ \E p \in FetchTargets, h \in Hash : FetchBlock(p, h)
    BY <2>1, <2>5 DEF StoreBlock, FinishBlock, vars, downloadVars, FetchBlock
  <2>6. CASE RejectBlock \/ \E h \in Submitted : SubmitBlock(h)
    BY <2>1, <2>2, <2>6, Zenon DEF RejectBlock, SubmitBlock
  <2> QED BY <2>3, <2>4, <2>5, <2>6 DEF Next
<1> QED BY <1>1, <1>2, DownloadInvariant, PTL DEF Spec

(***************************************************************************)
(* The steps other than SendMessages start no stall timer.                 *)
(***************************************************************************)
LEMMA NoTimerStarted ==
    ASSUME TrackerInv,
           \/ UNCHANGED vars
           \/ \E p \in Node : \/ Connect(p) \/ ConnectionLost(p) \/ DeleteNode(p)
                               \/ ReceiveHeaders(p) \/ SendTimeout(p)
           \/ \E p \in Node, h \in Hash : ReceiveBlock(p, h)
           \/ StoreBlock \/ RejectBlock \/ ConnectTip \/ FinishBlock
           \/ \E h \in Submitted : SubmitBlock(h)
           \/ \E p \in FetchTargets, h \in Hash : FetchBlock(p, h),
           NEW q \in Node, m_stalling_since'[q]
    PROVE  m_stalling_since[q]
<1>0. m_stalling_since \in [Node -> BOOLEAN]
  BY DEF TrackerInv, TrackerTypeOK
<1>1. CASE UNCHANGED m_stalling_since
  BY <1>1
<1>2. ASSUME NEW p \in Node, m_stalling_since' = [m_stalling_since EXCEPT ![p] = FALSE]
      PROVE  m_stalling_since[q]
  BY <1>0, <1>2
<1>3. ASSUME NEW h \in Hash, m_stalling_since' = ClearedFor(h, m_stalling_since)
      PROVE  m_stalling_since[q]
  BY <1>0, <1>3, Zenon DEF ClearedFor
<1>4. ASSUME NEW p \in Node, Connect(p) PROVE m_stalling_since[q]
  BY <1>1, <1>4 DEF Connect, InitializeNodeState, InitializePeer, requestVars
<1>5. ASSUME NEW p \in Node, ConnectionLost(p) \/ ReceiveHeaders(p) \/ SendTimeout(p)
      PROVE  m_stalling_since[q]
  BY <1>1, <1>5, Zenon
     DEF ConnectionLost, ReceiveHeaders, SendTimeout, trackerVars, requestVars
<1>6. ASSUME NEW p \in Node, DeleteNode(p) PROVE m_stalling_since[q]
  BY <1>2, <1>6, Zenon DEF DeleteNode, FinalizeNode
<1>7. ASSUME NEW p \in Node, NEW h \in Hash, ReceiveBlock(p, h) PROVE m_stalling_since[q]
  BY <1>1, <1>2, <1>7 DEF ReceiveBlock, RemoveBlockRequestFrom, trackerVars, requestVars
<1>8. CASE StoreBlock \/ RejectBlock \/ ConnectTip \/ \E h \in Submitted : SubmitBlock(h)
  BY <1>1, <1>8, Zenon DEF StoreBlock, RejectBlock, ConnectTip, SubmitBlock, RejectEffect,
                    trackerVars, requestVars
<1>9. CASE FinishBlock
  <2>1. CASE RemoveBlockRequests(msg.hash)
    BY <1>0, <2>1 DEF RemoveBlockRequests, ClearedFor
  <2>2. CASE UNCHANGED trackerVars
    BY <1>1, <2>2, Zenon DEF trackerVars, requestVars
  <2> QED BY <1>9, <2>1, <2>2, Zenon DEF FinishBlock
<1>10. ASSUME NEW p \in FetchTargets, NEW h \in Hash, FetchBlock(p, h)
       PROVE  m_stalling_since[q]
  BY <1>1, <1>3, <1>10 DEF FetchBlock, FetchBlockLookup, FetchBlockRequest, FetchBlockAbort,
                           requestVars
<1>11. CASE UNCHANGED vars
  BY <1>1, <1>11 DEF vars, trackerVars, requestVars
<1> QED BY <1>4, <1>5, <1>6, <1>7, <1>8, <1>9, <1>10, <1>11, Zenon

(***************************************************************************)
(* The block just past the window of FindNextBlocks has a height.          *)
(***************************************************************************)
LEMMA WindowEndType ==
    ASSUME NEW p, WalkStart(p) \in Nat
    PROVE  nWindowEnd(p) + 1 \in Nat
<1>1. BLOCK_DOWNLOAD_WINDOW \in Nat
  BY ChainAssumption
<1> QED BY <1>1 DEF nWindowEnd

(***************************************************************************)
(* What FindNextBlocks checks of a block before it looks at its requests.  *)
(***************************************************************************)
LEMMA WalkedLemma ==
    ASSUME NEW p, NEW a \in InFlightWalked(p)
    PROVE  /\ a \in Hash /\ a <= pindexBestKnownBlock[p]
           /\ a <= nWindowEnd(p) + 1
           /\ \A g \in failed : a < g
BY DEF InFlightWalked, Walked

(***************************************************************************)
(* SendMessages starts the timer of the first peer asked for the lowest    *)
(* missing block in flight.                                                *)
(***************************************************************************)
LEMMA TimerStarted ==
    ASSUME TrackerInv, DownloadInv, failed \subseteq Hash, NEW p \in Node, SendGetData(p),
           NEW q \in Node, ~ m_stalling_since[q], m_stalling_since'[q],
           NEW h \in Hash \ stored, IsBlockRequested(h)
    PROVE  \E g \in vBlocksInFlight[q] \ stored : g <= h
<1>0. Cardinality(Hash) \in Nat /\ Hash = 1 .. Cardinality(Hash)
  BY HashAssumption, ChainAssumption, FS_CardinalityType, Zenon
<1>1. PICK s \in Staller(p) : StallStart(s, Awaited(p))
  BY DEF SendGetData, SendRequests, RequestEffect, trackerVars, requestVars
<1>2. InFlightWalked(p) # {} /\ InFlightWalked(p) \subseteq Hash
  BY <1>1, Zenon DEF Staller, WaitingFor, InFlightWalked, Walked
<1>3. Awaited(p) \in InFlightWalked(p) /\ \A y \in InFlightWalked(p) : Awaited(p) <= y
  <2>1. \E x \in InFlightWalked(p) : \A y \in InFlightWalked(p) : x <= y
    BY <1>0, <1>2, LowestExists, Zenon
  <2> QED BY <2>1 DEF Awaited, Min
<1>4. q = s
  BY <1>1 DEF StallStart, TrackerInv, TrackerTypeOK
<1>5. Awaited(p) \in vBlocksInFlight[q] \ stored
  <2>1. Awaited(p) \in Hash /\ Awaited(p) \notin stored
    BY <1>2, <1>3 DEF InFlightWalked
  <2>2. /\ mapBlocksInFlight[Awaited(p)] \in Seq(Node)
        /\ mapBlocksInFlight[Awaited(p)] # <<>>
        /\ q = Head(mapBlocksInFlight[Awaited(p)])
    BY <1>1, <1>4, <2>1 DEF StallStart, IsBlockRequested, TrackerInv, TrackerTypeOK
  <2>3. q \in RequestedFrom(Awaited(p))
    BY <2>2, HeadLemma, Zenon DEF RequestedFrom
  <2> QED BY <2>1, <2>3, Zenon DEF TrackerInv, RequestsAgree
<1>6. Awaited(p) <= h
  <2>1. CASE h \in Walked(p)
    BY <1>3, <2>1 DEF InFlightWalked
  <2>2. CASE h \notin Walked(p)
    <3>1. WalkStart(p) \in Nat /\ 1 .. WalkStart(p) \subseteq stored
      BY WalkLemma
    <3>2. WalkStart(p) < h /\ h \in Nat
      BY <1>0, <3>1
    <3>3. /\ Awaited(p) \in Nat /\ Awaited(p) <= pindexBestKnownBlock[p]
          /\ Awaited(p) <= nWindowEnd(p) + 1
          /\ \A g \in failed : Awaited(p) < g
      <4>1. /\ Awaited(p) \in Hash /\ Awaited(p) <= pindexBestKnownBlock[p]
            /\ Awaited(p) <= nWindowEnd(p) + 1
            /\ \A g \in failed : Awaited(p) < g
        BY <1>3, WalkedLemma
      <4>2. Awaited(p) \in Nat
        BY <1>0, <4>1
      <4> QED BY <4>1, <4>2, Zenon
    <3>4. pindexBestKnownBlock[p] \in Nat /\ nWindowEnd(p) + 1 \in Nat
      <4>1. pindexBestKnownBlock[p] \in Nat
        BY DEF DownloadInv
      <4> QED BY <3>1, <4>1, WindowEndType, Zenon
    <3>5. \/ ~ (h <= pindexBestKnownBlock[p])
          \/ ~ (h <= nWindowEnd(p) + 1)
          \/ \E g \in failed : ~ (h < g)
      BY <2>2, <3>2, Zenon DEF Walked
    <3>6. ASSUME NEW g \in failed, ~ (h < g) PROVE Awaited(p) <= h
      BY <1>0, <3>2, <3>3, <3>6
    <3>7. CASE ~ (h <= pindexBestKnownBlock[p])
      BY <3>2, <3>3, <3>4, <3>7
    <3>8. CASE ~ (h <= nWindowEnd(p) + 1)
      BY <3>2, <3>3, <3>4, <3>8
    <3> QED BY <3>5, <3>6, <3>7, <3>8
  <2> QED BY <2>1, <2>2
<1> QED BY <1>5, <1>6, Zenon

(***************************************************************************)
(* Whenever a stall timer is started, its peer owes a missing block and no *)
(* missing block in flight comes before it.                                *)
(***************************************************************************)
THEOREM StallerAlwaysHasFirstRequest == Spec => StallerHasFirstRequest
<1> DEFINE FirstOwed ==
        \A p \in Node : ~ m_stalling_since[p] /\ m_stalling_since'[p] =>
          \A h \in Hash \ stored :
             IsBlockRequested(h) => \E g \in vBlocksInFlight[p] \ stored : g <= h
<1>1. TrackerInv /\ DownloadInv /\ FailedInHash /\ [Next]_vars => FirstOwed
  BY NoTimerStarted, TimerStarted, Zenon DEF Next, FailedInHash
<1>2. TrackerInv /\ DownloadInv /\ FailedInHash /\ [Next]_vars => [FirstOwed]_vars
  BY <1>1
<1>3. Spec => [][FirstOwed]_vars
  <2> HIDE DEF FirstOwed
  <2> QED BY <1>2, DownloadInvariant, FailedKnown, PTL DEF Spec
<1> QED BY <1>3 DEF StallerHasFirstRequest

(***************************************************************************)
(* Only a request for a compact block takes the last slot of a block: the  *)
(* other requests are for blocks nobody is asked for.                      *)
(***************************************************************************)
LEMMA FullListKept ==
    ASSUME TrackerInv, [QuietNext]_trackerVars, NEW h \in Hash,
           MAX_CMPCTBLOCKS_INFLIGHT_PER_BLOCK > 1,
           Len(mapBlocksInFlight'[h]) = MAX_CMPCTBLOCKS_INFLIGHT_PER_BLOCK
    PROVE  mapBlocksInFlight'[h] = mapBlocksInFlight[h]
<1> DEFINE s == mapBlocksInFlight[h]
           t == mapBlocksInFlight'[h]
           limit == MAX_CMPCTBLOCKS_INFLIGHT_PER_BLOCK
<1>1. /\ s \in Seq(Node) /\ IsInjective(s) /\ mapBlocksInFlight \in [Hash -> Seq(Node)]
      /\ Len(s) \in Nat /\ Len(s) <= limit
  BY DEF TrackerInv, TrackerTypeOK, RequestsAgree, RequestsPerBlockBounded
<1>2. limit \in Nat /\ limit > 1
  BY LimitAssumption
<1>3. ASSUME NEW q \in Range(s), t = Without(s, q) PROVE FALSE
  <2>1. Len(t) = Len(s) - 1
    BY <1>1, <1>3, WithoutFront
  <2> QED BY <1>1, <1>2, <2>1
<1>4. ASSUME UNCHANGED trackerVars PROVE t = s
  BY <1>4 DEF trackerVars, requestVars
<1>5. ASSUME NEW q \in Node, InitializeNodeState(q) \/ InitializePeer(q) PROVE t = s
  BY <1>5 DEF InitializeNodeState, InitializePeer, requestVars
<1>6. ASSUME NEW q \in Node, FinalizeNode(q) PROVE t = s
  <2>1. t = IF h \in vBlocksInFlight[q] THEN Without(s, q) ELSE s
    BY <1>6 DEF FinalizeNode
  <2>2. h \in vBlocksInFlight[q] => q \in Range(s)
    BY DEF TrackerInv, RequestsAgree, RequestedFrom
  <2> QED BY <1>3, <2>1, <2>2
<1>7. ASSUME NEW q \in Node, NEW H \in SUBSET Hash, RequestBlocks(q, H) PROVE t = s
  <2>1. t = s \/ (s = <<>> /\ t = Append(s, q))
    BY <1>7 DEF RequestBlocks, RequestEffect, IsBlockRequested
  <2>2. s = <<>> /\ t = Append(s, q) => Len(t) = 1
    BY <1>1
  <2> QED BY <1>2, <2>1, <2>2
<1>8. ASSUME NEW q \in Node, NEW g \in Hash, RequestAndGiveUp(q, g) \/ StallStart(q, g)
      PROVE  t = s
  BY <1>8 DEF RequestAndGiveUp, StallStart
<1>9. ASSUME NEW q \in Node, NEW g \in Hash, RemoveBlockRequestFrom(q, g) PROVE t = s
  <2>1. g = h => q \in Range(s) /\ t = Without(s, q)
    BY <1>1, <1>9 DEF RemoveBlockRequestFrom, RequestedFrom
  <2>2. g # h => t = s
    BY <1>1, <1>9 DEF RemoveBlockRequestFrom
  <2> QED BY <1>3, <2>1, <2>2
<1>10. ASSUME NEW g \in Hash, RemoveBlockRequests(g) PROVE t = s
  <2>1. t = s \/ t = <<>>
    BY <1>1, <1>10 DEF RemoveBlockRequests
  <2> QED BY <1>2, <2>1
<1>11. ASSUME NEW q \in FetchTargets, NEW g \in Hash, FetchBlockRequest(q, g) PROVE t = s
  <2>1. t = s \/ t = <<q>>
    BY <1>1, <1>11 DEF FetchBlockRequest
  <2>2. Len(<<q>>) = 1 /\ Len(t) = limit
    OBVIOUS
  <2> HIDE DEF s, t, limit
  <2>3. t # <<q>>
    BY <1>2, <2>2
  <2> QED BY <2>1, <2>3
<1>12. ASSUME NEW q \in FetchTargets, NEW g \in Hash,
              FetchBlockLookup(q, g) \/ FetchBlockAbort(q, g)
       PROVE  t = s
  BY <1>12 DEF FetchBlockLookup, FetchBlockAbort, requestVars
<1> HIDE DEF s, t
<1>13. t = s
  BY <1>4, <1>5, <1>6, <1>7, <1>8, <1>9, <1>10, <1>11, <1>12, Zenon DEF QuietNext
<1> QED BY <1>13 DEF s, t
============================================================================
