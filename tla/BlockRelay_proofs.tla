------------------------- MODULE BlockRelay_proofs -------------------------
(***************************************************************************)
(* Compact block relay implements the request bookkeeping too, and its own *)
(* bookkeeping of reconstructions and sources is right, for any number of  *)
(* peers and blocks and any limits.                                        *)
(***************************************************************************)
EXTENDS BlockRelay, BlockDownload_proofs

(***************************************************************************)
(* HEADERS and the direct fetch of the blocks it announces.                *)
(***************************************************************************)
LEMMA HeadersActions ==
    ASSUME TrackerInv, MsgInv, ~ aborted,
           \/ \E p \in Node, h \in Hash : Headers(p, h)
           \/ HeadersDirectFetchBlocks
    PROVE  [QuietNext]_trackerVars /\ MsgInv'
<1>1. ASSUME NEW p \in Node, NEW h \in Hash, Headers(p, h)
      PROVE  [QuietNext]_trackerVars /\ MsgInv'
  <2>1. /\ UNCHANGED trackerVars /\ p \in m_peer_map
        /\ msg' = msg \/ msg' = [at |-> "headers", peer |-> p, hash |-> h]
    BY <1>1 DEF Headers, Serving
  <2> QED BY <2>1 DEF MsgInv, trackerVars, lifeVars
<1>2. CASE HeadersDirectFetchBlocks
  <2>1. msg # Idle /\ msg' = Idle
    BY <1>2 DEF HeadersDirectFetchBlocks, Idle
  <2>2. msg.peer \in m_node_states /\ msg.peer \in Node
    BY <2>1, MsgBusy
  <2>3. ASSUME SendRequests(msg.peer, DirectFetch(msg.peer, msg.hash)) PROVE QuietNext
    <3> DEFINE S == DirectFetch(msg.peer, msg.hash)
               T == ToFetch(msg.hash)
    <3>1. T \in SUBSET Hash /\ \A g \in T : ~ IsBlockRequested(g)
      BY DEF ToFetch
    <3>2. S # {}
      BY <2>3 DEF SendRequests
    <3>3. S = {g \in T : Cardinality({f \in T : f < g}) < InflightBudget(msg.peer)}
      BY <3>2, Zenon DEF DirectFetch
    <3>4. SendRequests(msg.peer, S)
      BY <2>3
    <3> HIDE DEF S, T
    <3>5. RequestBlocks(msg.peer, S) /\ S \in SUBSET Hash
      BY <2>2, <3>1, <3>3, <3>4, LowestRequested, Zenon
    <3> QED BY <2>2, <3>5 DEF QuietNext
  <2> QED BY <1>2, <2>1, <2>3 DEF HeadersDirectFetchBlocks, MsgInv
<1> QED BY <1>1, <1>2

(***************************************************************************)
(* CMPCTBLOCK.                                                             *)
(***************************************************************************)
LEMMA CmpctBlockStep ==
    ASSUME TrackerInv, MsgInv, ~ aborted, NEW p \in Node, NEW h \in Hash, CmpctBlock(p, h)
    PROVE  [TrackerNext]_trackerVars /\ MsgInv'
<1>0. p \in m_peer_map /\ msg = Idle
  BY DEF CmpctBlock, Serving
<1>1. \/ UNCHANGED <<trackerVars, msg>>
      \/ CompactAsHeaders(p, h) \/ CompactOptimistic(p, h)
      \/ \E status \in {"failed", "missing", "complete"} : CompactKept(p, h, status)
      \/ \E status \in {"invalid", "failed", "missing"} : CompactGivenUp(p, h, status)
  BY DEF CmpctBlock
<1>2. CASE UNCHANGED <<trackerVars, msg>>
  BY <1>0, <1>2 DEF MsgInv
<1>3. CASE CompactAsHeaders(p, h) \/ CompactOptimistic(p, h)
  BY <1>0, <1>3 DEF CompactAsHeaders, CompactOptimistic, MsgInv, trackerVars, lifeVars
<1>4. ASSUME NEW status \in {"failed", "missing", "complete"}, CompactKept(p, h, status)
      PROVE  [TrackerNext]_trackerVars /\ MsgInv'
  <2>1. RequestCompactBlock(p, h)
    BY <1>4 DEF CompactKept
  <2>2. m_peer_map' = m_peer_map
    BY <2>1 DEF RequestCompactBlock, lifeVars
  <2>3. msg' = msg \/ msg' = [at |-> "txns", peer |-> p, hash |-> h]
    BY <1>4 DEF CompactKept
  <2> QED BY <1>0, <2>1, <2>2, <2>3 DEF TrackerNext, MsgInv
<1>5. ASSUME NEW status \in {"invalid", "failed", "missing"}, CompactGivenUp(p, h, status)
      PROVE  [TrackerNext]_trackerVars /\ MsgInv'
  <2>1. RemoveBlockRequestFrom(p, h) \/ RequestAndGiveUp(p, h)
    BY <1>5 DEF CompactGivenUp
  <2>2. msg' = Idle
    BY <1>0, <1>5 DEF CompactGivenUp
  <2> QED BY <2>1, <2>2 DEF TrackerNext, MsgInv
<1> QED BY <1>1, <1>2, <1>3, <1>4, <1>5

(***************************************************************************)
(* BLOCKTXN, or a compact block that misses nothing.                       *)
(***************************************************************************)
LEMMA TxnsStep ==
    ASSUME TrackerInv, NEW p \in Node, NEW h \in Hash, NEW o, ~ aborted, p \in m_peer_map,
           ProcessCompactBlockTxns(p, h, o)
    PROVE  [QuietNext]_trackerVars /\ MsgInv'
<1>1. \/ RemoveBlockRequestFrom(p, h)
      \/ UNCHANGED trackerVars
  BY DEF ProcessCompactBlockTxns, TxnsInvalid, TxnsFailed, TxnsOk
<1>2. m_peer_map' = m_peer_map
  BY <1>1, Zenon DEF RemoveBlockRequestFrom, trackerVars, lifeVars
<1>3. msg' = Idle \/ msg' = [at |-> "accept", peer |-> p, hash |-> h, force |-> TRUE]
  BY DEF ProcessCompactBlockTxns, TxnsInvalid, TxnsFailed, TxnsOk
<1>4. [QuietNext]_trackerVars
  BY <1>1 DEF QuietNext
<1>5. MsgInv'
  BY <1>2, <1>3 DEF MsgInv
<1> QED BY <1>4, <1>5, Zenon

(***************************************************************************)
(* Every other step of the relay asks for no compact block.                *)
(***************************************************************************)
LEMMA QuietStep ==
    ASSUME TrackerInv, MsgInv, [RelayNext]_allVars,
           ~ \E p \in Node, h \in Hash : CmpctBlock(p, h)
    PROVE  [QuietNext]_trackerVars /\ MsgInv'
<1>1. CASE UNCHANGED allVars
  BY <1>1, Zenon DEF allVars, vars, downloadVars, trackerVars, lifeVars, MsgInv
<1>2. CASE RelayNext
  <2>0. ~ aborted
    BY <1>2 DEF RelayNext
  <2>1. CASE \E p \in Node : PeerStep(p)
    BY <2>0, <2>1, PeerActions DEF PeerStep
  <2>2. CASE HeadersDirectFetchBlocks \/ \E p \in Node, h \in Hash : Headers(p, h)
    BY <2>0, <2>2, HeadersActions
  <2>4. ASSUME NEW p \in Node, NEW h \in Hash, BlockTxn(p, h)
        PROVE  [QuietNext]_trackerVars /\ MsgInv'
    BY <2>0, <2>4, TxnsStep DEF BlockTxn, Serving
  <2>5. CASE CompleteCompactBlock
    <3>1. msg # Idle
      BY <2>5 DEF CompleteCompactBlock, Idle
    <3> QED BY <2>0, <2>5, <3>1, MsgBusy, TxnsStep DEF CompleteCompactBlock
  <2>6. CASE OptimisticSource
    <3>1. msg # Idle
      BY <2>6 DEF OptimisticSource, Idle
    <3>2. msg.peer \in m_peer_map /\ msg.hash \in Hash
      BY <3>1, MsgBusy
    <3> QED BY <2>6, <3>2 DEF OptimisticSource, MsgInv, trackerVars, lifeVars
  <2>7. ASSUME NEW p \in Node, NEW h \in Hash, MutatedBlock(p, h)
        PROVE  [QuietNext]_trackerVars /\ MsgInv'
    <3>1. RemoveBlockRequestFrom(p, h) /\ msg' = Idle
      BY <2>7 DEF MutatedBlock, Serving
    <3> QED BY <2>0, <3>1 DEF QuietNext, MsgInv
  <2>8. CASE Reject
    <3>0. msg.at = "accept" /\ UNCHANGED trackerVars
      BY <2>8 DEF Reject, RejectEffect
    <3>1. msg # Idle /\ UNCHANGED trackerVars
      BY <3>0 DEF Idle
    <3>2. msg.peer \in m_peer_map /\ msg.hash \in Hash
      BY <3>1, MsgBusy
    <3>3. msg' = Idle \/ msg' = [at |-> "clear", peer |-> msg.peer, hash |-> msg.hash]
      BY <2>8 DEF Reject
    <3> QED BY <3>1, <3>2, <3>3 DEF MsgInv, trackerVars, lifeVars
  <2>9. CASE ClearDownloadState
    <3>1. msg # Idle /\ msg' = Idle
      BY <2>9 DEF ClearDownloadState, Idle
    <3>2. RemoveBlockRequests(msg.hash) \/ UNCHANGED trackerVars
      BY <2>9 DEF ClearDownloadState
    <3> QED BY <2>0, <3>1, <3>2, MsgBusy DEF QuietNext, MsgInv
  <2>10. CASE \/ \E p \in Node, h \in Hash : Block(p, h)
              \/ Store \/ Connecting \/ Finish
              \/ \E h \in Submitted : Submit(h)
              \/ \E p \in FetchTargets, h \in Hash : Fetch(p, h)
    BY <2>0, <2>10, BlockActions, Zenon DEF Block, Store, Connecting, Finish, Submit, Fetch
  <2> QED BY <1>2, <2>1, <2>2, <2>4, <2>5, <2>6, <2>7, <2>8, <2>9, <2>10, Zenon
          DEF RelayNext
<1> QED BY <1>1, <1>2

(***************************************************************************)
(* Every step of the relay is a step of the tracker or leaves it alone.    *)
(***************************************************************************)
LEMMA RelayStep ==
    TrackerInv /\ MsgInv /\ [RelayNext]_allVars => [TrackerNext]_trackerVars /\ MsgInv'
<1> SUFFICES ASSUME TrackerInv, MsgInv, [RelayNext]_allVars
             PROVE  [TrackerNext]_trackerVars /\ MsgInv'
  OBVIOUS
<1>1. ASSUME NEW p \in Node, NEW h \in Hash, CmpctBlock(p, h)
      PROVE  [TrackerNext]_trackerVars /\ MsgInv'
  <2>1. CASE ~ aborted
    BY <1>1, <2>1, CmpctBlockStep
  <2>2. CASE aborted
    <3>1. UNCHANGED allVars
      BY <2>2 DEF RelayNext
    <3> QED BY <3>1, Zenon DEF allVars, vars, downloadVars, trackerVars, lifeVars, MsgInv
  <2> QED BY <2>1, <2>2
<1>2. CASE ~ \E p \in Node, h \in Hash : CmpctBlock(p, h)
  BY <1>2, QuietStep, QuietLemma
<1> QED BY <1>1, <1>2

(***************************************************************************)
(* Compact block relay implements the request bookkeeping too.             *)
(***************************************************************************)
THEOREM RelayImplementsTracker == RelaySpec => TrackerSpec
<1>1. RelayInit => TrackerInit /\ TrackerInv /\ MsgInv
  BY TrackerInitInv DEF RelayInit, Init, MsgInv
<1>2. TrackerInv /\ MsgInv /\ [RelayNext]_allVars
        => [TrackerNext]_trackerVars /\ TrackerInv' /\ MsgInv'
  BY RelayStep, TrackerNextInv
<1> QED BY <1>1, <1>2, PTL DEF RelaySpec, TrackerSpec

(***************************************************************************)
(* So all that is proved of the bookkeeping is true with compact block     *)
(* relay, direct fetch, submitblock and getblockfrompeer beside it.        *)
(***************************************************************************)
THEOREM RelayKeepsTracker ==
    RelaySpec => [](/\ RequestsAgree /\ DownloadingPeersCounted /\ RequestsPerBlockBounded
                    /\ RequestsPerPeerBounded /\ StallFlagsAgree /\ OnlyFetchAborts)
BY RelayImplementsTracker, RequestsAlwaysAgree, DownloadingPeersAlwaysCounted,
   RequestsPerBlockAlwaysBounded, RequestsPerPeerAlwaysBounded, StallFlagsAlwaysAgree,
   OnlyFetchEverAborts, PTL

----------------------------------------------------------------------------
(***************************************************************************)
(* The bookkeeping of the relay itself.                                    *)
(***************************************************************************)
Reconstruction == {"none", "header", "failed", "wiped"}

Source == [peer : Node, full : BOOLEAN, requested : BOOLEAN,
           outcome : {"none", "direct", "after_blocktxn", "fallback"}]

\* A block that was stored from a peer has its reconstructions dropped at once.
PartialsOK ==
    /\ partialBlock \in [Node -> [Hash -> Reconstruction]]
    /\ \A p \in Node, h \in Hash : partialBlock[p][h] # "none" =>
          /\ h \in vBlocksInFlight[p]
          /\ h \in DOMAIN supplier => msg.at = "stored" /\ msg.hash = h
    /\ OneFallback

\* A parallel attempt that misses nothing may take the last slot, for the time
\* between the two critical sections of its handler.
SlotsOK ==
    \A h \in Hash : Len(mapBlocksInFlight[h]) = MAX_CMPCTBLOCKS_INFLIGHT_PER_BLOCK =>
        \/ RequestedFrom(h) \cap Outbound # {}
        \/ /\ msg.at = "txns" /\ msg.hash = h
           /\ Head(mapBlocksInFlight[h]) # msg.peer
           /\ partialBlock[msg.peer][h] = "header"

\* Where stored and invalid blocks come from.
ChainOK ==
    /\ tip \in Nat /\ 1 .. tip \subseteq stored /\ stored \subseteq Hash
    /\ DOMAIN supplier \subseteq stored /\ stored \subseteq DOMAIN supplier \cup Submitted
    /\ failed \subseteq stored \cup ContextFails

\* The block that is on its way into ProcessNewBlock.
Accepting(h) == msg.at = "accept" /\ msg.hash = h

Pending(h) ==
    /\ mapBlockSource[h].full => h \in stored
    /\ \/ h > tip /\ h \notin failed
       \/ h \in Submitted \cup ContextFails /\ ~ mapBlockSource[h].full

SourcesOK ==
    /\ DOMAIN mapBlockSource \subseteq Hash
    /\ mapBlockSource \in [DOMAIN mapBlockSource -> Source]
    /\ \A h \in DOMAIN mapBlockSource :
          \/ Accepting(h) /\ mapBlockSource[h].peer = msg.peer
          \/ /\ ~ Accepting(h)
             /\ Pending(h)
             /\ h \in DOMAIN supplier => mapBlockSource[h].peer = supplier[h]

RelayInv == TrackerInv /\ MsgInv /\ PartialsOK /\ SlotsOK /\ ChainOK /\ SourcesOK

----------------------------------------------------------------------------
(***************************************************************************)
(* Reconstructions whose requests stay, and new ones: a new failure must   *)
(* be the first peer's.                                                    *)
(***************************************************************************)
LEMMA PartialsKept ==
    ASSUME TrackerInv, TrackerInv', [TrackerNext]_trackerVars, PartialsOK,
           partialBlock' \in [Node -> [Hash -> Reconstruction]],
           \A p \in Node, h \in Hash : partialBlock'[p][h] # "none" =>
               /\ \/ partialBlock'[p][h] \in {partialBlock[p][h], "header"}
                  \/ Head(mapBlocksInFlight'[h]) = p
               /\ h \in vBlocksInFlight'[p]
               /\ h \in DOMAIN supplier' => msg'.at = "stored" /\ msg'.hash = h
    PROVE  PartialsOK'
<1>1. ASSUME NEW p \in Node, NEW h \in Hash, partialBlock'[p][h] \in {"failed", "wiped"},
             Head(mapBlocksInFlight'[h]) # p
      PROVE  FALSE
  <2>1. partialBlock[p][h] \in {"failed", "wiped"} /\ h \in vBlocksInFlight'[p]
    BY <1>1
  <2>2. Head(mapBlocksInFlight[h]) = p /\ h \in vBlocksInFlight[p]
    BY <2>1, Zenon DEF PartialsOK, OneFallback
  <2>3. p \in Range(mapBlocksInFlight[h])
    BY <2>2 DEF TrackerInv, RequestsAgree, RequestedFrom
  <2>4. mapBlocksInFlight[h] # <<>>
    BY <2>3 DEF Range
  <2>5. p \in Range(mapBlocksInFlight'[h])
    BY <2>1, Zenon DEF TrackerInv, RequestsAgree, RequestedFrom
  <2> QED BY <1>1, <2>2, <2>4, <2>5, HeadKept, Zenon
<1> QED BY <1>1 DEF PartialsOK, OneFallback

(***************************************************************************)
(* A step that does not touch reconstructions but through the requests     *)
(* they belong to.  Once a block is stored from a peer, its                *)
(* reconstructions last no longer than the handler of that block.          *)
(***************************************************************************)
LEMMA PartialsFollow ==
    ASSUME TrackerInv, TrackerInv', [TrackerNext]_trackerVars, PartialsOK,
           partialBlock' = PartialsInFlight,
           supplier' = supplier, msg' = msg \/ msg.at # "stored"
    PROVE  PartialsOK'
<1>1. \A p \in Node, h \in Hash :
         partialBlock'[p][h] = IF h \in vBlocksInFlight'[p] THEN partialBlock[p][h] ELSE "none"
  BY DEF PartialsInFlight
<1>2. partialBlock' \in [Node -> [Hash -> Reconstruction]]
  BY DEF PartialsInFlight, PartialsOK, Reconstruction
<1>3. ASSUME NEW p \in Node, NEW h \in Hash, partialBlock'[p][h] # "none"
      PROVE  /\ partialBlock'[p][h] = partialBlock[p][h]
             /\ h \in vBlocksInFlight'[p]
             /\ h \in DOMAIN supplier' => msg'.at = "stored" /\ msg'.hash = h
  <2>1. partialBlock'[p][h] = partialBlock[p][h] /\ h \in vBlocksInFlight'[p]
    BY <1>1, <1>3
  <2>2. h \in DOMAIN supplier => msg.at = "stored" /\ msg.hash = h
    BY <1>3, <2>1 DEF PartialsOK
  <2> QED BY <2>1, <2>2
<1> QED BY <1>2, <1>3, PartialsKept

(***************************************************************************)
(* A step after which every peer still has the requests it had drops no    *)
(* reconstruction.                                                         *)
(***************************************************************************)
LEMMA NothingDropped ==
    ASSUME PartialsOK, \A p \in Node : vBlocksInFlight[p] \subseteq vBlocksInFlight'[p]
    PROVE  PartialsInFlight = partialBlock
<1>1. \A p \in Node, h \in Hash :
         (IF h \in vBlocksInFlight'[p] THEN partialBlock[p][h] ELSE "none") = partialBlock[p][h]
  BY DEF PartialsOK
<1>2. \A p \in Node :
         [h \in Hash |-> IF h \in vBlocksInFlight'[p] THEN partialBlock[p][h] ELSE "none"]
            = partialBlock[p]
  BY <1>1 DEF PartialsOK
<1> QED BY <1>2 DEF PartialsOK, PartialsInFlight

(***************************************************************************)
(* The slots of a block when no compact block is asked for.                *)
(***************************************************************************)
LEMMA SlotsKept ==
    ASSUME TrackerInv, [QuietNext]_trackerVars, SlotsOK,
           \/ msg.at # "txns"
           \/ /\ msg' = msg
              /\ \A h \in Hash :
                    /\ Len(mapBlocksInFlight'[h]) = MAX_CMPCTBLOCKS_INFLIGHT_PER_BLOCK
                    /\ mapBlocksInFlight'[h] = mapBlocksInFlight[h]
                    => partialBlock'[msg.peer][h] = partialBlock[msg.peer][h]
    PROVE  SlotsOK'
<1> SUFFICES ASSUME NEW h \in Hash,
                    Len(mapBlocksInFlight'[h]) = MAX_CMPCTBLOCKS_INFLIGHT_PER_BLOCK
             PROVE  \/ RequestedFrom(h)' \cap Outbound # {}
                    \/ /\ msg'.at = "txns" /\ msg'.hash = h
                       /\ Head(mapBlocksInFlight'[h]) # msg'.peer
                       /\ partialBlock'[msg'.peer][h] = "header"
  BY DEF SlotsOK
<1>1. mapBlocksInFlight'[h] = mapBlocksInFlight[h]
  BY FullListKept, RelayAssumption
<1>2. \/ RequestedFrom(h) \cap Outbound # {}
      \/ /\ msg.at = "txns" /\ msg.hash = h
         /\ Head(mapBlocksInFlight[h]) # msg.peer
         /\ partialBlock[msg.peer][h] = "header"
  BY <1>1 DEF SlotsOK
<1> QED BY <1>1, <1>2 DEF RequestedFrom

(***************************************************************************)
(* A request that stays keeps its reconstruction.                          *)
(***************************************************************************)
LEMMA FollowKeeps ==
    ASSUME TrackerInv, TrackerInv', PartialsOK,
           NEW p \in Node, NEW h \in Hash, mapBlocksInFlight'[h] = mapBlocksInFlight[h]
    PROVE  PartialsInFlight[p][h] = partialBlock[p][h]
<1>1. PartialsInFlight[p][h] = IF h \in vBlocksInFlight'[p] THEN partialBlock[p][h] ELSE "none"
  BY DEF PartialsInFlight
<1>2. h \in vBlocksInFlight[p] <=> h \in vBlocksInFlight'[p]
  BY DEF TrackerInv, RequestsAgree, RequestedFrom
<1>3. partialBlock[p][h] # "none" => h \in vBlocksInFlight[p]
  BY DEF PartialsOK
<1> QED BY <1>1, <1>2, <1>3

(***************************************************************************)
(* ProcessBlock takes a block on: its source is the peer being served.     *)
(***************************************************************************)
LEMMA SourceTaken ==
    ASSUME SourcesOK, NEW h \in Hash, NEW src \in Source, SetSource(h, src),
           msg.at # "accept", msg'.at = "accept", msg'.hash = h, msg'.peer = src.peer,
           UNCHANGED <<stored, tip, failed, supplier>>
    PROVE  SourcesOK'
<1> DEFINE f == mapBlockSource
           t == mapBlockSource'
<1>1. t = InsertOrAssign(f, h, src)
  BY DEF SetSource
<1>2. DOMAIN f \subseteq Hash /\ \A g \in DOMAIN f : f[g] \in Source
  BY DEF SourcesOK
<1>3. /\ DOMAIN t = DOMAIN f \cup {h} /\ t[h] = src
      /\ \A g \in DOMAIN f \ {h} : t[g] = f[g]
      /\ t \in [DOMAIN t -> Source]
  <2> HIDE DEF f, t
  <2> QED BY <1>1, <1>2 DEF InsertOrAssign
<1>4. ASSUME NEW g \in DOMAIN f \ {h}
      PROVE  /\ ~ Accepting(g)' /\ Pending(g)'
             /\ g \in DOMAIN supplier' => t[g].peer = supplier'[g]
  <2>1. ~ Accepting(g) /\ ~ Accepting(g)'
    BY <1>4 DEF Accepting
  <2>2. Pending(g) /\ (g \in DOMAIN supplier => f[g].peer = supplier[g])
    BY <2>1 DEF SourcesOK
  <2> QED BY <1>3, <2>1, <2>2, Zenon DEF Pending
<1>5. Accepting(h)' /\ t[h].peer = msg'.peer
  BY <1>3 DEF Accepting
<1> QED BY <1>2, <1>3, <1>4, <1>5, Zenon DEF SourcesOK

(***************************************************************************)
(* A failed reconstruction of a block nobody has sent is on record as the  *)
(* fallback of its peer.                                                   *)
(***************************************************************************)
LEMMA OutcomeSet ==
    ASSUME SourcesOK, NEW h \in Hash, NEW p \in Node, SetCompactOutcome(h, p, "fallback"),
           msg.at # "accept", msg'.at # "accept", h \notin DOMAIN supplier,
           (h > tip /\ h \notin failed) \/ h \in Submitted \cup ContextFails,
           UNCHANGED <<stored, tip, failed, supplier>>
    PROVE  SourcesOK'
<1> DEFINE f == mapBlockSource
           t == mapBlockSource'
           new == [peer |-> p, full |-> FALSE, requested |-> FALSE, outcome |-> "fallback"]
<1>1. /\ DOMAIN f \subseteq Hash /\ \A g \in DOMAIN f : f[g] \in Source
      /\ f = [g \in DOMAIN f |-> f[g]]
      /\ \A g : ~ Accepting(g) /\ ~ Accepting(g)'
      /\ \A g \in DOMAIN f : Pending(g) /\ (g \in DOMAIN supplier => f[g].peer = supplier[g])
  BY DEF SourcesOK, Accepting
<1>2. CASE h \notin DOMAIN f
  <2>1. t = InsertOrAssign(f, h, new)
    BY <1>2, Zenon DEF SetCompactOutcome, SetSource
  <2>2. new \in Source
    BY DEF Source
  <2>3. /\ DOMAIN t = DOMAIN f \cup {h} /\ t[h] = new
        /\ \A g \in DOMAIN f \ {h} : t[g] = f[g]
        /\ t \in [DOMAIN t -> Source]
    <3> HIDE DEF f, t, new
    <3> QED BY <1>1, <2>1, <2>2, Zenon DEF InsertOrAssign
  <2>4. Pending(h)'
    BY <2>3 DEF Pending
  <2>5. ASSUME NEW g \in DOMAIN f
        PROVE  Pending(g)' /\ (g \in DOMAIN supplier' => t[g].peer = supplier'[g])
    BY <1>1, <1>2, <2>3, Zenon DEF Pending
  <2> QED BY <1>1, <2>3, <2>4, <2>5 DEF SourcesOK
<1>3. CASE h \in DOMAIN f
  <2>1. t = f \/ t = [f EXCEPT ![h].outcome = "fallback"]
    BY <1>3 DEF SetCompactOutcome
  <2>2. /\ DOMAIN t = DOMAIN f /\ t \in [DOMAIN t -> Source]
        /\ \A g \in DOMAIN f : t[g].peer = f[g].peer /\ t[g].full = f[g].full
    BY <1>1, <2>1 DEF Source
  <2>3. ASSUME NEW g \in DOMAIN f
        PROVE  Pending(g)' /\ (g \in DOMAIN supplier' => t[g].peer = supplier'[g])
    BY <1>1, <2>2 DEF Pending
  <2> QED BY <1>1, <2>2, <2>3 DEF SourcesOK
<1> QED BY <1>2, <1>3

(***************************************************************************)
(* A step that leaves sources and verdicts alone.                          *)
(***************************************************************************)
LEMMA SourcesSame ==
    ASSUME SourcesOK, UNCHANGED <<mapBlockSource, tip, failed, supplier>>,
           stored \subseteq stored',
           msg' = msg \/ (msg.at # "accept" /\ msg'.at # "accept")
    PROVE  SourcesOK'
<1>1. \A h \in DOMAIN mapBlockSource : (Accepting(h)' <=> Accepting(h)) /\ (Pending(h) => Pending(h)')
  BY DEF Accepting, Pending
<1>2. \A h : Accepting(h) => msg'.peer = msg.peer
  BY DEF Accepting
<1> QED BY <1>1, <1>2 DEF SourcesOK

(***************************************************************************)
(* BlockChecked, or ProcessBlock for a block that is not new: the verdict  *)
(* on a block comes together with the end of its source.                   *)
(***************************************************************************)
LEMMA SourceErased ==
    ASSUME SourcesOK, ChainOK, NEW h \in Hash, EraseSource(h),
           stored' = stored, supplier' = supplier, failed' \subseteq failed \cup {h},
           tip' = tip \/ (tip' = tip + 1 /\ h = tip + 1),
           msg' = msg \/ (msg.at = "accept" /\ msg.hash = h /\ msg'.at # "accept")
    PROVE  SourcesOK'
<1> DEFINE f == mapBlockSource
           t == mapBlockSource'
<1>1. /\ DOMAIN t = DOMAIN f \ {h} /\ \A g \in DOMAIN f \ {h} : t[g] = f[g]
      /\ t \in [DOMAIN t -> Source] /\ DOMAIN t \subseteq Hash
  BY DEF EraseSource, Restrict, SourcesOK
<1>2. ASSUME NEW g \in DOMAIN f \ {h}, Pending(g) PROVE Pending(g)'
  <2>1. g \in Int /\ h \in Int /\ tip \in Int /\ g # h
    BY HashInts DEF SourcesOK, ChainOK
  <2>2. g > tip => g > tip'
    BY <2>1
  <2> QED BY <1>1, <1>2, <2>2, Zenon DEF Pending
<1>3. ASSUME NEW g \in DOMAIN f \ {h} PROVE Accepting(g)' <=> Accepting(g)
  BY <1>3 DEF Accepting
<1>4. \A g \in DOMAIN f \ {h} : Accepting(g) => msg'.peer = msg.peer
  BY DEF Accepting
<1> QED BY <1>1, <1>2, <1>3, <1>4, Zenon DEF SourcesOK

----------------------------------------------------------------------------
(***************************************************************************)
(* A step that asks for no compact block and touches reconstructions only  *)
(* through their requests keeps the slots right.                           *)
(***************************************************************************)
LEMMA SlotsFollow ==
    ASSUME RelayInv, TrackerInv', [QuietNext]_trackerVars, partialBlock' = PartialsInFlight,
           msg.at # "txns" \/ msg' = msg
    PROVE  SlotsOK'
<1>1. CASE msg.at # "txns"
  BY <1>1, SlotsKept, Zenon DEF RelayInv
<1>2. CASE msg.at = "txns" /\ msg' = msg
  <2>1. msg.peer \in Node
    BY <1>2, MsgBusy DEF RelayInv, Idle
  <2>2. \A h \in Hash : mapBlocksInFlight'[h] = mapBlocksInFlight[h]
          => partialBlock'[msg.peer][h] = partialBlock[msg.peer][h]
    BY <2>1, FollowKeeps DEF RelayInv
  <2> QED BY <1>2, <2>2, SlotsKept DEF RelayInv
<1> QED BY <1>1, <1>2

(***************************************************************************)
(* A step of that kind that receives and judges no block.                  *)
(***************************************************************************)
LEMMA NoBlockStep ==
    ASSUME RelayInv, TrackerInv', MsgInv', [QuietNext]_trackerVars,
           partialBlock' = PartialsInFlight,
           UNCHANGED <<mapBlockSource, stored, tip, failed, supplier>>,
           \/ msg' = msg
           \/ msg.at \notin {"accept", "txns", "stored"} /\ msg'.at # "accept"
    PROVE  RelayInv'
<1>1. PartialsOK'
  BY PartialsFollow, QuietLemma DEF RelayInv
<1>2. SlotsOK'
  BY SlotsFollow
<1>3. SourcesOK'
  BY SourcesSame DEF RelayInv
<1> QED BY <1>1, <1>2, <1>3 DEF RelayInv, ChainOK

(***************************************************************************)
(* The handlers, timers and connections that bring no block.               *)
(***************************************************************************)
LEMMA PeersInv ==
    ASSUME RelayInv, TrackerInv', MsgInv', [QuietNext]_trackerVars,
           \/ UNCHANGED allVars
           \/ \E p \in Node : PeerStep(p)
           \/ \E p \in Node, h \in Hash : Headers(p, h) \/ MutatedBlock(p, h)
           \/ HeadersDirectFetchBlocks
           \/ ClearDownloadState
    PROVE  RelayInv'
<1>1. CASE UNCHANGED allVars
  <2>1. UNCHANGED <<vBlocksInFlight, partialBlock, mapBlockSource, stored, tip, failed,
                    supplier, msg>>
    BY <1>1 DEF allVars, vars, relayVars, trackerVars, requestVars, downloadVars
  <2> QED BY <2>1, NothingDropped, NoBlockStep, Zenon DEF RelayInv
<1>2. ASSUME NEW p \in Node, PeerStep(p) PROVE RelayInv'
  <2>1. UNCHANGED <<mapBlockSource, stored, tip, failed, supplier, msg>>
    BY <1>2, Zenon DEF PeerStep, Connect, ConnectionLost, DeleteNode, SendTimeout, SendGetData,
                downloadVars
  <2> QED BY <1>2, <2>1, NoBlockStep DEF PeerStep
<1>3. ASSUME NEW p \in Node, NEW h \in Hash, Headers(p, h) PROVE RelayInv'
  <2>1. /\ UNCHANGED <<vBlocksInFlight, partialBlock, mapBlockSource, stored, tip, failed,
                       supplier>>
        /\ msg' = msg \/ (msg = Idle /\ msg'.at = "headers")
    BY <1>3 DEF Headers, Serving, trackerVars, requestVars, relayVars
  <2>2. Idle.at = "idle"
    BY DEF Idle
  <2> QED BY <2>1, <2>2, NothingDropped, NoBlockStep, Zenon DEF RelayInv
<1>4. ASSUME NEW p \in Node, NEW h \in Hash, MutatedBlock(p, h) PROVE RelayInv'
  BY <1>4, NoBlockStep, Zenon DEF MutatedBlock
<1>5. CASE HeadersDirectFetchBlocks
  <2>1. /\ UNCHANGED <<partialBlock, mapBlockSource, stored, tip, failed, supplier>>
        /\ msg.at = "headers" /\ msg'.at = "idle"
    BY <1>5 DEF HeadersDirectFetchBlocks, relayVars, Idle
  <2>2. \A q \in Node : vBlocksInFlight[q] \subseteq vBlocksInFlight'[q]
    <3>1. \/ \E H : RequestEffect(msg.peer, H)
          \/ UNCHANGED vBlocksInFlight
      BY <1>5, Zenon DEF HeadersDirectFetchBlocks, SendRequests, trackerVars, requestVars
    <3>2. ASSUME NEW H, RequestEffect(msg.peer, H), NEW q \in Node
          PROVE  vBlocksInFlight[q] \subseteq vBlocksInFlight'[q]
      <4>1. vBlocksInFlight' = [vBlocksInFlight EXCEPT ![msg.peer] = @ \cup H]
        BY <3>2, Zenon DEF RequestEffect
      <4> QED BY <4>1, Zenon DEF RelayInv, TrackerInv, TrackerTypeOK
    <3> QED BY <3>1, <3>2, Zenon
  <2> QED BY <2>1, <2>2, NothingDropped, NoBlockStep, Zenon DEF RelayInv
<1>6. CASE ClearDownloadState
  <2>1. msg.at = "clear" /\ msg'.at = "idle"
    BY <1>6 DEF ClearDownloadState, Idle
  <2> QED BY <1>6, <2>1, NoBlockStep, Zenon DEF ClearDownloadState
<1> QED BY <1>1, <1>2, <1>3, <1>4, <1>5, <1>6, Zenon

(***************************************************************************)
(* A block comes in, from the BLOCK handler or from an optimistic          *)
(* reconstruction.                                                         *)
(***************************************************************************)
LEMMA BlockInv ==
    ASSUME RelayInv, TrackerInv', MsgInv', [QuietNext]_trackerVars,
           OptimisticSource \/ \E p \in Node, h \in Hash : Block(p, h)
    PROVE  RelayInv'
<1>1. CASE OptimisticSource
  <2>1. /\ UNCHANGED <<vBlocksInFlight, partialBlock, stored, tip, failed, supplier>>
        /\ msg.at = "optimistic" /\ msg # Idle /\ msg'.at = "accept"
        /\ msg'.hash = msg.hash /\ msg'.peer = msg.peer
    BY <1>1 DEF OptimisticSource, trackerVars, requestVars, Idle
  <2>2. msg.peer \in Node /\ msg.hash \in Hash
    BY <2>1, MsgBusy DEF RelayInv
  <2>3. partialBlock' = PartialsInFlight
    BY <2>1, NothingDropped DEF RelayInv
  <2>4. PartialsOK' /\ SlotsOK'
    BY <2>1, <2>3, PartialsFollow, SlotsFollow, QuietLemma, Zenon DEF RelayInv
  <2>5. SourcesOK'
    <3> DEFINE src == [peer |-> msg.peer, full |-> FALSE, requested |-> FALSE,
                       outcome |-> "direct"]
    <3>1. src \in Source /\ src.peer = msg.peer
      BY <2>2, Zenon DEF Source
    <3>2. SetSource(msg.hash, src)
      BY <1>1 DEF OptimisticSource
    <3> HIDE DEF src
    <3> QED BY <2>1, <2>2, <3>1, <3>2, SourceTaken, Zenon DEF RelayInv
  <2> QED BY <2>1, <2>4, <2>5, Zenon DEF RelayInv, ChainOK
<1>2. ASSUME NEW p \in Node, NEW h \in Hash, Block(p, h) PROVE RelayInv'
  <2>1. /\ UNCHANGED <<stored, tip, failed, supplier>> /\ partialBlock' = PartialsInFlight
        /\ msg = Idle /\ msg'.at = "accept" /\ msg'.hash = h /\ msg'.peer = p
    BY <1>2, Zenon DEF Block, ReceiveBlock, Serving
  <2>2. msg.at = "idle"
    BY <2>1 DEF Idle
  <2>3. PartialsOK' /\ SlotsOK'
    BY <2>1, <2>2, PartialsFollow, SlotsFollow, QuietLemma, Zenon DEF RelayInv
  <2>4. SourcesOK'
    <3> DEFINE asked == p \in RequestedFrom(h)
               outcome == EarlierOutcome(p, h)
               src == [peer |-> p, full |-> TRUE, requested |-> asked, outcome |-> outcome]
    <3>1. /\ asked \in BOOLEAN
          /\ outcome \in {"none", "direct", "after_blocktxn", "fallback"}
      BY DEF EarlierOutcome, RelayInv, SourcesOK, Source
    <3>2. src \in Source /\ src.peer = p
      <4> HIDE DEF asked, outcome
      <4> QED BY <3>1 DEF Source
    <3>3. SetSource(h, src)
      BY <1>2, Zenon DEF Block
    <3> HIDE DEF src
    <3> QED BY <2>1, <2>2, <3>2, <3>3, SourceTaken, Zenon DEF RelayInv
  <2> QED BY <2>1, <2>3, <2>4 DEF RelayInv, ChainOK
<1> QED BY <1>1, <1>2

(***************************************************************************)
(* AcceptBlock stores a block: it is new, so it is beyond the active chain *)
(* and nobody has found it invalid.                                        *)
(***************************************************************************)
LEMMA NewBlock ==
    ASSUME ChainOK, NEW h \in Hash, h \notin stored, HeaderValid(h)
    PROVE  h > tip /\ h \notin failed
<1>1. h \in Nat /\ 1 <= h /\ tip \in Nat
  BY HashInts DEF ChainOK
<1>2. h \notin 1 .. tip
  BY DEF ChainOK
<1>3. h \in failed => h < h
  BY DEF HeaderValid
<1> QED BY <1>1, <1>2, <1>3

(***************************************************************************)
(* Storing a block makes the entry of the peer it came from the one that   *)
(* waits for the verdict.                                                  *)
(***************************************************************************)
LEMMA StoreInv ==
    ASSUME RelayInv, TrackerInv', MsgInv', [QuietNext]_trackerVars, Store
    PROVE  RelayInv'
<1> DEFINE h == msg.hash
<1>1. /\ UNCHANGED <<trackerVars, vBlocksInFlight, partialBlock, mapBlockSource, tip, failed>>
      /\ msg.at = "accept" /\ msg # Idle
      /\ msg' = [msg EXCEPT !.at = "stored"]
      /\ stored' = stored \cup {h} /\ h \notin stored /\ HeaderValid(h)
      /\ supplier' = InsertOrAssign(supplier, h, msg.peer)
  BY DEF Store, StoreBlock, IsNew, Wants, Rejected, trackerVars, requestVars, Idle
<1>2. h \in Hash /\ msg.peer \in Node /\ {"at", "peer", "hash"} \subseteq DOMAIN msg
  BY <1>1, MsgBusy DEF RelayInv
<1>3. msg'.at = "stored" /\ msg'.hash = h /\ msg'.peer = msg.peer
  BY <1>1, <1>2
<1>4. /\ DOMAIN supplier' = DOMAIN supplier \cup {h} /\ supplier'[h] = msg.peer
      /\ \A g \in DOMAIN supplier \ {h} : supplier'[g] = supplier[g]
  BY <1>1 DEF InsertOrAssign
<1>5. h > tip /\ h \notin failed
  BY <1>1, <1>2, NewBlock, Zenon DEF RelayInv
<1> HIDE DEF h
<1>6. PartialsOK'
  <2>1. ASSUME NEW p \in Node, NEW g \in Hash, partialBlock'[p][g] # "none"
        PROVE  /\ partialBlock'[p][g] = partialBlock[p][g]
               /\ g \in vBlocksInFlight'[p]
               /\ g \in DOMAIN supplier' => msg'.at = "stored" /\ msg'.hash = g
    <3>1. g \in vBlocksInFlight[p] /\ (g \in DOMAIN supplier => msg.at = "stored")
      BY <1>1, <2>1 DEF RelayInv, PartialsOK
    <3> QED BY <1>1, <1>3, <1>4, <3>1
  <2>2. partialBlock' \in [Node -> [Hash -> Reconstruction]]
    BY <1>1 DEF RelayInv, PartialsOK
  <2> QED BY <2>1, <2>2, PartialsKept, QuietLemma DEF RelayInv
<1>7. SlotsOK'
  BY <1>1, NothingDropped, SlotsFollow DEF RelayInv
<1>8. ChainOK'
  BY <1>1, <1>2, <1>4 DEF RelayInv, ChainOK
<1>9. SourcesOK'
  <2>1. ASSUME NEW g \in DOMAIN mapBlockSource
        PROVE  /\ ~ Accepting(g)' /\ Pending(g)'
               /\ g \in DOMAIN supplier' => mapBlockSource[g].peer = supplier'[g]
    <3>1. ~ Accepting(g)'
      BY <1>3 DEF Accepting
    <3>2. CASE g = h
      <4>1. Accepting(g)
        BY <1>1, <3>2 DEF Accepting, h
      <4>2. mapBlockSource[g].peer = msg.peer
        BY <4>1, Zenon DEF RelayInv, SourcesOK
      <4> QED BY <1>1, <1>4, <1>5, <3>1, <3>2, <4>2, Zenon DEF Pending
    <3>3. CASE g # h
      <4>1. ~ Accepting(g)
        BY <3>3 DEF Accepting, h
      <4>2. Pending(g) /\ (g \in DOMAIN supplier => mapBlockSource[g].peer = supplier[g])
        BY <4>1 DEF RelayInv, SourcesOK
      <4>3. Pending(g)'
        BY <1>1, <4>2 DEF Pending
      <4> QED BY <1>4, <3>1, <3>3, <4>2, <4>3, Zenon
    <3> QED BY <3>2, <3>3, Zenon
  <2> QED BY <1>1, <2>1, Zenon DEF RelayInv, SourcesOK
<1> QED BY <1>6, <1>7, <1>8, <1>9, Zenon DEF RelayInv

(***************************************************************************)
(* The verdicts: a rejected block, a connected one and one found invalid   *)
(* on connecting lose their source at once.                                *)
(***************************************************************************)
LEMMA VerdictInv ==
    ASSUME RelayInv, TrackerInv', MsgInv', [QuietNext]_trackerVars, Reject \/ Connecting
    PROVE  RelayInv'
<1>0. UNCHANGED <<vBlocksInFlight, partialBlock, supplier, stored>>
  BY DEF Reject, RejectEffect, Connecting, ConnectTip, trackerVars, requestVars
<1>1. partialBlock' = PartialsInFlight
  BY <1>0, NothingDropped DEF RelayInv
<1>2. CASE Reject
  <2>1. /\ msg.at = "accept" /\ msg # Idle /\ EraseSource(msg.hash) /\ tip' = tip
        /\ failed' \subseteq failed \cup ({msg.hash} \cap ContextFails)
    <3>1. msg.at = "accept" /\ EraseSource(msg.hash)
      BY <1>2, Zenon DEF Reject, BlockCheckedInvalid
    <3>2. tip' = tip /\ failed' \subseteq failed \cup ({msg.hash} \cap ContextFails)
      BY <1>2 DEF Reject, RejectEffect
    <3>3. msg # Idle
      BY <3>1 DEF Idle
    <3> QED BY <3>1, <3>2, <3>3, Zenon
  <2>2. msg'.at # "accept"
    BY <1>2, Zenon DEF Reject, Idle
  <2>3. msg.hash \in Hash
    BY <2>1, MsgBusy, Zenon DEF RelayInv
  <2>4. PartialsOK' /\ SlotsOK'
    BY <1>0, <1>1, <2>1, PartialsFollow, SlotsFollow, QuietLemma, Zenon DEF RelayInv
  <2>5. SourcesOK'
    BY <1>0, <2>1, <2>2, <2>3, SourceErased, Zenon DEF RelayInv
  <2>6. ChainOK'
    BY <1>0, <2>1, Zenon DEF RelayInv, ChainOK
  <2> QED BY <2>4, <2>5, <2>6, Zenon DEF RelayInv
<1>3. CASE Connecting
  <2>1. /\ msg' = msg /\ EraseSource(tip + 1) /\ tip + 1 \in stored
        /\ \/ tip' = tip + 1 /\ failed' = failed
           \/ tip' = tip /\ failed' = failed \cup {tip + 1}
    BY <1>3 DEF Connecting, ConnectTip, CanConnect, BlockCheckedInvalid
  <2>2. tip + 1 \in Hash
    BY <2>1 DEF RelayInv, ChainOK
  <2>3. PartialsOK' /\ SlotsOK'
    BY <1>0, <1>1, <2>1, PartialsFollow, SlotsFollow, QuietLemma, Zenon DEF RelayInv
  <2>4. SourcesOK'
    BY <1>0, <2>1, <2>2, SourceErased, Zenon DEF RelayInv
  <2>5. ChainOK'
    BY <1>0, <2>1 DEF RelayInv, ChainOK
  <2> QED BY <2>3, <2>4, <2>5, Zenon DEF RelayInv
<1> QED BY <1>2, <1>3, Zenon

(***************************************************************************)
(* ProcessBlock has stored a block: nobody is asked for it any more, and   *)
(* no reconstruction of it is left.                                        *)
(***************************************************************************)
LEMMA FinishInv ==
    ASSUME RelayInv, TrackerInv', MsgInv', [QuietNext]_trackerVars, Finish
    PROVE  RelayInv'
<1>1. /\ msg.at = "stored" /\ msg # Idle /\ msg'.at = "idle"
      /\ partialBlock' = PartialsInFlight
      /\ UNCHANGED <<mapBlockSource, supplier, stored, tip, failed>>
  BY DEF Finish, FinishBlock, Idle
<1>2. msg.hash \in Hash
  BY <1>1, MsgBusy, Zenon DEF RelayInv
<1>3. \A p \in Node : msg.hash \notin vBlocksInFlight'[p]
  <2>1. mapBlocksInFlight'[msg.hash] = <<>>
    BY <1>2, Zenon DEF Finish, FinishBlock, RemoveBlockRequests, IsBlockRequested, trackerVars,
                requestVars, RelayInv, TrackerInv, TrackerTypeOK
  <2>2. Range(<<>>) = {}
    BY InQueue, Zenon
  <2> QED BY <1>2, <2>1, <2>2 DEF TrackerInv, RequestsAgree, RequestedFrom
<1>4. PartialsOK'
  <2>1. \A p \in Node, h \in Hash :
           partialBlock'[p][h] = IF h \in vBlocksInFlight'[p] THEN partialBlock[p][h] ELSE "none"
    BY <1>1 DEF PartialsInFlight
  <2>2. ASSUME NEW p \in Node, NEW h \in Hash, partialBlock'[p][h] # "none"
        PROVE  /\ partialBlock'[p][h] = partialBlock[p][h]
               /\ h \in vBlocksInFlight'[p]
               /\ h \in DOMAIN supplier' => msg'.at = "stored" /\ msg'.hash = h
    <3>1. h \in vBlocksInFlight'[p] /\ partialBlock'[p][h] = partialBlock[p][h]
      BY <2>1, <2>2
    <3>2. h # msg.hash
      BY <1>3, <3>1, Zenon
    <3>3. h \notin DOMAIN supplier
      BY <2>2, <3>1, <3>2, Zenon DEF RelayInv, PartialsOK
    <3> QED BY <1>1, <3>1, <3>3
  <2>3. partialBlock' \in [Node -> [Hash -> Reconstruction]]
    BY <1>1 DEF PartialsInFlight, RelayInv, PartialsOK, Reconstruction
  <2> QED BY <2>2, <2>3, PartialsKept, QuietLemma DEF RelayInv
<1>5. SlotsOK'
  BY <1>1, SlotsFollow DEF RelayInv
<1>6. SourcesOK'
  BY <1>1, SourcesSame DEF RelayInv
<1> QED BY <1>1, <1>4, <1>5, <1>6, Zenon DEF RelayInv, ChainOK

(***************************************************************************)
(* submitblock stores or rejects a block on a thread of its own.           *)
(***************************************************************************)
LEMMA SubmitInv ==
    ASSUME RelayInv, TrackerInv', MsgInv', [QuietNext]_trackerVars,
           NEW h \in Submitted, Submit(h)
    PROVE  RelayInv'
<1>0. h \in Hash
  BY ChainAssumption
<1>1. UNCHANGED <<vBlocksInFlight, partialBlock, supplier, tip, msg>>
  BY Zenon DEF Submit, SubmitBlock, RejectEffect, trackerVars, requestVars
<1>2. PartialsOK' /\ SlotsOK'
  BY <1>1, NothingDropped, PartialsFollow, SlotsFollow, QuietLemma, Zenon DEF RelayInv
<1>3. CASE IsNew(h, TRUE)
  <2>1. /\ stored' = stored \cup {h} /\ failed' = failed /\ UNCHANGED mapBlockSource
    BY <1>3, Zenon DEF Submit, SubmitBlock, RejectEffect, IsNew
  <2>2. SourcesOK'
    BY <1>1, <2>1, SourcesSame DEF RelayInv
  <2>3. ChainOK'
    BY <1>0, <1>1, <2>1 DEF RelayInv, ChainOK
  <2> QED BY <1>2, <2>2, <2>3 DEF RelayInv
<1>4. CASE ~ IsNew(h, TRUE)
  <2>1. /\ stored' = stored
        /\ failed' = failed \cup {g \in {h} \cap ContextFails : Wants(g, TRUE) /\
                                             HeaderValid(g) /\ g \notin CheckFails}
    BY <1>4, Zenon DEF Submit, SubmitBlock, RejectEffect
  <2>2. ChainOK'
    BY <1>1, <2>1, Zenon DEF RelayInv, ChainOK
  <2>3. CASE Rejected(h, TRUE)
    <3>1. EraseSource(h)
      BY <2>3 DEF Submit, BlockCheckedInvalid
    <3>2. SourcesOK'
      BY <1>0, <1>1, <2>1, <3>1, SourceErased, Zenon DEF RelayInv
    <3> QED BY <1>2, <2>2, <3>2 DEF RelayInv
  <2>4. CASE ~ Rejected(h, TRUE)
    <3>1. failed' = failed /\ UNCHANGED mapBlockSource
      BY <2>1, <2>4, Zenon DEF Rejected, Submit
    <3>2. SourcesOK'
      BY <1>1, <2>1, <3>1, SourcesSame, Zenon DEF RelayInv
    <3> QED BY <1>2, <2>2, <3>2 DEF RelayInv
  <2> QED BY <2>3, <2>4, Zenon
<1> QED BY <1>3, <1>4, Zenon

(***************************************************************************)
(* getblockfrompeer.                                                       *)
(***************************************************************************)
LEMMA FetchInv ==
    ASSUME RelayInv, TrackerInv', MsgInv', [QuietNext]_trackerVars,
           NEW p \in FetchTargets, NEW h \in Hash, Fetch(p, h)
    PROVE  RelayInv'
<1>1. UNCHANGED <<mapBlockSource, supplier, stored, tip, failed, msg>>
  BY Zenon DEF Fetch, FetchBlock, downloadVars
<1>2. CASE FetchBlockLookup(p, h) \/ FetchBlockAbort(p, h)
  <2>1. vBlocksInFlight' = vBlocksInFlight /\ fetch \subseteq fetch'
    BY <1>2 DEF FetchBlockLookup, FetchBlockAbort, requestVars
  <2>2. partialBlock' = partialBlock
    BY <2>1 DEF Fetch
  <2> QED BY <1>1, <2>1, <2>2, NothingDropped, NoBlockStep, Zenon DEF RelayInv
<1>3. CASE FetchBlockRequest(p, h)
  <2>0. p \in Node /\ Len(<<p>>) = 1 /\ MAX_CMPCTBLOCKS_INFLIGHT_PER_BLOCK # 1
    <3>1. p \in Node
      BY FetchAssumption, Zenon
    <3>2. Len(<<p>>) = 1
      BY SMT
    <3>3. MAX_CMPCTBLOCKS_INFLIGHT_PER_BLOCK # 1
      BY RelayAssumption
    <3> QED BY <3>1, <3>2, <3>3, Zenon
  <2>1. /\ partialBlock' = [PartialsInFlight EXCEPT ![p][h] = "none"]
        /\ mapBlocksInFlight'[h] = <<p>>
    BY <1>3 DEF Fetch, FetchBlockRequest, RelayInv, TrackerInv, TrackerTypeOK
  <2>2. PartialsInFlight \in [Node -> [Hash -> Reconstruction]]
    BY Zenon DEF PartialsInFlight, RelayInv, PartialsOK, Reconstruction
  <2>3. \A q \in Node, g \in Hash :
           PartialsInFlight[q][g]
              = IF g \in vBlocksInFlight'[q] THEN partialBlock[q][g] ELSE "none"
    BY Zenon DEF PartialsInFlight
  <2>4. /\ partialBlock' \in [Node -> [Hash -> Reconstruction]]
        /\ \A q \in Node, g \in Hash :
              partialBlock'[q][g] = IF q = p /\ g = h THEN "none" ELSE PartialsInFlight[q][g]
    <3> HIDE DEF PartialsInFlight
    <3> QED BY <2>0, <2>1, <2>2 DEF Reconstruction
  <2>5. PartialsOK'
    <3>1. ASSUME NEW q \in Node, NEW g \in Hash, partialBlock'[q][g] # "none"
          PROVE  /\ partialBlock'[q][g] = partialBlock[q][g]
                 /\ g \in vBlocksInFlight'[q]
                 /\ g \in DOMAIN supplier' => msg'.at = "stored" /\ msg'.hash = g
      <4>1. partialBlock'[q][g] = partialBlock[q][g] /\ g \in vBlocksInFlight'[q]
        BY <2>3, <2>4, <3>1
      <4>2. g \in DOMAIN supplier => msg.at = "stored" /\ msg.hash = g
        BY <3>1, <4>1, Zenon DEF RelayInv, PartialsOK
      <4> QED BY <1>1, <4>1, <4>2, Zenon
    <3> QED BY <2>4, <3>1, PartialsKept, QuietLemma, ZenonT(30) DEF RelayInv
  <2>6. SlotsOK'
    <3>1. CASE msg.at # "txns"
      BY <3>1, SlotsKept, Zenon DEF RelayInv
    <3>2. CASE msg.at = "txns"
      <4>1. msg.peer \in Node
        BY <3>2, MsgBusy DEF RelayInv, Idle
      <4>2. ASSUME NEW g \in Hash,
                   Len(mapBlocksInFlight'[g]) = MAX_CMPCTBLOCKS_INFLIGHT_PER_BLOCK,
                   mapBlocksInFlight'[g] = mapBlocksInFlight[g]
            PROVE  partialBlock'[msg.peer][g] = partialBlock[msg.peer][g]
        <5>1. g # h
          BY <2>0, <2>1, <4>2, Zenon
        <5>2. PartialsInFlight[msg.peer][g] = partialBlock[msg.peer][g]
          BY <4>1, <4>2, FollowKeeps DEF RelayInv
        <5> QED BY <2>4, <4>1, <5>1, <5>2
      <4> QED BY <1>1, <4>2, SlotsKept DEF RelayInv
    <3> QED BY <3>1, <3>2, Zenon
  <2>7. SourcesOK'
    BY <1>1, SourcesSame, Zenon DEF RelayInv
  <2> QED BY <1>1, <2>5, <2>6, <2>7 DEF RelayInv, ChainOK
<1> QED BY <1>2, <1>3 DEF Fetch, FetchBlock

----------------------------------------------------------------------------
(***************************************************************************)
(* ProcessCompactBlockTxns.  A parallel attempt that had taken the last    *)
(* slot for the time of its handler gives it back here.                    *)
(***************************************************************************)
LEMMA TxnsInv ==
    ASSUME RelayInv, TrackerInv', MsgInv', [QuietNext]_trackerVars,
           NEW p \in Node, NEW h \in Hash, NEW o \in {"direct", "after_blocktxn"},
           ProcessCompactBlockTxns(p, h, o),
           msg = Idle \/ (msg.at = "txns" /\ msg.peer = p /\ msg.hash = h)
    PROVE  RelayInv'
<1>1. /\ UNCHANGED <<stored, tip, failed, supplier>> /\ msg.at \in {"idle", "txns"}
      /\ msg'.at \in {"idle", "accept"}
  BY DEF ProcessCompactBlockTxns, TxnsInvalid, TxnsFailed, TxnsOk, Idle
<1>2. h \in DOMAIN supplier => partialBlock[p][h] = "none"
  BY <1>1 DEF RelayInv, PartialsOK
<1>3. partialBlock[p][h] # "none" => h \in vBlocksInFlight[p] /\ p \in Range(mapBlocksInFlight[h])
  BY Zenon DEF RelayInv, PartialsOK, TrackerInv, RequestsAgree, RequestedFrom
<1>4. SlotsOK'
  <2> SUFFICES ASSUME NEW g \in Hash,
                      Len(mapBlocksInFlight'[g]) = MAX_CMPCTBLOCKS_INFLIGHT_PER_BLOCK
               PROVE  RequestedFrom(g)' \cap Outbound # {}
    BY DEF SlotsOK
  <2>1. mapBlocksInFlight'[g] = mapBlocksInFlight[g]
    BY FullListKept, RelayAssumption, Zenon DEF RelayInv
  <2>2. CASE RequestedFrom(g) \cap Outbound # {}
    BY <2>1, <2>2, Zenon DEF RequestedFrom
  <2>3. CASE /\ msg.at = "txns" /\ msg.hash = g /\ Head(mapBlocksInFlight[g]) # msg.peer
             /\ partialBlock[msg.peer][g] = "header"
    <3>0. msg # Idle
      BY <2>3 DEF Idle
    <3>1. g = h /\ Head(mapBlocksInFlight[h]) # p /\ partialBlock[p][h] = "header"
      BY <2>3, <3>0, Zenon
    <3>2. ~ FirstInFlight(p, h)
      <4>1. mapBlocksInFlight[h] # <<>>
        BY <1>3, <3>1, InQueue, Zenon
      <4> QED BY <3>1, <4>1 DEF FirstInFlight, IsBlockRequested
    <3>3. RemoveBlockRequestFrom(p, h)
      BY <3>1, <3>2 DEF ProcessCompactBlockTxns, TxnsInvalid, TxnsFailed, TxnsOk
    <3>4. mapBlocksInFlight'[h] = Without(mapBlocksInFlight[h], p)
      BY <3>3, Zenon DEF RemoveBlockRequestFrom, RelayInv, TrackerInv, TrackerTypeOK
    <3>5. p \notin Range(mapBlocksInFlight'[h])
      <4> DEFINE s == mapBlocksInFlight[h]
      <4>1. s \in Seq(Node) /\ IsInjective(s)
        BY Zenon DEF RelayInv, TrackerInv, TrackerTypeOK, RequestsAgree
      <4> HIDE DEF s
      <4>2. Range(Without(s, p)) = Range(s) \ {p}
        BY <4>1, WithoutLemma
      <4> QED BY <3>4, <4>2, Zenon DEF s
    <3> QED BY <1>3, <2>1, <3>1, <3>5, Zenon
  <2> QED BY <2>1, <2>2, <2>3, Zenon DEF RelayInv, SlotsOK
<1>5. CASE \/ TxnsInvalid(p, h) \/ (TxnsFailed(p, h) /\ ~ FirstInFlight(p, h))
           \/ partialBlock[p][h] = "none"
  <2>1. UNCHANGED mapBlockSource /\ msg'.at = "idle"
    BY <1>5 DEF ProcessCompactBlockTxns, TxnsInvalid, TxnsFailed, Idle
  <2>2. partialBlock' = PartialsInFlight
    <3>1. \/ partialBlock' = PartialsInFlight
          \/ UNCHANGED <<partialBlock, vBlocksInFlight>>
      BY <1>5 DEF ProcessCompactBlockTxns, TxnsInvalid, TxnsFailed, trackerVars, requestVars
    <3> QED BY <3>1, NothingDropped, Zenon DEF RelayInv
  <2>3. PartialsOK'
    BY <1>1, <2>2, PartialsFollow, QuietLemma, Zenon DEF RelayInv
  <2>4. SourcesOK'
    BY <1>1, <2>1, SourcesSame, Zenon DEF RelayInv
  <2> QED BY <1>1, <1>4, <2>3, <2>4, Zenon DEF RelayInv, ChainOK
<1>6. CASE TxnsFailed(p, h) /\ FirstInFlight(p, h) /\ partialBlock[p][h] # "none"
  <2>1. /\ partialBlock' = [partialBlock EXCEPT ![p][h] = "wiped"]
        /\ SetCompactOutcome(h, p, "fallback") /\ msg'.at = "idle"
        /\ UNCHANGED <<mapBlocksInFlight, vBlocksInFlight>>
    BY <1>6 DEF TxnsFailed, Idle, trackerVars, requestVars
  <2>2. Head(mapBlocksInFlight'[h]) = p
    <3>1. mapBlocksInFlight[h] # <<>>
      BY <1>3, <1>6, InQueue, Zenon
    <3> QED BY <1>6, <2>1, <3>1, Zenon DEF FirstInFlight, IsBlockRequested
  <2>3. PartialsOK'
    <3>1. /\ partialBlock' \in [Node -> [Hash -> Reconstruction]]
          /\ \A q \in Node, g \in Hash :
                partialBlock'[q][g] = IF q = p /\ g = h THEN "wiped" ELSE partialBlock[q][g]
      BY <2>1, Zenon DEF RelayInv, PartialsOK, Reconstruction
    <3>2. ASSUME NEW q \in Node, NEW g \in Hash, partialBlock'[q][g] # "none"
          PROVE  /\ \/ partialBlock'[q][g] \in {partialBlock[q][g], "header"}
                    \/ Head(mapBlocksInFlight'[g]) = q
                 /\ g \in vBlocksInFlight'[q]
                 /\ g \in DOMAIN supplier' => msg'.at = "stored" /\ msg'.hash = g
      <4>1. partialBlock[q][g] # "none"
        BY <1>6, <3>1, <3>2, Zenon
      <4>2. g \in vBlocksInFlight[q] /\ g \notin DOMAIN supplier
        BY <1>1, <4>1, Zenon DEF RelayInv, PartialsOK
      <4> QED BY <1>1, <2>1, <2>2, <3>1, <4>2, ZenonT(30)
    <3> QED BY <3>1, <3>2, PartialsKept, QuietLemma, Zenon DEF RelayInv
  <2>4. (h > tip /\ h \notin failed) \/ h \in Submitted \cup ContextFails
    <3>1. h \in stored => h \in Submitted
      BY <1>2, <1>6, Zenon DEF RelayInv, ChainOK
    <3>2. h \in failed => h \in stored \cup ContextFails
      BY DEF RelayInv, ChainOK
    <3>3. h \notin stored => h > tip
      BY HashInts DEF RelayInv, ChainOK
    <3> QED BY <3>1, <3>2, <3>3, Zenon
  <2>5. SourcesOK'
    BY <1>1, <1>2, <1>6, <2>1, <2>4, OutcomeSet, Zenon DEF RelayInv
  <2> QED BY <1>1, <1>4, <2>3, <2>5, Zenon DEF RelayInv, ChainOK
<1>7. CASE TxnsOk(p, h, o)
  <2> DEFINE src == [peer |-> p, full |-> FALSE, requested |-> TRUE, outcome |-> o]
  <2>1. /\ partialBlock' = PartialsInFlight /\ SetSource(h, src)
        /\ msg'.at = "accept" /\ msg'.hash = h /\ msg'.peer = p
    BY <1>7, Zenon DEF TxnsOk
  <2>2. src \in Source /\ src.peer = p
    BY Zenon DEF Source
  <2>3. PartialsOK'
    BY <1>1, <2>1, PartialsFollow, QuietLemma, Zenon DEF RelayInv
  <2> HIDE DEF src
  <2>4. SourcesOK'
    BY <1>1, <2>1, <2>2, SourceTaken, Zenon DEF RelayInv
  <2> QED BY <1>1, <1>4, <2>3, <2>4 DEF RelayInv, ChainOK
<1> QED BY <1>5, <1>6, <1>7, Zenon DEF ProcessCompactBlockTxns

(***************************************************************************)
(* CMPCTBLOCK, when the request stays: the last slot goes to an outbound   *)
(* peer, or to an attempt that misses nothing and is finished at once.     *)
(***************************************************************************)
LEMMA CompactKeptInv ==
    ASSUME RelayInv, TrackerInv', MsgInv', [TrackerNext]_trackerVars,
           NEW p \in Node, NEW h \in Hash, NEW status \in {"failed", "missing", "complete"},
           msg = Idle, HeaderValid(h), h \notin stored, CompactKept(p, h, status),
           UNCHANGED <<stored, tip, failed, supplier>>
    PROVE  RelayInv'
<1> DEFINE s == mapBlocksInFlight[h]
           t == mapBlocksInFlight'[h]
           limit == MAX_CMPCTBLOCKS_INFLIGHT_PER_BLOCK
<1>1. /\ RequestEffect(p, {h}) /\ msg.at = "idle" /\ msg'.at \in {"idle", "txns"}
      /\ msg' = msg \/ (status = "complete" /\ msg' = [at |-> "txns", peer |-> p, hash |-> h])
  BY DEF CompactKept, RequestCompactBlock, Idle
<1>2. /\ t = IF p \in Range(s) THEN s ELSE Append(s, p)
      /\ \A g \in Hash \ {h} : mapBlocksInFlight'[g] = mapBlocksInFlight[g]
      /\ \A q \in Node : vBlocksInFlight[q] \subseteq vBlocksInFlight'[q]
      /\ h \in vBlocksInFlight'[p]
  BY <1>1, Zenon DEF RequestEffect, RequestedFrom, RelayInv, TrackerInv, TrackerTypeOK
<1>3. s \in Seq(Node) /\ IsInjective(s) /\ Len(s) \in Nat
  BY DEF RelayInv, TrackerInv, TrackerTypeOK, RequestsAgree
<1>4. /\ s = <<>> => Head(t) = p
      /\ p \notin Range(s) =>
            /\ Range(t) = Range(s) \cup {p} /\ Len(t) = Len(s) + 1
            /\ s # <<>> => Head(t) # p
  <2>1. t = IF p \in Range(s) THEN s ELSE Append(s, p)
    BY <1>2, Zenon
  <2> HIDE DEF s, t
  <2> QED BY <1>3, <2>1, PushedOnce, Zenon
<1>5. FirstInFlight(p, h) => Head(t) = p /\ (s = <<>> \/ p \in Range(s))
  <2>1. CASE s = <<>>
    BY <1>4, <2>1, Zenon
  <2>2. CASE s # <<>> /\ Head(s) = p
    <3>1. p \in Range(s)
      BY <1>3, <2>2, HeadLemma, Zenon
    <3> QED BY <1>2, <2>2, <3>1, Zenon
  <2> QED BY <2>1, <2>2, Zenon DEF FirstInFlight, IsBlockRequested
<1>6. PartialsOK'
  <2> DEFINE new == IF status = "failed" THEN "failed" ELSE "header"
  <2>1. /\ partialBlock' \in [Node -> [Hash -> Reconstruction]]
        /\ \A q \in Node, g \in Hash :
              partialBlock'[q][g] = IF q = p /\ g = h THEN new ELSE partialBlock[q][g]
    BY Zenon DEF CompactKept, RelayInv, PartialsOK, Reconstruction
  <2>2. new # "header" => Head(t) = p
    BY <1>5 DEF CompactKept
  <2>0. h \notin DOMAIN supplier
    BY DEF RelayInv, ChainOK
  <2> HIDE DEF new, t
  <2>3. ASSUME NEW q \in Node, NEW g \in Hash, partialBlock'[q][g] # "none"
        PROVE  /\ \/ partialBlock'[q][g] \in {partialBlock[q][g], "header"}
                  \/ Head(mapBlocksInFlight'[g]) = q
               /\ g \in vBlocksInFlight'[q]
               /\ g \in DOMAIN supplier' => msg'.at = "stored" /\ msg'.hash = g
    <3>1. CASE q = p /\ g = h
      BY <1>2, <2>0, <2>1, <2>2, <3>1, Zenon DEF t
    <3>2. CASE ~ (q = p /\ g = h)
      <4>1. partialBlock'[q][g] = partialBlock[q][g]
        BY <2>1, <3>2
      <4>2. g \in vBlocksInFlight[q] /\ g \notin DOMAIN supplier
        BY <1>1, <2>3, <4>1, Zenon DEF RelayInv, PartialsOK
      <4> QED BY <1>2, <4>1, <4>2, Zenon
    <3> QED BY <3>1, <3>2, Zenon
  <2> QED BY <2>1, <2>3, PartialsKept, Zenon DEF RelayInv
<1>7. SlotsOK'
  <2>1. ASSUME NEW g \in Hash, Len(mapBlocksInFlight'[g]) = limit,
               mapBlocksInFlight'[g] = mapBlocksInFlight[g]
        PROVE  RequestedFrom(g)' \cap Outbound # {}
    BY <1>1, <2>1, Zenon DEF RelayInv, SlotsOK, RequestedFrom
  <2>2. ASSUME p \notin Range(s), Len(t) = limit
        PROVE  \/ RequestedFrom(h)' \cap Outbound # {}
               \/ /\ msg'.at = "txns" /\ msg'.hash = h /\ Head(t) # msg'.peer
                  /\ partialBlock'[msg'.peer][h] = "header"
    <3>0. limit \in Nat /\ limit > 1
      BY LimitAssumption, RelayAssumption
    <3>1. Range(t) = Range(s) \cup {p} /\ Len(t) = Len(s) + 1 /\ (s # <<>> => Head(t) # p)
      BY <1>4, <2>2, Zenon
    <3> HIDE DEF s, t, limit
    <3>2. Len(s) = limit - 1 /\ Len(s) > 0 /\ s # <<>>
      BY <1>3, <2>2, <3>0, <3>1
    <3>3. ~ FirstInFlight(p, h)
      BY <1>5, <2>2, <3>2, Zenon
    <3>4. CASE status = "complete"
      <4>1. msg' = [at |-> "txns", peer |-> p, hash |-> h] /\ partialBlock'[p][h] = "header"
        BY <3>4, Zenon DEF CompactKept, RelayInv, PartialsOK
      <4>2. Head(t) # p
        BY <3>1, <3>2, Zenon
      <4> QED BY <4>1, <4>2, Zenon
    <3>5. CASE status # "complete"
      <4>1. KeepsParallelSlot(p, h)
        BY <3>3, <3>5 DEF CompactKept
      <4>2. p \in Outbound \/ Range(s) \cap Outbound # {}
        <5>1. ~ (Len(s) < limit - 1)
          BY <3>0, <3>2
        <5> QED BY <4>1, <5>1, Zenon
                DEF KeepsParallelSlot, IsBlockRequestedFromOutbound, RequestedFrom, s, limit
      <4> QED BY <3>1, <4>2, Zenon DEF RequestedFrom, t
    <3> QED BY <3>4, <3>5, Zenon
  <2> QED BY <1>2, <2>1, <2>2, Zenon DEF SlotsOK
<1>8. SourcesOK'
  <2>1. CASE status = "failed"
    <3>1. SetCompactOutcome(h, p, "fallback")
      BY <2>1 DEF CompactKept
    <3>2. h > tip /\ h \notin failed
      BY NewBlock, Zenon DEF RelayInv
    <3>3. h \notin DOMAIN supplier
      BY DEF RelayInv, ChainOK
    <3> QED BY <1>1, <3>1, <3>2, <3>3, OutcomeSet, Zenon DEF RelayInv
  <2>2. CASE status # "failed"
    BY <1>1, <2>2, SourcesSame, Zenon DEF CompactKept, RelayInv
  <2> QED BY <2>1, <2>2, Zenon
<1> QED BY <1>6, <1>7, <1>8, Zenon DEF RelayInv, ChainOK

(***************************************************************************)
(* CMPCTBLOCK, all cases.                                                  *)
(***************************************************************************)
LEMMA CmpctBlockInv ==
    ASSUME RelayInv, TrackerInv', MsgInv', [TrackerNext]_trackerVars, ~ aborted,
           NEW p \in Node, NEW h \in Hash, CmpctBlock(p, h)
    PROVE  RelayInv'
<1>1. msg = Idle /\ msg.at = "idle" /\ HeaderValid(h) /\ UNCHANGED <<stored, tip, failed, supplier>>
  BY DEF CmpctBlock, Serving, Idle
<1>2. CASE /\ UNCHANGED <<trackerVars, partialBlock, mapBlockSource>>
           /\ msg' = msg \/ msg'.at \in {"headers", "optimistic"}
  <2>1. UNCHANGED vBlocksInFlight
    BY <1>2 DEF trackerVars, requestVars
  <2> QED BY <1>1, <1>2, <2>1, NothingDropped, NoBlockStep, Zenon DEF RelayInv
<1>3. ASSUME NEW status \in {"failed", "missing", "complete"}, CompactKept(p, h, status),
             ~ CompactIgnored(p, h)
      PROVE  RelayInv'
  BY <1>1, <1>3, CompactKeptInv, Zenon DEF CompactIgnored
<1>4. ASSUME NEW status \in {"invalid", "failed", "missing"}, CompactGivenUp(p, h, status)
      PROVE  RelayInv'
  <2>1. QuietNext
    BY <1>4 DEF CompactGivenUp, QuietNext
  <2> QED BY <1>1, <1>4, <2>1, NoBlockStep, Zenon DEF CompactGivenUp
<1> QED BY <1>2, <1>3, <1>4 DEF CmpctBlock, CompactAsHeaders, CompactOptimistic

(***************************************************************************)
(* The bookkeeping of the relay holds at the start.                        *)
(***************************************************************************)
LEMMA RelayInitInv == RelayInit => RelayInv
<1> SUFFICES ASSUME RelayInit PROVE RelayInv
  OBVIOUS
<1>1. TrackerInv /\ MsgInv
  BY TrackerInitInv DEF RelayInit, Init, MsgInv
<1>2. PartialsOK /\ SourcesOK /\ ChainOK
  <2>1. PartialsOK
    BY DEF RelayInit, PartialsOK, OneFallback, Reconstruction
  <2>2. DOMAIN mapBlockSource = {} /\ DOMAIN supplier = {}
    BY DEF RelayInit
  <2>3. SourcesOK
    BY <2>2 DEF RelayInit, SourcesOK
  <2>4. ChainOK
    BY <2>2 DEF RelayInit, Init, ChainOK
  <2> QED BY <2>1, <2>3, <2>4, Zenon
<1>3. SlotsOK
  <2>1. \A h \in Hash : mapBlocksInFlight[h] = <<>>
    BY DEF RelayInit, Init, TrackerInit
  <2> QED BY <2>1, LimitAssumption DEF SlotsOK
<1> QED BY <1>1, <1>2, <1>3 DEF RelayInv

(***************************************************************************)
(* No step of the relay breaks it.                                         *)
(***************************************************************************)
LEMMA RelayNextInv == RelayInv /\ [RelayNext]_allVars => RelayInv'
<1> SUFFICES ASSUME RelayInv, [RelayNext]_allVars PROVE RelayInv'
  OBVIOUS
<1>1. TrackerInv' /\ MsgInv' /\ [TrackerNext]_trackerVars
  BY RelayStep, TrackerNextInv DEF RelayInv
<1>2. CASE UNCHANGED allVars
  <2>1. [QuietNext]_trackerVars
    BY <1>2, Zenon DEF allVars, vars
  <2> QED BY <1>1, <1>2, <2>1, PeersInv, Zenon
<1>3. ASSUME RelayNext, NEW p \in Node, NEW h \in Hash, CmpctBlock(p, h) PROVE RelayInv'
  BY <1>1, <1>3, CmpctBlockInv DEF RelayNext
<1>4. CASE RelayNext /\ ~ \E p \in Node, h \in Hash : CmpctBlock(p, h)
  <2>0. [QuietNext]_trackerVars
    BY <1>4, QuietStep, Zenon DEF RelayInv
  <2>1. CASE \/ \E p \in Node : PeerStep(p)
             \/ \E p \in Node, h \in Hash : Headers(p, h) \/ MutatedBlock(p, h)
             \/ HeadersDirectFetchBlocks \/ ClearDownloadState
    BY <1>1, <2>0, <2>1, PeersInv, Zenon
  <2>2. CASE OptimisticSource \/ \E p \in Node, h \in Hash : Block(p, h)
    BY <1>1, <2>0, <2>2, BlockInv, Zenon
  <2>3. ASSUME NEW p \in Node, NEW h \in Hash, BlockTxn(p, h) PROVE RelayInv'
    BY <1>1, <2>0, <2>3, TxnsInv, Zenon DEF BlockTxn, Serving
  <2>4. CASE CompleteCompactBlock
    <3>1. msg.at = "txns" /\ msg # Idle /\ ProcessCompactBlockTxns(msg.peer, msg.hash, "direct")
      BY <2>4 DEF CompleteCompactBlock, Idle
    <3>2. msg.peer \in Node /\ msg.hash \in Hash
      BY <3>1, MsgBusy DEF RelayInv
    <3> QED BY <1>1, <2>0, <3>1, <3>2, TxnsInv, Zenon
  <2>5. CASE Store \/ Reject \/ Connecting \/ Finish
    BY <1>1, <2>0, <2>5, StoreInv, VerdictInv, FinishInv, Zenon
  <2>6. CASE \E h \in Submitted : Submit(h)
    BY <1>1, <2>0, <2>6, SubmitInv, Zenon
  <2>7. CASE \E p \in FetchTargets, h \in Hash : Fetch(p, h)
    BY <1>1, <2>0, <2>7, FetchInv
  <2> QED BY <1>4, <2>1, <2>2, <2>3, <2>4, <2>5, <2>6, <2>7, Zenon DEF RelayNext
<1> QED BY <1>2, <1>3, <1>4

(***************************************************************************)
(* The reconstructions, slots, stored blocks and sources of the relay      *)
(* agree with each other in every reachable state.                         *)
(***************************************************************************)
THEOREM RelayInvariant == RelaySpec => []RelayInv
BY RelayInitInv, RelayNextInv, PTL DEF RelaySpec

(***************************************************************************)
(* After a failed reconstruction (ProcessCompactBlockTxns, CMPCTBLOCK) the *)
(* full block is fetched from the first peer asked only, for any number of *)
(* peers that reconstruct the block in parallel.                           *)
(***************************************************************************)
THEOREM AlwaysOneFallback == RelaySpec => []OneFallback
<1>1. RelayInv => OneFallback
  BY Zenon DEF RelayInv, PartialsOK
<1> QED BY <1>1, RelayInvariant, PTL

(***************************************************************************)
(* The last parallel slot of a block is taken by an outbound peer, for any *)
(* MAX_CMPCTBLOCKS_INFLIGHT_PER_BLOCK above one.                           *)
(***************************************************************************)
THEOREM LastSlotAlwaysForOutbound == RelaySpec => []LastSlotForOutbound
<1>1. RelayInv => LastSlotForOutbound
  <2>1. Idle.at = "idle"
    BY Zenon DEF Idle
  <2> QED BY <2>1 DEF RelayInv, SlotsOK, LastSlotForOutbound
<1> QED BY <1>1, RelayInvariant, PTL

(***************************************************************************)
(* BlockChecked holds the verdict on a stored block against the peer that  *)
(* sent the copy that was stored, and against nobody else.                 *)
(***************************************************************************)
THEOREM SourceAlwaysSupplier == RelaySpec => []SourceIsSupplier
<1>1. RelayInv => SourceIsSupplier
  <2>1. Idle.at = "idle"
    BY DEF Idle
  <2> QED BY <2>1, Zenon DEF RelayInv, SourcesOK, Accepting, SourceIsSupplier
<1> QED BY <1>1, RelayInvariant, PTL

(***************************************************************************)
(* Every entry of mapBlockSource waits for a verdict, except those of      *)
(* reconstructions that fail after the verdict.                            *)
(***************************************************************************)
THEOREM SourcesAlwaysPending == RelaySpec => []SourcesPending
<1>1. RelayInv => SourcesPending
  <2>1. Idle.at = "idle"
    BY DEF Idle
  <2> QED BY <2>1 DEF RelayInv, SourcesOK, Accepting, Pending, SourcesPending
<1> QED BY <1>1, RelayInvariant, PTL
============================================================================
