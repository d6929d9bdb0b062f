----------------------------- MODULE BlockRelay -----------------------------
(***************************************************************************)
(* Block relay near the tip: the HEADERS, CMPCTBLOCK, BLOCKTXN and BLOCK   *)
(* handlers of ProcessMessage (net_processing.cpp), with the parallel      *)
(* reconstruction of compact blocks and the record mapBlockSource of which *)
(* peer a block came from, from which validation (BlockChecked) credits    *)
(* and punishes.                                                           *)
(*                                                                         *)
(* The contents of messages are abstracted to what the code finds out      *)
(* about them: a compact block is invalid, cannot be indexed, misses       *)
(* transactions or is complete; filling it succeeds, fails or is invalid.  *)
(***************************************************************************)
EXTENDS BlockDownload

CONSTANTS
    Outbound,          \* peers we connected to
    HighBandwidth,     \* peers we asked to announce by compact block
    DirectFetchHeight  \* tip height from which CanDirectFetch() holds

ASSUME RelayAssumption ==
    /\ Outbound \cup HighBandwidth \subseteq Node
    /\ DirectFetchHeight \in Nat
    /\ MAX_CMPCTBLOCKS_INFLIGHT_PER_BLOCK > 1

VARIABLES
    partialBlock,   \* peer -> block -> state of its reconstruction
    mapBlockSource, \* block -> where it came from, for some blocks
    supplier        \* history: stored block -> the peer that sent it

relayVars == <<partialBlock, mapBlockSource, supplier>>
allVars == <<vars, relayVars>>

(***************************************************************************)
(* A reconstruction is "none", holds a "header" and waits for              *)
(* transactions, has "failed" in InitData, or was "wiped" by a failing     *)
(* FillBlock, which clears its header; after a failure the peer is asked   *)
(* for the full block.  A source has the peer, whether the body came in    *)
(* full, whether it was requested, and the outcome of a reconstruction:    *)
(* "none", "direct", "after_blocktxn" or "fallback".                       *)
(***************************************************************************)
CanDirectFetch == tip >= DirectFetchHeight

\* Faulty: any of the peers asked counts as the first.
AnyInFlight(p, h) == IsBlockRequested(h) => p \in RequestedFrom(h)

FirstInFlight(p, h) == IsBlockRequested(h) => Head(mapBlocksInFlight[h]) = p

IsBlockRequestedFromOutbound(h) == RequestedFrom(h) \cap m_peer_map \cap Outbound # {}

\* A QueuedBlock takes its partialBlock with it when it leaves the peer's list.
PartialsInFlight ==
    [p \in Node |-> [h \in Hash |-> IF h \in vBlocksInFlight'[p] THEN partialBlock[p][h]
                                    ELSE "none"]]

\* insert_or_assign on a std::map.
InsertOrAssign(map, h, value) ==
    [g \in DOMAIN map \cup {h} |-> IF g = h THEN value ELSE map[g]]

SetSource(h, source) == mapBlockSource' = InsertOrAssign(mapBlockSource, h, source)

EraseSource(h) == mapBlockSource' = Restrict(mapBlockSource, DOMAIN mapBlockSource \ {h})

\* The entry of another peer is left as it is.
SetCompactOutcome(h, p, o) ==
    IF h \notin DOMAIN mapBlockSource
    THEN SetSource(h, [peer |-> p, full |-> FALSE, requested |-> FALSE, outcome |-> o])
    ELSE IF mapBlockSource[h].peer = p
         THEN mapBlockSource' = [mapBlockSource EXCEPT ![h].outcome = o]
         ELSE UNCHANGED mapBlockSource

\* The peer is disconnected unless it has the NoBan permission or is manual.
Misbehaving(p) == fDisconnect' \in {fDisconnect, fDisconnect \cup {p}}

\* UpdateBlockAvailability: the best block a peer has announced.
UpdateBlockAvailability(p, h) ==
    pindexBestKnownBlock' = [pindexBestKnownBlock EXCEPT ![p] = Max({@, h})]

RelayInit ==
    /\ Init
    /\ partialBlock = [p \in Node |-> [h \in Hash |-> "none"]]
    /\ mapBlockSource = <<>>
    /\ supplier = <<>>

----------------------------------------------------------------------------
(***************************************************************************)
(* HEADERS: an invalid header is held against an outbound peer, a valid    *)
(* one is recorded; HeadersDirectFetchBlocks follows in a critical section *)
(* of its own.                                                             *)
(***************************************************************************)
Headers(p, h) ==
    /\ Serving(p)
    /\ h <= Announced[p]
    /\ \/ /\ HeaderValid(h)
          /\ UpdateBlockAvailability(p, h)
          /\ msg' = [at |-> "headers", peer |-> p, hash |-> h]
          /\ UNCHANGED fDisconnect
       \/ /\ ~ HeaderValid(h) /\ p \in Outbound
          /\ Misbehaving(p)
          /\ UNCHANGED <<pindexBestKnownBlock, msg>>
    /\ UNCHANGED <<trackerVars, pindexLastCommonBlock, stored, tip, failed, relayVars>>

\* The walk back from the last header h to the active chain.
ToFetch(h) ==
    {g \in Hash : tip < g /\ g <= h /\ g \notin stored /\ ~ IsBlockRequested(g)}

\* The walk gave up before it reached the active chain.
LargeReorg(h) ==
    LET collected == {g \in ToFetch(h) : Cardinality({f \in ToFetch(h) : f > g})
                                            <= MAX_BLOCKS_IN_TRANSIT_PER_PEER}
    IN  /\ Cardinality(collected) > MAX_BLOCKS_IN_TRANSIT_PER_PEER
        /\ Min(collected) > tip + 1

DirectFetch(p, h) ==
    IF CanDirectFetch /\ HeaderValid(h) /\ ~ LargeReorg(h)
    THEN {g \in ToFetch(h) : Cardinality({f \in ToFetch(h) : f < g}) < InflightBudget(p)}
    ELSE {}

HeadersDirectFetchBlocks ==
    /\ msg.at = "headers"
    /\ LET H == DirectFetch(msg.peer, msg.hash)
       IN  SendRequests(msg.peer, H) \/ (H = {} /\ UNCHANGED trackerVars)
    /\ msg' = Idle
    /\ UNCHANGED <<pindexBestKnownBlock, pindexLastCommonBlock, fDisconnect, stored, tip,
                   failed, relayVars>>

----------------------------------------------------------------------------
(***************************************************************************)
(* CMPCTBLOCK.  One of the following five cases applies once the header    *)
(* has been accepted and the peer's availability updated.                  *)
(***************************************************************************)
NearTip(h) == h <= tip + 2

CompactIgnored(p, h) ==
    \/ h \in stored
    \/ ~ IsBlockRequested(h) /\ ~ CanDirectFetch
    \/ ~ NearTip(h) /\ p \in RequestedFrom(h)
    \/ partialBlock[p][h] # "none"

\* Treated like a HEADERS message.
CompactAsHeaders(p, h) ==
    /\ ~ NearTip(h)
    /\ msg' = [at |-> "headers", peer |-> p, hash |-> h]
    /\ UNCHANGED <<trackerVars, fDisconnect, partialBlock, mapBlockSource>>

\* Reconstructed although no slot is left for a request to p.
CompactOptimistic(p, h) ==
    /\ NearTip(h) /\ ~ MayRequestCompact(p, h)
    /\ msg' = [at |-> "optimistic", peer |-> p, hash |-> h]
    /\ UNCHANGED <<trackerVars, fDisconnect, partialBlock, mapBlockSource>>

\* Faulty: the last slot is not reserved.
KeepsAnySlot(p, h) ==
    /\ p \in HighBandwidth
    /\ Len(mapBlocksInFlight[h]) < MAX_CMPCTBLOCKS_INFLIGHT_PER_BLOCK

\* A further attempt next to the first one keeps its slot.
KeepsParallelSlot(p, h) ==
    /\ p \in HighBandwidth
    /\ \/ p \in Outbound
       \/ IsBlockRequestedFromOutbound(h)
       \/ Len(mapBlocksInFlight[h]) < MAX_CMPCTBLOCKS_INFLIGHT_PER_BLOCK - 1

\* The request is made, or was there, and stays with the reconstruction as it is.
CompactKept(p, h, status) ==
    /\ NearTip(h)
    /\ RequestCompactBlock(p, h)
    /\ partialBlock' = [partialBlock EXCEPT ![p][h] = IF status = "failed" THEN "failed"
                                                      ELSE "header"]
    /\ \/ status = "complete" /\ msg' = [at |-> "txns", peer |-> p, hash |-> h]
                              /\ UNCHANGED mapBlockSource
       \/ /\ status = "missing" /\ (FirstInFlight(p, h) \/ KeepsParallelSlot(p, h))
          /\ UNCHANGED <<msg, mapBlockSource>>
       \/ /\ status = "failed" /\ FirstInFlight(p, h)
          /\ SetCompactOutcome(h, p, "fallback")
          /\ UNCHANGED msg
    /\ UNCHANGED fDisconnect

CompactGivenUp(p, h, status) ==
    /\ NearTip(h) /\ MayRequestCompact(p, h)
    /\ \/ status = "invalid" /\ Misbehaving(p)
       \/ status = "missing" /\ ~ FirstInFlight(p, h) /\ ~ KeepsParallelSlot(p, h)
                             /\ UNCHANGED fDisconnect
       \/ status = "failed" /\ ~ FirstInFlight(p, h) /\ UNCHANGED fDisconnect
    /\ RemoveBlockRequestFrom(p, h) \/ RequestAndGiveUp(p, h)
    /\ partialBlock' = PartialsInFlight
    /\ UNCHANGED <<msg, mapBlockSource>>

CmpctBlock(p, h) ==
    /\ Serving(p)
    /\ h <= Announced[p] /\ HeaderValid(h)
    /\ UpdateBlockAvailability(p, h)
    /\ \/ /\ CompactIgnored(p, h) \/ (NearTip(h) /\ ~ MayRequestCompact(p, h))
          /\ UNCHANGED <<trackerVars, fDisconnect, msg, partialBlock, mapBlockSource>>
       \/ /\ ~ CompactIgnored(p, h)
          /\ \/ CompactAsHeaders(p, h)
             \/ CompactOptimistic(p, h)
             \/ \E status \in {"failed", "missing", "complete"} : CompactKept(p, h, status)
             \/ \E status \in {"invalid", "failed", "missing"} : CompactGivenUp(p, h, status)
    /\ UNCHANGED <<pindexLastCommonBlock, stored, tip, failed, supplier>>

\* The block was put together without asking p for it.
OptimisticSource ==
    /\ msg.at = "optimistic"
    /\ SetSource(msg.hash, [peer |-> msg.peer, full |-> FALSE, requested |-> FALSE,
                            outcome |-> "direct"])
    /\ msg' = [at |-> "accept", peer |-> msg.peer, hash |-> msg.hash, force |-> TRUE,
               optimistic |-> TRUE]
    /\ UNCHANGED <<trackerVars, pindexBestKnownBlock, pindexLastCommonBlock, fDisconnect,
                   stored, tip, failed, partialBlock, supplier>>

----------------------------------------------------------------------------
(***************************************************************************)
(* ProcessCompactBlockTxns, for a BLOCKTXN message and for a compact block *)
(* that misses nothing.                                                    *)
(***************************************************************************)
TxnsInvalid(p, h) ==
    /\ RemoveBlockRequestFrom(p, h)
    /\ partialBlock' = PartialsInFlight
    /\ Misbehaving(p)
    /\ msg' = Idle
    /\ UNCHANGED mapBlockSource

TxnsFailed(p, h) ==
    /\ partialBlock[p][h] # "wiped"
    /\ \/ /\ FirstInFlight(p, h)
          /\ partialBlock' = [partialBlock EXCEPT ![p][h] = "wiped"]
          /\ SetCompactOutcome(h, p, "fallback")
          /\ UNCHANGED trackerVars
       \/ /\ ~ FirstInFlight(p, h)
          /\ RemoveBlockRequestFrom(p, h)
          /\ partialBlock' = PartialsInFlight
          /\ UNCHANGED mapBlockSource
    /\ msg' = Idle
    /\ UNCHANGED fDisconnect

TxnsOk(p, h, outcome) ==
    /\ partialBlock[p][h] # "wiped"
    /\ RemoveBlockRequestFrom(p, h)
    /\ partialBlock' = PartialsInFlight
    /\ SetSource(h, [peer |-> p, full |-> FALSE, requested |-> TRUE, outcome |-> outcome])
    /\ msg' = [at |-> "accept", peer |-> p, hash |-> h, force |-> TRUE]
    /\ UNCHANGED fDisconnect

ProcessCompactBlockTxns(p, h, outcome) ==
    /\ \/ /\ partialBlock[p][h] # "none"
          /\ TxnsInvalid(p, h) \/ TxnsFailed(p, h) \/ TxnsOk(p, h, outcome)
       \/ /\ partialBlock[p][h] = "none"
          /\ msg' = Idle
          /\ UNCHANGED <<trackerVars, fDisconnect, partialBlock, mapBlockSource>>
    /\ UNCHANGED <<pindexBestKnownBlock, pindexLastCommonBlock, stored, tip, failed, supplier>>

BlockTxn(p, h) ==
    /\ Serving(p)
    /\ ProcessCompactBlockTxns(p, h, "after_blocktxn")

CompleteCompactBlock ==
    /\ msg.at = "txns"
    /\ ProcessCompactBlockTxns(msg.peer, msg.hash, "direct")

----------------------------------------------------------------------------
(***************************************************************************)
(* BLOCK: a mutated block is dropped; any other is recorded with its       *)
(* source, keeping the outcome of an earlier reconstruction with that peer.*)
(***************************************************************************)
MutatedBlock(p, h) ==
    /\ Serving(p)
    /\ h \in vBlocksInFlight[p]
    /\ RemoveBlockRequestFrom(p, h)
    /\ partialBlock' = PartialsInFlight
    /\ Misbehaving(p)
    /\ UNCHANGED <<pindexBestKnownBlock, pindexLastCommonBlock, stored, tip, failed, msg,
                   mapBlockSource, supplier>>

EarlierOutcome(p, h) ==
    IF h \in DOMAIN mapBlockSource /\ mapBlockSource[h].peer = p
    THEN mapBlockSource[h].outcome
    ELSE "none"

\* Faulty: emplace instead of insert_or_assign, an entry that exists is kept.
BlockEmplaces(p, h) ==
    /\ ReceiveBlock(p, h)
    /\ partialBlock' = PartialsInFlight
    /\ IF h \in DOMAIN mapBlockSource THEN UNCHANGED mapBlockSource
       ELSE SetSource(h, [peer |-> p, full |-> TRUE, requested |-> p \in RequestedFrom(h),
                          outcome |-> "none"])
    /\ UNCHANGED supplier

Block(p, h) ==
    /\ ReceiveBlock(p, h)
    /\ partialBlock' = PartialsInFlight
    /\ SetSource(h, [peer |-> p, full |-> TRUE, requested |-> p \in RequestedFrom(h),
                     outcome |-> EarlierOutcome(p, h)])
    /\ UNCHANGED supplier

----------------------------------------------------------------------------
(***************************************************************************)
(* Validation.  BlockChecked runs inside ProcessNewBlock: when a block is  *)
(* rejected, and when it is connected or found invalid on connecting.  It  *)
(* punishes the peer of a full block and forgets the source.               *)
(***************************************************************************)
Offenders(h) ==
    {p \in m_node_states :
        /\ h \in DOMAIN mapBlockSource
        /\ mapBlockSource[h].peer = p
        /\ mapBlockSource[h].full
        /\ h \in CheckFails \/ HeaderValid(h) \/ p \in Outbound}

BlockCheckedInvalid(h) ==
    /\ fDisconnect' \in {fDisconnect, fDisconnect \cup Offenders(h)}
    /\ EraseSource(h)

Store ==
    /\ StoreBlock
    /\ supplier' = InsertOrAssign(supplier, msg.hash, msg.peer)
    /\ UNCHANGED <<partialBlock, mapBlockSource>>

\* Faulty: only BlockChecked forgets the source.
RejectKeepsSource ==
    /\ msg.at = "accept"
    /\ RejectEffect(msg.hash, msg.force)
    /\ msg' = IF "optimistic" \in DOMAIN msg
              THEN [at |-> "clear", peer |-> msg.peer, hash |-> msg.hash]
              ELSE Idle
    /\ IF Rejected(msg.hash, msg.force) THEN BlockCheckedInvalid(msg.hash)
       ELSE UNCHANGED mapBlockSource
    /\ UNCHANGED <<partialBlock, supplier>>

\* ProcessBlock forgets the source of a block that is not new in any case.
Reject ==
    /\ msg.at = "accept"
    /\ RejectEffect(msg.hash, msg.force)
    /\ msg' = IF "optimistic" \in DOMAIN msg
              THEN [at |-> "clear", peer |-> msg.peer, hash |-> msg.hash]
              ELSE Idle
    /\ IF Rejected(msg.hash, msg.force) THEN BlockCheckedInvalid(msg.hash)
       ELSE EraseSource(msg.hash)
    /\ UNCHANGED <<partialBlock, supplier>>

\* After an optimistic reconstruction: another thread may have stored the block.
ClearDownloadState ==
    /\ msg.at = "clear"
    /\ \/ msg.hash \in stored /\ HeaderValid(msg.hash) /\ RemoveBlockRequests(msg.hash)
       \/ /\ ~ (msg.hash \in stored /\ HeaderValid(msg.hash) /\ IsBlockRequested(msg.hash))
          /\ UNCHANGED trackerVars
    /\ partialBlock' = PartialsInFlight
    /\ msg' = Idle
    /\ UNCHANGED <<pindexBestKnownBlock, pindexLastCommonBlock, fDisconnect, stored, tip,
                   failed, mapBlockSource, supplier>>

Connecting ==
    /\ ConnectTip
    /\ IF tip + 1 \in ConnectFails THEN BlockCheckedInvalid(tip + 1)
       ELSE EraseSource(tip + 1)
    /\ UNCHANGED <<partialBlock, supplier>>

Finish ==
    /\ FinishBlock
    /\ partialBlock' = PartialsInFlight
    /\ UNCHANGED <<mapBlockSource, supplier>>

Submit(h) ==
    /\ SubmitBlock(h)
    /\ IF Rejected(h, TRUE) THEN BlockCheckedInvalid(h) ELSE UNCHANGED mapBlockSource
    /\ UNCHANGED <<partialBlock, supplier>>

----------------------------------------------------------------------------
\* getblockfrompeer replaces a request, reconstruction included, by a new one.
Fetch(p, h) ==
    /\ FetchBlock(p, h)
    /\ partialBlock' = IF <<p, h>> \in fetch \ fetch'
                       THEN [PartialsInFlight EXCEPT ![p][h] = "none"]
                       ELSE partialBlock
    /\ UNCHANGED <<mapBlockSource, supplier>>

PeerStep(p) ==
    /\ Connect(p) \/ ConnectionLost(p) \/ DeleteNode(p) \/ SendTimeout(p) \/ SendGetData(p)
    /\ partialBlock' = PartialsInFlight
    /\ UNCHANGED <<mapBlockSource, supplier>>

RelayNext ==
    /\ ~ aborted
    /\ \/ \E p \in Node : PeerStep(p)
       \/ \E p \in Node, h \in Hash :
             \/ Headers(p, h)
             \/ CmpctBlock(p, h)
             \/ BlockTxn(p, h)
             \/ Block(p, h)
             \/ MutatedBlock(p, h)
       \/ HeadersDirectFetchBlocks
       \/ OptimisticSource
       \/ CompleteCompactBlock
       \/ Store
       \/ Reject
       \/ ClearDownloadState
       \/ Connecting
       \/ Finish
       \/ \E h \in Submitted : Submit(h)
       \/ \E p \in FetchTargets, h \in Hash : Fetch(p, h)

RelaySpec == RelayInit /\ [][RelayNext]_allVars

----------------------------------------------------------------------------
(***************************************************************************)
(* The source on record for a stored block that still awaits its verdict   *)
(* is the peer whose message it was stored from, however many other peers  *)
(* announced, reconstructed or re-sent the block meanwhile: BlockChecked   *)
(* credits or punishes nobody else for it.                                 *)
(***************************************************************************)
SourceIsSupplier ==
    msg = Idle =>
        \A h \in DOMAIN mapBlockSource \cap DOMAIN supplier :
            mapBlockSource[h].peer = supplier[h]

(***************************************************************************)
(* mapBlockSource has no limit of its own: it stays small because every    *)
(* entry waits for a verdict.  Between messages an entry is for a block    *)
(* that is neither connected nor found invalid, and stored if it is for a  *)
(* complete body.  The exception is a reconstruction that fails after the  *)
(* block got its verdict otherwise, because submitblock has stored it or   *)
(* ContextualCheckBlock has rejected another peer's copy of it: the entry  *)
(* comes too late for any verdict and stays.                               *)
(***************************************************************************)
SourcesPending ==
    msg = Idle =>
        \A h \in DOMAIN mapBlockSource :
            /\ mapBlockSource[h].full => h \in stored
            /\ \/ h > tip /\ h \notin failed
               \/ h \in Submitted \cup ContextFails /\ ~ mapBlockSource[h].full

(***************************************************************************)
(* "it's not the final parallel download slot (which we may reserve for    *)
(* first outbound)": when all the parallel slots of a block are taken, an  *)
(* outbound peer has one of them, whoever came and went before.            *)
(***************************************************************************)
LastSlotForOutbound ==
    msg = Idle =>
        \A h \in Hash :
            Len(mapBlocksInFlight[h]) = MAX_CMPCTBLOCKS_INFLIGHT_PER_BLOCK
              => RequestedFrom(h) \cap Outbound # {}

(***************************************************************************)
(* Only the first peer asked for a block is sent a getdata for the full    *)
(* block after a failed reconstruction, and it stays the first for as long *)
(* as the request is outstanding, so at most one full copy of a block is   *)
(* downloaded as a fallback.                                               *)
(***************************************************************************)
OneFallback ==
    \A p \in Node, h \in Hash :
        partialBlock[p][h] \in {"failed", "wiped"} => Head(mapBlocksInFlight[h]) = p

(***************************************************************************)
(* "Sources of received blocks, retained until validation attributes the   *)
(* outcome" (mapBlockSource): a block received from a peer and stored has  *)
(* its source on record until it is connected or found invalid.            *)
(***************************************************************************)
SourceRetained ==
    msg = Idle =>
        \A h \in DOMAIN supplier :
            h > tip /\ HeaderValid(h) => h \in DOMAIN mapBlockSource
=============================================================================
