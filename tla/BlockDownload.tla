---------------------------- MODULE BlockDownload ----------------------------
(***************************************************************************)
(* Downloading a chain of blocks from several peers: the part of           *)
(* SendMessages (net_processing.cpp) that chooses what to request from     *)
(* whom, notices that one peer holds up the download window and            *)
(* disconnects peers that do not deliver; the BLOCK handler; and what      *)
(* validation does with a block as far as the download sees it.            *)
(*                                                                         *)
(* The blocks are the heights of one chain of headers, all of them known   *)
(* and valid as headers.  Time is abstracted: a timer of a peer that does  *)
(* not answer may expire at any moment after it was started.               *)
(***************************************************************************)
EXTENDS BlockTracker, FiniteSetsExt

CONSTANTS
    BLOCK_DOWNLOAD_WINDOW,
    MIN_BLOCKS_TO_KEEP,  \* an unrequested block may be this far ahead
    NODE_NETWORK_LIMITED_MIN_BLOCKS,
    IBDHeight,           \* tip height at which initial block download ends
    Announced,           \* peer -> height of the chain it announces
    Preferred,           \* peers with fPreferredDownload
    Limited,             \* peers that only serve recent blocks
    Responsive,          \* peers that answer within every timeout
    Unsolicited,         \* peers that may send blocks nobody asked them for
    CheckFails,          \* blocks that CheckBlock finds invalid
    ContextFails,        \* blocks that ContextualCheckBlock finds invalid
    ConnectFails,        \* blocks that ConnectBlock finds invalid
    Submitted            \* blocks that may come in by the submitblock RPC

ASSUME ChainAssumption ==
    /\ Hash = 1 .. Cardinality(Hash)
    /\ Announced \in [Node -> 0 .. Cardinality(Hash)]
    /\ BLOCK_DOWNLOAD_WINDOW \in Nat \ {0}
    /\ {MIN_BLOCKS_TO_KEEP, NODE_NETWORK_LIMITED_MIN_BLOCKS, IBDHeight} \subseteq Nat
    /\ Preferred \cup Limited \cup Responsive \cup Unsolicited \subseteq Node
    /\ CheckFails \cup ContextFails \cup ConnectFails \cup Submitted \subseteq Hash

VARIABLES
    pindexBestKnownBlock,  \* peer -> height of the best block it announced
    pindexLastCommonBlock, \* peer -> height of the last block we both have
    fDisconnect,           \* peers marked for disconnection
    stored,                \* blocks with BLOCK_HAVE_DATA
    tip,                   \* height of the active chain
    failed,                \* blocks marked BLOCK_FAILED_VALID
    msg                    \* where the message handler thread is

downloadVars == <<pindexBestKnownBlock, pindexLastCommonBlock, fDisconnect,
                  stored, tip, failed, msg>>
vars == <<trackerVars, downloadVars>>

Idle == [at |-> "idle"]

\* The message handler thread is between two messages and serves p.
Serving(p) == msg = Idle /\ p \in m_peer_map \ fDisconnect

InitialBlockDownload == tip < IBDHeight

\* Everything up to this height has been stored: pindex->HaveNumChainTxs().
Linked == Max({0} \cup {h \in Hash : 1 .. h \subseteq stored})

----------------------------------------------------------------------------
(***************************************************************************)
(* FindNextBlocksToDownload and FindNextBlocks for peer p: the walk starts *)
(* after the last common block and ends at the peer's best block, one past *)
(* the window, or at a block known to be invalid.                          *)
(***************************************************************************)
NothingInteresting(p) == pindexBestKnownBlock[p] = 0 \/ pindexBestKnownBlock[p] < tip

WalkStart(p) == Max({pindexLastCommonBlock[p], Min({pindexBestKnownBlock[p], tip})})

nWindowEnd(p) == WalkStart(p) + BLOCK_DOWNLOAD_WINDOW

Walked(p) ==
    {h \in Hash : /\ WalkStart(p) < h
                  /\ h <= pindexBestKnownBlock[p]
                  /\ h <= nWindowEnd(p) + 1
                  /\ \A g \in failed : h < g}

NewLastCommon(p) ==
    Max({WalkStart(p)} \cup {h \in Walked(p) : h <= Linked})

\* Faulty: blocks that have arrived out of order are asked for again.
MissingOrStored(p) == {h \in Walked(p) : ~ IsBlockRequested(h)}

Missing(p) == {h \in Walked(p) : h \notin stored /\ ~ IsBlockRequested(h)}

BeyondLimited(p, h) ==
    /\ p \in Limited
    /\ pindexBestKnownBlock[p] - h >= NODE_NETWORK_LIMITED_MIN_BLOCKS - 2

\* Faulty: off by one at the end of the window.
WantedPastWindow(p) == {h \in Missing(p) : h <= nWindowEnd(p) + 1 /\ ~ BeyondLimited(p, h)}

Wanted(p) == {h \in Missing(p) : h <= nWindowEnd(p) /\ ~ BeyondLimited(p, h)}

InflightBudget(p) ==
    Max({0, MAX_BLOCKS_IN_TRANSIT_PER_PEER - Cardinality(vBlocksInFlight[p])})

\* The lowest wanted blocks, as many as the budget allows.
ToDownload(p) ==
    {h \in Wanted(p) : Cardinality({g \in Wanted(p) : g < h}) < InflightBudget(p)}

InFlightWalked(p) == {h \in Walked(p) : h \notin stored /\ IsBlockRequested(h)}

\* Faulty: the last block in flight, not the first.
AwaitedLast(p) == Max(InFlightWalked(p))

\* The block whose first peer becomes waitingfor.
Awaited(p) == Min(InFlightWalked(p))

\* Who holds up p: the first peer asked for the first block in flight, when
\* only the block just past the window is missing.
WaitingFor(p) ==
    IF InFlightWalked(p) = {} THEN {}
    ELSE {Head(mapBlocksInFlight[Awaited(p)])}

Staller(p) ==
    IF Wanted(p) = {} /\ nWindowEnd(p) + 1 \in Missing(p)
    THEN WaitingFor(p) \ {p}
    ELSE {}

----------------------------------------------------------------------------
Init ==
    /\ TrackerInit
    /\ pindexBestKnownBlock = [p \in Node |-> 0]
    /\ pindexLastCommonBlock = [p \in Node |-> 0]
    /\ fDisconnect = {}
    /\ stored = {}
    /\ tip = 0
    /\ failed = {}
    /\ msg = Idle

Connect(p) ==
    /\ InitializeNodeState(p) \/ InitializePeer(p)
    /\ UNCHANGED downloadVars

\* The connection breaks, or is closed for a reason that is not modelled.
ConnectionLost(p) ==
    /\ p \in m_peer_map \ (fDisconnect \cup Responsive)
    /\ fDisconnect' = fDisconnect \cup {p}
    /\ UNCHANGED <<trackerVars, pindexBestKnownBlock, pindexLastCommonBlock,
                   stored, tip, failed, msg>>

\* DisconnectNodes deletes a connection once the message handler has let go.
DeleteNode(p) ==
    /\ p \in fDisconnect
    /\ msg # Idle => msg.peer # p
    /\ FinalizeNode(p)
    /\ pindexBestKnownBlock' = [pindexBestKnownBlock EXCEPT ![p] = 0]
    /\ pindexLastCommonBlock' = [pindexLastCommonBlock EXCEPT ![p] = 0]
    /\ UNCHANGED <<fDisconnect, stored, tip, failed, msg>>

\* A HEADERS message during initial block download: UpdateBlockAvailability.
ReceiveHeaders(p) ==
    /\ Serving(p)
    /\ pindexBestKnownBlock[p] < Announced[p]
    /\ pindexBestKnownBlock' = [pindexBestKnownBlock EXCEPT ![p] = Announced[p]]
    /\ UNCHANGED <<trackerVars, pindexLastCommonBlock, fDisconnect, stored, tip,
                   failed, msg>>

----------------------------------------------------------------------------
(***************************************************************************)
(* SendMessages(p): the stall timer, the download timer, and otherwise     *)
(* requests for blocks.                                                    *)
(***************************************************************************)
\* Faulty: only the stall timer disconnects.
SendStallTimeoutOnly(p) ==
    /\ Serving(p)
    /\ p \notin Responsive
    /\ m_stalling_since[p]
    /\ fDisconnect' = fDisconnect \cup {p}
    /\ UNCHANGED <<trackerVars, pindexBestKnownBlock, pindexLastCommonBlock,
                   stored, tip, failed, msg>>

SendTimeout(p) ==
    /\ Serving(p)
    /\ p \notin Responsive
    /\ m_stalling_since[p] \/ vBlocksInFlight[p] # {}
    /\ fDisconnect' = fDisconnect \cup {p}
    /\ UNCHANGED <<trackerVars, pindexBestKnownBlock, pindexLastCommonBlock,
                   stored, tip, failed, msg>>

SyncFromPeer(p) ==
    \/ p \in Preferred
    \/ Preferred \cap m_peer_map = {}
    \/ \A h \in Hash : ~ IsBlockRequested(h)

MayDownloadFrom(p) ==
    /\ \/ SyncFromPeer(p) /\ p \notin Limited
       \/ ~ InitialBlockDownload
    /\ InflightBudget(p) > 0
    /\ ~ NothingInteresting(p)

\* Faulty: m_peers_downloading_from is not raised.
SendUncounted(p, H) ==
    /\ H # {}
    /\ mapBlocksInFlight' = [h \in Hash |-> IF h \in H THEN Append(mapBlocksInFlight[h], p)
                                           ELSE mapBlocksInFlight[h]]
    /\ vBlocksInFlight' = [vBlocksInFlight EXCEPT ![p] = @ \cup H]
    /\ UNCHANGED <<m_peers_downloading_from, m_stalling_since, m_quality_stall_recorded>>
    /\ UNCHANGED <<lifeVars, fetch, aborted>>

\* BlockRequested for each of the blocks H of one getdata message.
SendRequests(p, H) ==
    /\ H # {}
    /\ RequestEffect(p, H)
    /\ UNCHANGED <<lifeVars, fetch, aborted>>

SendGetData(p) ==
    /\ Serving(p)
    /\ MayDownloadFrom(p)
    /\ pindexLastCommonBlock' = [pindexLastCommonBlock EXCEPT ![p] = NewLastCommon(p)]
    /\ \/ SendRequests(p, ToDownload(p))
       \/ /\ ToDownload(p) = {} /\ vBlocksInFlight[p] = {}
          /\ \E q \in Staller(p) : StallStart(q, Awaited(p))
       \/ /\ ToDownload(p) = {}
          /\ vBlocksInFlight[p] = {} => \A q \in Staller(p) : m_stalling_since[q]
          /\ UNCHANGED trackerVars
    /\ UNCHANGED <<pindexBestKnownBlock, fDisconnect, stored, tip, failed, msg>>

----------------------------------------------------------------------------
(***************************************************************************)
(* The BLOCK handler.  cs_main is released before ProcessNewBlock and      *)
(* taken again after it, so the handler is three steps of the message      *)
(* thread with the connecting of blocks between the last two.              *)
(***************************************************************************)
ReceiveBlock(p, h) ==
    /\ Serving(p)
    /\ h <= Announced[p]
    /\ h \in vBlocksInFlight[p] \/ p \in Unsolicited
    /\ msg' = [at |-> "accept", peer |-> p, hash |-> h, force |-> IsBlockRequested(h)]
    /\ \/ RemoveBlockRequestFrom(p, h)
       \/ p \notin RequestedFrom(h) /\ UNCHANGED trackerVars
    /\ UNCHANGED <<pindexBestKnownBlock, pindexLastCommonBlock, fDisconnect,
                   stored, tip, failed>>

\* AcceptBlockHeader, for a header we know: InvalidBlockFound marks all of
\* the blocks that build on an invalid one.
HeaderValid(h) == \A g \in failed : h < g

\* AcceptBlock ignores a block we have, and one too far ahead to be wanted.
Wants(h, requested) ==
    /\ h \notin stored
    /\ requested \/ (tip <= h /\ h <= tip + MIN_BLOCKS_TO_KEEP)

\* The checks ProcessNewBlock makes before it stores a block.
Rejected(h, requested) ==
    \/ h \in CheckFails
    \/ ~ HeaderValid(h)
    \/ Wants(h, requested) /\ h \in ContextFails

IsNew(h, requested) == Wants(h, requested) /\ ~ Rejected(h, requested)

\* BlockChecked may punish the peer the block came from, see BlockRelay.
MayPunish == fDisconnect' \in {fDisconnect} \cup {fDisconnect \cup {p} : p \in m_node_states}

StoreBlock ==
    /\ msg.at = "accept"
    /\ IsNew(msg.hash, msg.force)
    /\ stored' = stored \cup {msg.hash}
    /\ msg' = [msg EXCEPT !.at = "stored"]
    /\ UNCHANGED <<trackerVars, pindexBestKnownBlock, pindexLastCommonBlock,
                   fDisconnect, tip, failed>>

RejectEffect(h, requested) ==
    /\ ~ IsNew(h, requested)
    /\ failed' = failed \cup {g \in {h} \cap ContextFails : Wants(g, requested) /\
                                                   HeaderValid(g) /\ g \notin CheckFails}
    /\ IF Rejected(h, requested) THEN MayPunish ELSE UNCHANGED fDisconnect
    /\ UNCHANGED <<trackerVars, pindexBestKnownBlock, pindexLastCommonBlock, stored, tip>>

RejectBlock ==
    /\ msg.at = "accept"
    /\ RejectEffect(msg.hash, msg.force)
    /\ msg' = Idle

CanConnect == tip + 1 \in stored \ failed

\* ActivateBestChain connects stored blocks for as long as it finds one.
ConnectTip ==
    /\ CanConnect
    /\ \/ tip + 1 \notin ConnectFails /\ tip' = tip + 1 /\ UNCHANGED <<failed, fDisconnect>>
       \/ tip + 1 \in ConnectFails /\ failed' = failed \cup {tip + 1} /\ UNCHANGED tip /\ MayPunish
    /\ UNCHANGED <<trackerVars, pindexBestKnownBlock, pindexLastCommonBlock, stored, msg>>

\* ProcessNewBlock on an RPC thread, with force_processing.
SubmitBlock(h) ==
    /\ \/ /\ IsNew(h, TRUE)
          /\ stored' = stored \cup {h}
          /\ UNCHANGED <<trackerVars, pindexBestKnownBlock, pindexLastCommonBlock,
                         fDisconnect, tip, failed>>
       \/ RejectEffect(h, TRUE)
    /\ UNCHANGED msg

\* ProcessBlock, for a new block: nobody else has to send it any more.
FinishBlock ==
    /\ msg.at = "stored"
    /\ ~ CanConnect
    /\ msg' = Idle
    /\ \/ RemoveBlockRequests(msg.hash)
       \/ ~ IsBlockRequested(msg.hash) /\ UNCHANGED trackerVars
    /\ UNCHANGED <<pindexBestKnownBlock, pindexLastCommonBlock, fDisconnect,
                   stored, tip, failed>>

----------------------------------------------------------------------------
\* The getblockfrompeer RPC, for a block that is not stored when it is called.
FetchBlock(p, h) ==
    /\ \/ h \notin stored /\ FetchBlockLookup(p, h)
       \/ FetchBlockRequest(p, h)
       \/ FetchBlockAbort(p, h)
    /\ UNCHANGED downloadVars

Next ==
    /\ ~ aborted
    /\ \/ \E p \in Node : \/ Connect(p)
                           \/ ConnectionLost(p)
                           \/ DeleteNode(p)
                           \/ ReceiveHeaders(p)
                           \/ SendTimeout(p)
                           \/ SendGetData(p)
                           \/ \E h \in Hash : ReceiveBlock(p, h)
       \/ StoreBlock
       \/ RejectBlock
       \/ ConnectTip
       \/ FinishBlock
       \/ \E h \in Submitted : SubmitBlock(h)
       \/ \E p \in FetchTargets, h \in Hash : FetchBlock(p, h)

Spec == Init /\ [][Next]_vars

(***************************************************************************)
(* ThreadMessageHandler serves every connected peer once per round, and    *)
(* finishes the message it has started; a peer comes round again however   *)
(* often the thread was busy in between, hence strong fairness.  The timer *)
(* of a peer that stays silent expires.  A responsive peer answers.        *)
(***************************************************************************)
Fairness ==
    /\ \A p \in Node :
          /\ WF_vars(Connect(p))
          /\ WF_vars(DeleteNode(p))
          /\ SF_vars(ReceiveHeaders(p))
          /\ SF_vars(SendTimeout(p))
          /\ SF_vars(SendGetData(p))
    /\ \A p \in Responsive, h \in Hash :
          SF_vars(h \in vBlocksInFlight[p] /\ ReceiveBlock(p, h))
    /\ WF_vars(StoreBlock) /\ WF_vars(RejectBlock)
    /\ WF_vars(ConnectTip) /\ WF_vars(FinishBlock)

FairSpec == Spec /\ Fairness

----------------------------------------------------------------------------
(***************************************************************************)
(* Blocks are requested no further than the download window beyond the     *)
(* blocks we have without a gap, whichever peers the requests go to and    *)
(* whatever each of them has announced (FindNextBlocks, nWindowEnd).  Only *)
(* getblockfrompeer asks for any block.                                    *)
(***************************************************************************)
RequestsInWindow ==
    \A h \in Hash : RequestedFrom(h) \subseteq FetchTargets
                      \/ h <= Linked + BLOCK_DOWNLOAD_WINDOW

(***************************************************************************)
(* Between messages no block that is already stored is outstanding: the    *)
(* requests to the other peers go when the first copy is stored            *)
(* (ProcessBlock), and none is made after that.  Only a getblockfrompeer   *)
(* that found the block missing may ask for it later; and submitblock      *)
(* leaves the requests for its block alone.                                *)
(***************************************************************************)
NoStoredBlockRequested ==
    msg = Idle => \A h \in stored \ Submitted : RequestedFrom(h) \subseteq FetchTargets

(***************************************************************************)
(* The peer whose stall timer SendMessages starts is the one the download  *)
(* waits for: whichever peer found the window full, no missing block that  *)
(* anybody has been asked for comes before the first one the staller owes. *)
(***************************************************************************)
StallerHasFirstRequest ==
    [][\A p \in Node : ~ m_stalling_since[p] /\ m_stalling_since'[p] =>
         \A h \in Hash \ stored :
             IsBlockRequested(h) => \E g \in vBlocksInFlight[p] \ stored : g <= h]_vars

(***************************************************************************)
(* While a responsive peer has announced the whole chain, all of it is     *)
(* downloaded and connected in the end, however many of the other peers    *)
(* accept requests and never answer them.                                  *)
(***************************************************************************)
DownloadCompletes == <>[](tip = Cardinality(Hash))

(***************************************************************************)
(* No request stays outstanding for ever: the block arrives, or the peer   *)
(* is disconnected and FinalizeNode drops the request.                     *)
(***************************************************************************)
RequestsResolved ==
    \A p \in Node, h \in Hash :
        h \in vBlocksInFlight[p] ~> h \notin vBlocksInFlight[p]
==============================================================================
