------------------------- MODULE HighBandwidthPeers -------------------------
(***************************************************************************)
(* The peers we ask to announce blocks as compact blocks without being     *)
(* asked (BIP 152 high-bandwidth mode): lNodesAnnouncingHeaderAndIDs of    *)
(* PeerManagerImpl (net_processing.cpp), which BlockChecked updates with   *)
(* the source of every valid new block.  The list may name peers that have *)
(* gone; they keep their place until they are pushed out.                  *)
(***************************************************************************)
EXTENDS Integers, Sequences, FiniteSets, Functions, Queues, Connections

CONSTANTS
    Inbound,  \* peers that connected to us
    Provides, \* peers that support compact blocks
    Slots     \* length of the list: 3

ASSUME SlotsAssumption ==
    /\ Slots \in Nat \ {0, 1}
    /\ Inbound \cup Provides \subseteq Node

VARIABLES
    fDisconnect,                  \* peers marked for disconnection
    lNodesAnnouncingHeaderAndIDs,
    m_bip152_highbandwidth_to     \* peers whose CNode has the flag

listVars == <<connected, gone, fDisconnect, lNodesAnnouncingHeaderAndIDs,
          m_bip152_highbandwidth_to>>

list == lNodesAnnouncingHeaderAndIDs

LiveOutbound(s) == {p \in Range(s) : p \in connected /\ p \notin Inbound}

ListInit ==
    /\ NotConnected
    /\ fDisconnect = {}
    /\ lNodesAnnouncingHeaderAndIDs = <<>>
    /\ m_bip152_highbandwidth_to = {}

InitializeNode(p) ==
    /\ Opened(p)
    /\ UNCHANGED <<fDisconnect, lNodesAnnouncingHeaderAndIDs, m_bip152_highbandwidth_to>>

MarkDisconnected(p) ==
    /\ p \in connected \ fDisconnect
    /\ fDisconnect' = fDisconnect \cup {p}
    /\ UNCHANGED <<connected, gone, lNodesAnnouncingHeaderAndIDs, m_bip152_highbandwidth_to>>

FinalizeNode(p) ==
    /\ p \in fDisconnect
    /\ Closed(p)
    /\ m_bip152_highbandwidth_to' = m_bip152_highbandwidth_to \ {p}
    /\ UNCHANGED <<fDisconnect, lNodesAnnouncingHeaderAndIDs>>

(***************************************************************************)
(* MaybeSetPeerAsAnnouncingHeaderAndIDs(p).  ForNode only reaches peers    *)
(* that are not marked for disconnection.                                  *)
(***************************************************************************)
Reachable == connected \ fDisconnect

\* The only outbound peer of a full list is moved out of the first place.
SwapFirst(s) == [s EXCEPT ![1] = s[2], ![2] = s[1]]

\* Faulty: nobody is sheltered.
Unsheltered(p) == list

Sheltered(p) ==
    IF /\ p \in Inbound
       /\ Len(list) >= Slots
       /\ Cardinality(LiveOutbound(list)) = 1
       /\ Head(list) \in LiveOutbound(list)
    THEN SwapFirst(list)
    ELSE list

\* Faulty: pushed back without having been erased.
RefreshTwice(p) ==
    /\ p \in Range(list)
    /\ lNodesAnnouncingHeaderAndIDs' = Append(list, p)
    /\ UNCHANGED m_bip152_highbandwidth_to

RefreshPeer(p) ==
    /\ p \in Range(list)
    /\ lNodesAnnouncingHeaderAndIDs' = Append(Without(list, p), p)
    /\ UNCHANGED m_bip152_highbandwidth_to

AddPeer(p) ==
    /\ p \notin Range(list)
    /\ p \in Reachable
    /\ LET s == Sheltered(p)
       IN  IF Len(s) >= Slots
           THEN /\ lNodesAnnouncingHeaderAndIDs' = Append(Tail(s), p)
                /\ m_bip152_highbandwidth_to' =
                     (m_bip152_highbandwidth_to \ ({Head(s)} \cap Reachable)) \cup {p}
           ELSE /\ lNodesAnnouncingHeaderAndIDs' = Append(s, p)
                /\ m_bip152_highbandwidth_to' = m_bip152_highbandwidth_to \cup {p}

UnreachablePeer(p) ==
    /\ p \notin Range(list)
    /\ p \notin Reachable
    /\ lNodesAnnouncingHeaderAndIDs' = Sheltered(p)
    /\ UNCHANGED m_bip152_highbandwidth_to

MaybeSetPeerAsAnnouncingHeaderAndIDs(p) ==
    /\ p \in connected \cap Provides
    /\ RefreshPeer(p) \/ AddPeer(p) \/ UnreachablePeer(p)
    /\ UNCHANGED <<connected, gone, fDisconnect>>

ListNext ==
    \E p \in Node :
        \/ InitializeNode(p)
        \/ MarkDisconnected(p)
        \/ FinalizeNode(p)
        \/ MaybeSetPeerAsAnnouncingHeaderAndIDs(p)

ListSpec == ListInit /\ [][ListNext]_listVars

-----------------------------------------------------------------------------
(* The shape of the state. *)
HighBandwidthTypeOK ==
    /\ connected \in SUBSET Node
    /\ gone \in SUBSET (Node \ connected)
    /\ fDisconnect \in SUBSET Node
    /\ lNodesAnnouncingHeaderAndIDs \in Seq(Node)
    /\ m_bip152_highbandwidth_to \in SUBSET Node

(***************************************************************************)
(* "As per BIP152, we only get 3 of our peers to announce blocks using     *)
(* compact encodings": of the peers that are not being disconnected,       *)
(* exactly those on the list have been told so, and the list names nobody  *)
(* twice and never more than three.                                        *)
(***************************************************************************)
ListMatchesFlags ==
    /\ IsInjective(list)
    /\ Len(list) <= Slots
    /\ \A p \in Reachable : p \in m_bip152_highbandwidth_to <=> p \in Range(list)

(***************************************************************************)
(* The inductive invariant behind ListMatchesFlags: flags and list entries *)
(* belong to peers we have or had, so a new peer starts with neither.      *)
(***************************************************************************)
ListInv ==
    /\ HighBandwidthTypeOK
    /\ ListMatchesFlags
    /\ m_bip152_highbandwidth_to \subseteq connected
    /\ Range(list) \cup fDisconnect \subseteq connected \cup gone

(***************************************************************************)
(* "make sure we're not removing our last outbound HB peer in the process":*)
(* no update of the list loses its last connected outbound peer, whatever  *)
(* dead entries it holds.                                                  *)
(***************************************************************************)
LastOutboundKept ==
    [][LiveOutbound(list) # {} /\ UNCHANGED connected
         => {p \in Range(list') : p \in connected /\ p \notin Inbound} # {}]_listVars
=============================================================================
