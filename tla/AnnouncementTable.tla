-------------------------- MODULE AnnouncementTable --------------------------
(***************************************************************************)
(* Which peers announced a block before it was validated: the map          *)
(* m_candidate_announcers and the queue m_candidate_announcement_order of  *)
(* PeerManagerImpl (net_processing.cpp), which bounds it.  HEADERS and     *)
(* CMPCTBLOCK handlers enter announcements, BlockChecked credits every     *)
(* peer listed for a valid block and forgets the block.                    *)
(***************************************************************************)
EXTENDS Integers, Sequences, FiniteSets, Functions, Queues, Connections

CONSTANTS
    Hash,
    MAX_TRACKED_ANNOUNCEMENT_HASHES,
    MAX_ANNOUNCERS_PER_HASH

ASSUME TableAssumption ==
    /\ MAX_TRACKED_ANNOUNCEMENT_HASHES \in Nat \ {0}
    /\ MAX_ANNOUNCERS_PER_HASH \in Nat \ {0}

VARIABLES
    m_candidate_announcers,         \* block -> peers that announced it; <<>> if
                                    \* the map has no entry
    m_candidate_announcement_order, \* blocks with an entry, oldest first
    observed                        \* ObserveValidatedAnnouncement calls of the
                                    \* last BlockChecked: how many per peer

tableVars == <<m_candidate_announcers, m_candidate_announcement_order>>
announcementVars == <<connected, gone, tableVars, observed>>

Tracked == {h \in Hash : m_candidate_announcers[h] # <<>>}

TableInit ==
    /\ NotConnected
    /\ m_candidate_announcers = [h \in Hash |-> <<>>]
    /\ m_candidate_announcement_order = <<>>
    /\ observed = [p \in Node |-> 0]

Connect(p) ==
    /\ Opened(p)
    /\ UNCHANGED <<tableVars, observed>>

\* FinalizeNode leaves the announcements of the peer where they are.
Disconnect(p) ==
    /\ Closed(p)
    /\ UNCHANGED <<tableVars, observed>>

(***************************************************************************)
(* RecordCandidateAnnouncement: a block without announcers is queued, and  *)
(* the oldest one dropped if the queue has become too long (one push, so   *)
(* the loop pops once); then the peer is listed if there is room for it.   *)
(***************************************************************************)
Pushed(h) ==
    IF m_candidate_announcers[h] = <<>>
    THEN Append(m_candidate_announcement_order, h)
    ELSE m_candidate_announcement_order

TooLong(h) == Len(Pushed(h)) > MAX_TRACKED_ANNOUNCEMENT_HASHES

Evicted(h) == IF TooLong(h) THEN {Head(Pushed(h))} ELSE {}

Listed(p, h) ==
    LET announcers == m_candidate_announcers[h]
    IN  IF Len(announcers) < MAX_ANNOUNCERS_PER_HASH /\ p \notin Range(announcers)
        THEN Append(announcers, p)
        ELSE announcers

\* Faulty: the newest of the other blocks is dropped.
RecordDropsNewest(p, h) ==
    LET order == m_candidate_announcement_order
        newest == IF TooLong(h) THEN {order[Len(order)]} ELSE {}
    IN  /\ p \in connected
        /\ m_candidate_announcement_order' =
             IF TooLong(h) THEN Append(SubSeq(order, 1, Len(order) - 1), h) ELSE Pushed(h)
        /\ m_candidate_announcers' =
             [g \in Hash |-> IF g \in newest THEN <<>>
                             ELSE IF g = h THEN Listed(p, h)
                             ELSE m_candidate_announcers[g]]
        /\ UNCHANGED <<connected, gone, observed>>

RecordCandidateAnnouncement(p, h) ==
    /\ p \in connected
    /\ m_candidate_announcement_order' = IF TooLong(h) THEN Tail(Pushed(h)) ELSE Pushed(h)
    /\ m_candidate_announcers' =
         [g \in Hash |-> IF g \in Evicted(h) THEN <<>>
                         ELSE IF g = h THEN Listed(p, h)
                         ELSE m_candidate_announcers[g]]
    /\ UNCHANGED <<connected, gone, observed>>

(***************************************************************************)
(* BlockChecked.  A peer that has gone has no CNodeState to credit.        *)
(***************************************************************************)
\* Faulty: State(peer_id) is not asked for.
CreditsGone(p, h) == IF p \in Range(m_candidate_announcers[h]) THEN 1 ELSE 0

Credits(p, h) ==
    IF p \in connected
    THEN Cardinality({i \in DOMAIN m_candidate_announcers[h] : m_candidate_announcers[h][i] = p})
    ELSE 0

\* Faulty: the block stays in the queue.
CheckedKeepsOrder(h, valid) ==
    /\ observed' = [p \in Node |-> IF valid THEN Credits(p, h) ELSE 0]
    /\ m_candidate_announcers' = [m_candidate_announcers EXCEPT ![h] = <<>>]
    /\ UNCHANGED <<connected, gone, m_candidate_announcement_order>>

BlockChecked(h, valid) ==
    /\ observed' = [p \in Node |-> IF valid THEN Credits(p, h) ELSE 0]
    /\ m_candidate_announcers' = [m_candidate_announcers EXCEPT ![h] = <<>>]
    /\ m_candidate_announcement_order' = Without(m_candidate_announcement_order, h)
    /\ UNCHANGED <<connected, gone>>

TableNext ==
    \/ \E p \in Node : Connect(p) \/ Disconnect(p)
    \/ \E p \in Node, h \in Hash : RecordCandidateAnnouncement(p, h)
    \/ \E h \in Hash, valid \in BOOLEAN : BlockChecked(h, valid)

TableSpec == TableInit /\ [][TableNext]_announcementVars

------------------------------------------------------------------------------
(* The shape of the state. *)
TableTypeOK ==
    /\ connected \in SUBSET Node
    /\ gone \in SUBSET (Node \ connected)
    /\ m_candidate_announcers \in [Hash -> Seq(Node)]
    /\ m_candidate_announcement_order \in Seq(Hash)

(***************************************************************************)
(* The queue holds exactly the blocks of the map, each once, and both stay *)
(* within their limits: an entry the queue does not know would never be    *)
(* evicted (a leak), and a queued block without an entry would evict       *)
(* another one for nothing.  The reference into the map that               *)
(* RecordCandidateAnnouncement keeps across the evictions stays valid.     *)
(***************************************************************************)
AnnouncementsTracked ==
    /\ Range(m_candidate_announcement_order) = Tracked
    /\ IsInjective(m_candidate_announcement_order)
    /\ Len(m_candidate_announcement_order) <= MAX_TRACKED_ANNOUNCEMENT_HASHES
    /\ \A h \in Hash : /\ IsInjective(m_candidate_announcers[h])
                       /\ Len(m_candidate_announcers[h]) <= MAX_ANNOUNCERS_PER_HASH

(***************************************************************************)
(* One validated block is worth at most one observation to a peer, however *)
(* often it announced it (by HEADERS and CMPCTBLOCK, or repeatedly), and   *)
(* none to a peer that is no longer connected.                             *)
(***************************************************************************)
CreditedOnce ==
    [][\A p \in Node : /\ observed'[p] <= 1
                       /\ p \in gone => observed'[p] <= observed[p]]_announcementVars

(***************************************************************************)
(* The announcement just made is on record: the peer is listed for the     *)
(* block, unless the list is full, and no other block is forgotten but the *)
(* oldest (the eviction loop).                                             *)
(***************************************************************************)
AnnouncementRemembered ==
    [][\A p \in Node, h \in Hash :
          RecordCandidateAnnouncement(p, h) =>
             /\ \/ p \in Range(m_candidate_announcers'[h])
                \/ Len(m_candidate_announcers'[h]) = MAX_ANNOUNCERS_PER_HASH
             /\ \A g \in Hash : m_candidate_announcers'[g] = <<>> =>
                    \/ m_candidate_announcers[g] = <<>>
                    \/ g = Head(m_candidate_announcement_order)]_announcementVars
==============================================================================
