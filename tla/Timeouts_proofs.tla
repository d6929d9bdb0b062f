--------------------------- MODULE Timeouts_proofs ---------------------------
(***************************************************************************)
(* Proofs about the timeout of SendMessages for a peer whose chain falls   *)
(* behind, and about the choice of the peers that headers are synchronised *)
(* from (ChainSync): for any set of peers, any timeouts and chains of any  *)
(* length.                                                                 *)
(***************************************************************************)
EXTENDS ChainSync, FiniteSetTheorems, TLAPS

(***************************************************************************)
(* The timer of ConsiderEviction: a deadline is set together with the work *)
(* header, which the code asserts before it probes, and the time waited so *)
(* far and the time left add up to the timeouts granted.  A peer that has  *)
(* been evicted keeps its timer until it is finalized.                     *)
(***************************************************************************)
TimerOK(passed, left, sent, header, gone) ==
    /\ passed \in Nat /\ passed <= MaxWait
    /\ left \in Int /\ left >= Off
    /\ sent \in BOOLEAN
    /\ left # Off =>
          /\ header # None
          /\ passed + left >= CHAIN_SYNC_TIMEOUT
          /\ sent => passed + left > CHAIN_SYNC_TIMEOUT + HEADERS_RESPONSE_TIME
    /\ gone => sent /\ left = Expired

TimerInv ==
    /\ tip \in Nat
    /\ DOMAIN waited = Node /\ DOMAIN m_timeout = Node
    /\ DOMAIN m_sent_getheaders = Node /\ DOMAIN m_work_header = Node
    /\ evicted \subseteq fDisconnect \cap Node
    /\ \A p \in Node : TimerOK(waited[p], m_timeout[p], m_sent_getheaders[p],
                               m_work_header[p], p \in evicted)

USE DEF None, Off, Expired, MaxWait

\* In a state of the invariant the evicted peers have had their time.
LEMMA TimerInvImplies == ASSUME TimerInv PROVE LaggardsHadTheirTime
  BY SyncAssumption DEF TimerInv, TimerOK, LaggardsHadTheirTime

(***************************************************************************)
(* No timer runs at the start.                                             *)
(***************************************************************************)
LEMMA TimerInit == ASSUME Init PROVE TimerInv
  BY SyncAssumption DEF Init, TimerInv, TimerOK

\* Steps that leave the timers alone and may only mark more peers.
LEMMA TimerKept ==
    ASSUME TimerInv, UNCHANGED timer, tip' \in Nat, fDisconnect \subseteq fDisconnect'
    PROVE  TimerInv'
  BY SyncAssumption DEF TimerInv, TimerOK, timer

(***************************************************************************)
(* Time passes for both sides of the sum.                                  *)
(***************************************************************************)
LEMMA TimerTick == ASSUME TimerInv, Tick PROVE TimerInv'
  BY SyncAssumption DEF TimerInv, TimerOK, Tick, Elapse, blocks

\* A step that sets the timer of p only, and to values that satisfy the invariant.
LEMMA TimerChanged ==
    ASSUME TimerInv, NEW p \in Node, NEW timeout, NEW header, NEW sent,
           SetTimer(p, timeout, header, sent),
           DOMAIN waited' = Node, \A q \in Node \ {p} : waited'[q] = waited[q],
           evicted' \subseteq evicted, tip' = tip, fDisconnect \subseteq fDisconnect',
           TimerOK(waited'[p], timeout, sent, header, p \in evicted')
    PROVE  TimerInv'
<1>1. ASSUME NEW q \in Node
      PROVE  TimerOK(waited'[q], m_timeout'[q], m_sent_getheaders'[q], m_work_header'[q],
                     q \in evicted')
  <2>1. CASE q = p
    BY <2>1 DEF SetTimer, TimerInv
  <2>2. CASE q # p
    BY <2>2 DEF SetTimer, TimerInv, TimerOK
  <2>. QED
    BY <2>1, <2>2
<1>. QED
  BY <1>1 DEF TimerInv, SetTimer

(***************************************************************************)
(* FinalizeNode forgets the timer with the peer.                           *)
(***************************************************************************)
LEMMA TimerFinalize ==
    ASSUME TimerInv, NEW p \in Node, FinalizeNode(p) PROVE TimerInv'
<1>1. TimerOK(waited'[p], Off, FALSE, None, p \in evicted')
  BY SyncAssumption DEF TimerOK, TimerInv, FinalizeNode, Forget
<1>. QED
  BY <1>1, TimerChanged, Zenon DEF FinalizeNode, Forget, blocks, TimerInv

\* The branches of ConsiderEviction.
LEMMA TimerConsider ==
    ASSUME TimerInv, NEW p \in Node, Serving(p), ConsiderEviction(p), UNCHANGED tip
    PROVE  TimerInv'
<1>0. /\ p \notin evicted
      /\ TimerOK(waited[p], m_timeout[p], m_sent_getheaders[p], m_work_header[p], p \in evicted)
  BY DEF TimerInv, Serving
<1>1. CASE UNCHANGED <<timer, fDisconnect>>
  BY <1>1, TimerKept DEF TimerInv
<1>2. CASE /\ SetTimer(p, Off, None, FALSE)
           /\ waited' = [waited EXCEPT ![p] = 0]
           /\ UNCHANGED <<evicted, fDisconnect>>
  <2>1. TimerOK(waited'[p], Off, FALSE, None, p \in evicted')
    BY <1>0, <1>2, SyncAssumption DEF TimerOK, TimerInv
  <2>. QED
    BY <1>2, <2>1, TimerChanged, Zenon DEF TimerInv
<1>3. CASE /\ SetTimer(p, CHAIN_SYNC_TIMEOUT, tip, FALSE)
           /\ waited' = [waited EXCEPT ![p] = 0]
           /\ UNCHANGED <<evicted, fDisconnect>>
  <2>1. TimerOK(waited'[p], CHAIN_SYNC_TIMEOUT, FALSE, tip, p \in evicted')
    BY <1>0, <1>3, SyncAssumption DEF TimerOK, TimerInv
  <2>. QED
    BY <1>3, <2>1, TimerChanged, Zenon DEF TimerInv
<1>4. CASE /\ Overdue(p) /\ m_sent_getheaders[p]
           /\ fDisconnect' = fDisconnect \cup {p} /\ evicted' = evicted \cup {p}
           /\ UNCHANGED <<m_timeout, m_work_header, m_sent_getheaders, waited, probed>>
  BY <1>0, <1>4, SyncAssumption DEF TimerInv, TimerOK, Overdue
<1>5. CASE /\ Overdue(p) /\ ~ m_sent_getheaders[p]
           /\ Probe(p)
           /\ UNCHANGED <<waited, evicted, fDisconnect>>
  <2>1. TimerOK(waited'[p], HEADERS_RESPONSE_TIME, TRUE, m_work_header[p], p \in evicted')
    BY <1>0, <1>5, SyncAssumption DEF TimerOK, TimerInv, Overdue
  <2>. QED
    BY <1>5, <2>1, TimerChanged, Zenon DEF TimerInv, Probe
<1>. QED
  BY <1>1, <1>2, <1>3, <1>4, <1>5, Zenon DEF ConsiderEviction

(***************************************************************************)
(* No step breaks the invariant of the timers.                             *)
(***************************************************************************)
LEMMA TimerStep == ASSUME TimerInv, [Next]_vars PROVE TimerInv'
<1>1. CASE Tick
  BY <1>1, TimerTick
<1>2. CASE TipGrows
  BY <1>2, TimerKept DEF TipGrows, TimerInv
<1>3. ASSUME NEW p \in Node,
             \/ PeerChainGrows(p) \/ Connect(p) \/ ConnectionLost(p)
             \/ Inv(p) \/ UnconnectingHeader(p) \/ SyncTimeout(p)
      PROVE  TimerInv'
  BY <1>3, TimerKept, Zenon DEF PeerChainGrows, Connect, ConnectionLost, Inv, UnconnectingHeader,
                         SyncTimeout, TimerInv, blocks
<1>4. ASSUME NEW p \in Node, Announce(p) \/ Answer(p)
      PROVE  TimerInv'
  BY <1>4, TimerKept, Zenon DEF Announce, Answer, ProcessHeaders, ProcessNoHeaders, TimerInv, blocks
<1>5. ASSUME NEW p \in Node, FinalizeNode(p)
      PROVE  TimerInv'
  BY <1>5, TimerFinalize
<1>6. ASSUME NEW p \in Node, SendMessages(p)
      PROVE  TimerInv'
  BY <1>6, TimerConsider DEF SendMessages, blocks
<1>7. CASE UNCHANGED vars
  BY <1>7, TimerKept DEF vars, blocks, TimerInv
<1>. QED
  BY <1>1, <1>2, <1>3, <1>4, <1>5, <1>6, <1>7 DEF Next

(***************************************************************************)
(* LaggardsHadTheirTime: ConsiderEviction marks a peer only after both     *)
(* CHAIN_SYNC_TIMEOUT and HEADERS_RESPONSE_TIME have passed for one and    *)
(* the same work header.                                                   *)
(***************************************************************************)
THEOREM LaggardsAlwaysHadTheirTime == Spec => []LaggardsHadTheirTime
<1>1. Init => TimerInv
  BY TimerInit
<1>2. TimerInv /\ [Next]_vars => TimerInv'
  BY TimerStep
<1>3. TimerInv => LaggardsHadTheirTime
  BY TimerInvImplies
<1>. QED
  BY <1>1, <1>2, <1>3, PTL DEF Spec

-------------------------------------------------------------------------------
CountInv == m_node_states \subseteq Node /\ SyncPeersCounted

\* Cardinality when one element comes or goes.
LEMMA OneMore ==
    ASSUME NEW S, IsFiniteSet(S), NEW x, x \notin S
    PROVE  Cardinality(S \cup {x}) = Cardinality(S) + 1
  BY FS_AddElement

(***************************************************************************)
(* Cardinality when an element goes that may not have been there.          *)
(***************************************************************************)
LEMMA OneLess ==
    ASSUME NEW S, IsFiniteSet(S), NEW x
    PROVE  Cardinality(S \ {x}) = Cardinality(S) - Cardinality(S \cap {x})
<1>0. Cardinality(S) \in Nat
  BY FS_CardinalityType
<1>1. CASE x \in S
  <2>1. S \cap {x} = {x}
    BY <1>1
  <2>2. Cardinality(S \cap {x}) = 1
    BY <2>1, FS_Singleton
  <2>3. Cardinality(S \ {x}) = Cardinality(S) - 1
    BY <1>1, FS_RemoveElement
  <2>. QED
    BY <2>2, <2>3
<1>2. CASE x \notin S
  <2>1. S \cap {x} = {} /\ S \ {x} = S
    BY <1>2
  <2>2. Cardinality(S \cap {x}) = 0
    BY <2>1, FS_EmptySet
  <2>3. Cardinality(S \ {x}) = Cardinality(S)
    BY <2>1
  <2>. QED
    BY <1>0, <2>2, <2>3
<1>. QED
  BY <1>1, <1>2

(***************************************************************************)
(* The peers counted are finitely many.                                    *)
(***************************************************************************)
LEMMA CountFinite == ASSUME CountInv PROVE IsFiniteSet(fSyncStarted)
  BY SyncAssumption, FS_Subset DEF CountInv, SyncPeersCounted

\* UpdateSync starts with a peer that is not counted or resets one that is.
LEMMA CountUpdate ==
    ASSUME CountInv, NEW p \in Node, NEW idle, Serving(p), UpdateSync(p, StartsSync(p, idle)),
           UNCHANGED m_node_states
    PROVE  CountInv'
<1>. DEFINE starts == StartsSync(p, idle)
<1>1. CASE starts
  <2>1. p \notin fSyncStarted /\ ~ SyncStalled(p)
    BY <1>1 DEF StartsSync, SyncStalled
  <2>2. fSyncStarted' = fSyncStarted \cup {p} /\ nSyncStarted' = nSyncStarted + 1
    BY <1>1, <2>1 DEF UpdateSync
  <2>. QED
    BY <2>1, <2>2, OneMore, CountFinite DEF CountInv, SyncPeersCounted, Serving
<1>2. CASE ~ starts /\ SyncStalled(p)
  <2>1. p \in fSyncStarted
    BY <1>2 DEF SyncStalled
  <2>2. fSyncStarted' = fSyncStarted \ {p} /\ nSyncStarted' = nSyncStarted - 1
    BY <1>2 DEF UpdateSync
  <2>3. fSyncStarted \cap {p} = {p} /\ Cardinality({p}) = 1
    BY <2>1, FS_Singleton, Zenon
  <2>. QED
    BY <2>2, <2>3, OneLess, CountFinite DEF CountInv, SyncPeersCounted
<1>3. CASE ~ starts /\ ~ SyncStalled(p)
  <2>1. fSyncStarted' = fSyncStarted /\ nSyncStarted' = nSyncStarted
    BY <1>3 DEF UpdateSync
  <2>. QED
    BY <2>1 DEF CountInv, SyncPeersCounted
<1>. QED
  BY <1>1, <1>2, <1>3

(***************************************************************************)
(* Every step keeps the count right.                                       *)
(***************************************************************************)
LEMMA CountStep == ASSUME CountInv, [Next]_vars PROVE CountInv'
<1>. USE DEF CountInv, SyncPeersCounted
<1>1. CASE Tick \/ TipGrows \/ UNCHANGED vars
  BY <1>1 DEF Tick, TipGrows, vars, syncing
<1>2. ASSUME NEW p \in Node,
             \/ PeerChainGrows(p) \/ Connect(p) \/ ConnectionLost(p) \/ Inv(p)
             \/ UnconnectingHeader(p) \/ SyncTimeout(p) \/ Announce(p) \/ Answer(p)
      PROVE  CountInv'
  BY <1>2, Zenon DEF PeerChainGrows, Connect, ConnectionLost, Inv, UnconnectingHeader,
              SyncTimeout, Announce, Answer, ProcessHeaders, ProcessNoHeaders, syncing
<1>3. ASSUME NEW p \in Node, FinalizeNode(p)
      PROVE  CountInv'
  BY <1>3, OneLess, CountFinite, Zenon DEF FinalizeNode
<1>4. ASSUME NEW p \in Node, SendMessages(p)
      PROVE  CountInv'
  <2>1. PICK idle \in BOOLEAN : UpdateSync(p, StartsSync(p, idle))
    BY <1>4 DEF SendMessages
  <2>. QED
    BY <1>4, <2>1, CountUpdate DEF SendMessages
<1>. QED
  BY <1>1, <1>2, <1>3, <1>4 DEF Next

(***************************************************************************)
(* SyncPeersCounted: nSyncStarted is the number of peers with fSyncStarted *)
(* through starts, resets of NoBan peers and disconnections.               *)
(***************************************************************************)
THEOREM SyncPeersAlwaysCounted == Spec => []SyncPeersCounted
<1>1. Init => CountInv
  BY FS_EmptySet DEF Init, CountInv, SyncPeersCounted
<1>2. CountInv /\ [Next]_vars => CountInv'
  BY CountStep
<1>3. CountInv => SyncPeersCounted
  BY DEF CountInv
<1>. QED
  BY <1>1, <1>2, <1>3, PTL DEF Spec

----------------------------------------------------------------------------
(***************************************************************************)
(* What holds for a peer that answers in time and has no NoBan permission: *)
(* c is its chain, b the best block it has shown, G the requests it has    *)
(* yet to answer, since the ticks since the last one, left, header and     *)
(* sent its timer, at its chain when it was probed and started whether we  *)
(* synchronise with it.                                                    *)
(*                                                                         *)
(* The last request, while it counts as in flight, is one the peer answers *)
(* with headers, or is as old as the timer: only the start of the          *)
(* synchronisation asks for headers the peer may not have, and the timer   *)
(* starts after it.  Once the peer was probed it has shown the work, or    *)
(* has a request to answer that will show it before the deadline.          *)
(***************************************************************************)
PeerOK(c, b, G, since, left, header, sent, at, started) ==
    /\ c \in Nat /\ {b, left, header, at} \subseteq Int /\ since \in Nat
    /\ sent \in BOOLEAN /\ started \in BOOLEAN
    /\ G \in SUBSET [from : Nat, age : 0 .. HEADERS_RESPONSE_TIME]
    /\ at <= c
    /\ left # Off => started
    /\ since <= HEADERS_RESPONSE_TIME =>
          \E r \in G : /\ r.age = since
                       /\ \/ c > r.from \/ sent \/ left = Off
                          \/ since >= CHAIN_SYNC_TIMEOUT - left
    /\ sent /\ header > 0 /\ at >= header =>
          b >= header \/ \E r \in G : c > r.from /\ r.age >= HEADERS_RESPONSE_TIME - left

PromptOK(p) ==
    PeerOK(chain[p], pindexBestKnownBlock[p], getheaders[p], m_last_getheaders_timestamp[p],
           m_timeout[p], m_work_header[p], m_sent_getheaders[p], probed[p], p \in fSyncStarted)

Prompt == Responsive \ NoBan

SyncTypeOK ==
    /\ tip \in Nat /\ m_best_header \in Nat
    /\ chain \in [Node -> Nat]
    /\ pindexBestKnownBlock \in [Node -> Int] /\ hashLastUnknownBlock \in [Node -> Int]
    /\ m_last_getheaders_timestamp \in [Node -> Nat]
    /\ DOMAIN getheaders = Node
    /\ m_timeout \in [Node -> Int] /\ m_work_header \in [Node -> Int]
    /\ m_sent_getheaders \in [Node -> BOOLEAN] /\ probed \in [Node -> Int]
    /\ evicted \subseteq fDisconnect

SyncInv == SyncTypeOK /\ SyncedPeerKept /\ \A p \in Prompt : PromptOK(p)

(***************************************************************************)
(* Heights are natural numbers, None is not.                               *)
(***************************************************************************)
LEMMA IntOfNat == \A n \in Nat : n \in Int
OBVIOUS

(***************************************************************************)
(* The maximum of at most three heights.                                   *)
(***************************************************************************)
LEMMA MaxOfThree ==
    ASSUME NEW x \in Int, NEW y \in Int, NEW z \in Int, NEW S \in SUBSET {x, y, z}, S # {}
    PROVE  Max(S) \in S /\ Max(S) \in Int /\ \A e \in S : e <= Max(S)
<1>1. \E m \in S : \A e \in S : m >= e
  <2> SUFFICES ASSUME \A m \in S : \E e \in S : m < e PROVE FALSE
    OBVIOUS
  <2>1. PICK e1 \in S : TRUE
    BY Zenon
  <2>2. PICK e2 \in S : e1 < e2
    OBVIOUS
  <2>3. PICK e3 \in S : e2 < e3
    OBVIOUS
  <2>4. PICK e4 \in S : e3 < e4
    OBVIOUS
  <2>5. {e1, e2, e3, e4} \subseteq {x, y, z}
    OBVIOUS
  <2> QED BY <2>2, <2>3, <2>4, <2>5
<1>2. Max(S) \in S /\ \A e \in S : Max(S) >= e
  BY <1>1, Zenon DEF Max
<1> QED BY <1>2, Zenon

(***************************************************************************)
(* A locator starts at the genesis block at least.                         *)
(***************************************************************************)
LEMMA MaxWithZero ==
    ASSUME NEW x \in Int
    PROVE  Max({0, x}) \in Nat /\ (x >= 0 => Max({0, x}) = x)
<1> DEFINE S == {0, x}
<1>1. 0 \in Int /\ S \in SUBSET {0, x, x} /\ S # {}
  OBVIOUS
<1> HIDE DEF S
<1>2. Max(S) \in S /\ Max(S) \in Int /\ \A e \in S : e <= Max(S)
  BY <1>1, MaxOfThree, Zenon
<1> USE DEF S
<1> QED BY <1>2

(***************************************************************************)
(* Time passes, for the requests of G too.  The answer of the peer is not  *)
(* overdue.                                                                *)
(***************************************************************************)
Aged(G) == {[from |-> r.from, age |-> r.age + 1] : r \in G}

LEMMA PromptTick ==
    ASSUME NEW c, NEW b, NEW G, NEW since, NEW left, NEW header, NEW sent, NEW at, NEW started,
           PeerOK(c, b, G, since, left, header, sent, at, started),
           \A r \in G : r.age < HEADERS_RESPONSE_TIME,
           NEW now \in {since + 1, Long}, now <= since + 1
    PROVE  PeerOK(c, b, Aged(G), now, Elapse(left), header, sent, at, started)
<1> DEFINE H == Aged(G)
<1>0. H = {[from |-> r.from, age |-> r.age + 1] : r \in G}
  BY Zenon DEF Aged
<1> HIDE DEF H
<1> USE SyncAssumption DEF PeerOK
<1>1. \A r \in G : /\ r \in [from : Nat, age : 0 .. HEADERS_RESPONSE_TIME]
                   /\ r.from \in Nat /\ r.age \in Nat
                   /\ [from |-> r.from, age |-> r.age + 1] \in H
  BY <1>0
<1>2. H \in SUBSET [from : Nat, age : 0 .. HEADERS_RESPONSE_TIME]
  BY <1>0, <1>1
<1>3. Elapse(left) \in Int /\ (Elapse(left) = left \/ Elapse(left) = left - 1)
      /\ (Elapse(left) # Off => left # Off) /\ (left # Off /\ left >= 0 => Elapse(left) # Off)
  BY DEF Elapse
<1>4. ASSUME now <= HEADERS_RESPONSE_TIME
      PROVE  \E r \in H : /\ r.age = now
                          /\ \/ c > r.from \/ sent \/ Elapse(left) = Off
                             \/ now >= CHAIN_SYNC_TIMEOUT - Elapse(left)
  <2>1. now = since + 1 /\ since <= HEADERS_RESPONSE_TIME
    BY <1>4 DEF Long
  <2>2. PICK r \in G : /\ r.age = since
                       /\ \/ c > r.from \/ sent \/ left = Off
                          \/ since >= CHAIN_SYNC_TIMEOUT - left
    BY <2>1
  <2> DEFINE n == [from |-> r.from, age |-> r.age + 1]
  <2>3. n \in H /\ n.age = now /\ n.from = r.from
    BY <1>1, <2>1, <2>2
  <2>4. \/ c > n.from \/ sent \/ Elapse(left) = Off
        \/ now >= CHAIN_SYNC_TIMEOUT - Elapse(left)
    BY <1>3, <2>1, <2>2, <2>3 DEF Elapse
  <2> QED BY <2>3, <2>4
<1>5. ASSUME sent, header > 0, at >= header, ~ b >= header
      PROVE  \E r \in H : c > r.from /\ r.age >= HEADERS_RESPONSE_TIME - Elapse(left)
  <2>1. PICK r \in G : c > r.from /\ r.age >= HEADERS_RESPONSE_TIME - left
    BY <1>5
  <2> DEFINE n == [from |-> r.from, age |-> r.age + 1]
  <2>2. n \in H /\ n.age = r.age + 1 /\ n.from = r.from
    BY <1>1, <2>1
  <2>3. n.age >= HEADERS_RESPONSE_TIME - Elapse(left)
    BY <1>1, <1>3, <2>1, <2>2
  <2> QED BY <2>1, <2>2, <2>3
<1>6. now \in Nat /\ (Elapse(left) # Off => started)
  BY <1>3 DEF Long
<1>7. PeerOK(c, b, H, now, Elapse(left), header, sent, at, started)
  BY <1>2, <1>3, <1>4, <1>5, <1>6
<1> HIDE DEF PeerOK
<1> QED BY <1>7 DEF H

(***************************************************************************)
(* Another request that the peer answers with headers, and no request.     *)
(***************************************************************************)
LEMMA PromptAsked ==
    ASSUME NEW c, NEW b, NEW G, NEW since, NEW left, NEW header, NEW sent, NEW at, NEW started,
           PeerOK(c, b, G, since, left, header, sent, at, started),
           NEW d \in Int, d >= b, NEW l \in Nat, c > l
    PROVE  /\ PeerOK(c, d, G \cup {[from |-> l, age |-> 0]}, 0, left, header, sent, at, started)
           /\ PeerOK(c, d, G, since, left, header, sent, at, started)
<1> USE SyncAssumption DEF PeerOK
<1> DEFINE n == [from |-> l, age |-> 0]
<1>1. n \in [from : Nat, age : 0 .. HEADERS_RESPONSE_TIME] /\ n.age = 0 /\ c > n.from
  OBVIOUS
<1>2. PeerOK(c, d, G, since, left, header, sent, at, started)
  OBVIOUS
<1>3. \A r \in G : r \in G \cup {n}
  OBVIOUS
<1>4. sent /\ header > 0 /\ at >= header =>
         \/ d >= header
         \/ \E r \in G \cup {n} : c > r.from /\ r.age >= HEADERS_RESPONSE_TIME - left
  BY <1>2, <1>3
<1>5. \E r \in G \cup {n} : r.age = 0 /\ c > r.from
  BY <1>1, Zenon
<1>6. G \cup {n} \in SUBSET [from : Nat, age : 0 .. HEADERS_RESPONSE_TIME]
  BY <1>1
<1> HIDE DEF n
<1>7. PeerOK(c, d, G \cup {n}, 0, left, header, sent, at, started)
  BY <1>4, <1>5, <1>6
<1> QED BY <1>2, <1>7 DEF n

(***************************************************************************)
(* Headers or an empty answer arrive.  An answer with headers shows the    *)
(* chain of the peer.                                                      *)
(***************************************************************************)
LEMMA PromptAnswered ==
    ASSUME NEW c, NEW b, NEW G, NEW since, NEW left, NEW header, NEW sent, NEW at, NEW started,
           PeerOK(c, b, G, since, left, header, sent, at, started),
           NEW d \in Int, d >= b, NEW r, c > r.from => d >= c
    PROVE  /\ PeerOK(c, d, G \ {r}, Long, left, header, sent, at, started)
           /\ PeerOK(c, d, G, Long, left, header, sent, at, started)
<1> USE SyncAssumption DEF PeerOK, Long
<1>1. ASSUME sent, header > 0, at >= header, ~ d >= header
      PROVE  \E q \in G \ {r} : c > q.from /\ q.age >= HEADERS_RESPONSE_TIME - left
  <2>1. PICK q \in G : c > q.from /\ q.age >= HEADERS_RESPONSE_TIME - left
    BY <1>1
  <2>2. q # r
    BY <1>1, <2>1
  <2> QED BY <2>1, <2>2
<1> QED BY <1>1

(***************************************************************************)
(* ConsiderEviction stops the timer, or starts it for a peer that we       *)
(* synchronise with.                                                       *)
(***************************************************************************)
LEMMA PromptReset ==
    ASSUME NEW c, NEW b, NEW G, NEW since, NEW left, NEW header, NEW sent, NEW at, NEW started,
           PeerOK(c, b, G, since, left, header, sent, at, started),
           NEW h \in Int
    PROVE  /\ PeerOK(c, b, G, since, Off, None, FALSE, None, started)
           /\ started => PeerOK(c, b, G, since, CHAIN_SYNC_TIMEOUT, h, FALSE, None, started)
<1> USE SyncAssumption DEF PeerOK
<1>1. since <= HEADERS_RESPONSE_TIME => \E r \in G : r.age = since
  OBVIOUS
<1>2. since >= CHAIN_SYNC_TIMEOUT - CHAIN_SYNC_TIMEOUT /\ None <= c
  OBVIOUS
<1> QED BY <1>1, <1>2

(***************************************************************************)
(* SendMessages starts headers synchronisation: no timer runs yet.         *)
(***************************************************************************)
LEMMA PromptStart ==
    ASSUME NEW c, NEW b, NEW G, NEW since, NEW header, NEW sent, NEW at, NEW started,
           PeerOK(c, b, G, since, Off, header, sent, at, started), NEW l \in Nat
    PROVE  PeerOK(c, b, G \cup {[from |-> l, age |-> 0]}, 0, Off, header, sent, at, TRUE)
<1> USE SyncAssumption DEF PeerOK
<1> DEFINE n == [from |-> l, age |-> 0]
<1>1. n \in [from : Nat, age : 0 .. HEADERS_RESPONSE_TIME] /\ n.age = 0
  OBVIOUS
<1>2. G \cup {n} \in SUBSET [from : Nat, age : 0 .. HEADERS_RESPONSE_TIME]
  BY <1>1
<1>3. \E r \in G \cup {n} : r.age = 0
  BY <1>1, Zenon
<1>4. \A r \in G : r \in G \cup {n}
  OBVIOUS
<1>5. sent /\ header > 0 /\ at >= header =>
         \/ b >= header
         \/ \E r \in G \cup {n} : c > r.from /\ r.age >= HEADERS_RESPONSE_TIME - Off
  BY <1>4
<1> HIDE DEF n
<1>6. PeerOK(c, b, G \cup {n}, 0, Off, header, sent, at, TRUE)
  BY <1>2, <1>3, <1>5
<1> QED BY <1>6 DEF n

(***************************************************************************)
(* The probe goes out, or is skipped because of a request in flight, which *)
(* is then younger than the timer.                                         *)
(***************************************************************************)
LEMMA PromptProbe ==
    ASSUME NEW c, NEW b, NEW G, NEW since, NEW header, NEW at, NEW started,
           PeerOK(c, b, G, since, Expired, header, FALSE, at, started),
           NEW l, l = Max({0, header - 1})
    PROVE  /\ since <= HEADERS_RESPONSE_TIME
                => PeerOK(c, b, G, since, HEADERS_RESPONSE_TIME, header, TRUE, c, started)
           /\ since > HEADERS_RESPONSE_TIME
                => PeerOK(c, b, G \cup {[from |-> l, age |-> 0]}, 0, HEADERS_RESPONSE_TIME,
                          header, TRUE, c, started)
<1> USE SyncAssumption DEF PeerOK
<1>0. l \in Nat /\ (header > 0 => l = header - 1)
  <2>1. header - 1 \in Int
    OBVIOUS
  <2>2. l \in Nat /\ (header - 1 >= 0 => l = header - 1)
    BY <2>1, MaxWithZero
  <2> QED BY <2>2
<1>1. started /\ c \in Int
  OBVIOUS
<1>2. ASSUME since <= HEADERS_RESPONSE_TIME
      PROVE  PeerOK(c, b, G, since, HEADERS_RESPONSE_TIME, header, TRUE, c, started)
  <2>1. PICK r \in G : /\ r.age = since
                       /\ c > r.from \/ since >= CHAIN_SYNC_TIMEOUT - Expired
    BY <1>2
  <2>2. c > r.from
    BY <1>2, <2>1
  <2>3. r.age >= HEADERS_RESPONSE_TIME - HEADERS_RESPONSE_TIME
    BY <2>1
  <2> QED BY <1>1, <2>1, <2>2, <2>3
<1>3. ASSUME since > HEADERS_RESPONSE_TIME
      PROVE  PeerOK(c, b, G \cup {[from |-> l, age |-> 0]}, 0, HEADERS_RESPONSE_TIME,
                    header, TRUE, c, started)
  <2> DEFINE n == [from |-> l, age |-> 0]
  <2>1. n \in [from : Nat, age : 0 .. HEADERS_RESPONSE_TIME] /\ n.age = 0 /\ n.from = l
    BY <1>0
  <2>2. G \cup {n} \in SUBSET [from : Nat, age : 0 .. HEADERS_RESPONSE_TIME] /\ n \in G \cup {n}
    BY <2>1
  <2>3. header > 0 /\ c >= header => c > n.from
    BY <1>0, <2>1
  <2>4. n.age >= HEADERS_RESPONSE_TIME - HEADERS_RESPONSE_TIME
    BY <2>1
  <2> HIDE DEF n
  <2>5. PeerOK(c, b, G \cup {n}, 0, HEADERS_RESPONSE_TIME, header, TRUE, c, started)
    BY <1>1, <2>1, <2>2, <2>3, <2>4
  <2> QED BY <2>5 DEF n
<1> QED BY <1>2, <1>3

(***************************************************************************)
(* When the deadline after the probe has passed the answer is here: a peer *)
(* that had the work has shown it.                                         *)
(***************************************************************************)
LEMMA PromptOverdue ==
    ASSUME NEW c, NEW b, NEW G, NEW since, NEW header, NEW at, NEW started,
           PeerOK(c, b, G, since, Expired, header, TRUE, at, started),
           header > 0, at >= header
    PROVE  b >= header
<1> USE SyncAssumption DEF PeerOK
<1>1. \A r \in G : r.age <= HEADERS_RESPONSE_TIME /\ r.age \in Int
  OBVIOUS
<1>2. \A r \in G : ~ r.age >= HEADERS_RESPONSE_TIME - Expired
  BY <1>1
<1> QED BY <1>2

----------------------------------------------------------------------------
(***************************************************************************)
(* What MaybeSendGetHeaders does.                                          *)
(***************************************************************************)
LEMMA AskedStep ==
    ASSUME SyncTypeOK, NEW p \in Node, NEW locator \in Int, MaybeSendGetHeaders(p, locator)
    PROVE  /\ m_last_getheaders_timestamp' \in [Node -> Nat] /\ DOMAIN getheaders' = Node
           /\ \A q \in Node \ {p} :
                 /\ m_last_getheaders_timestamp'[q] = m_last_getheaders_timestamp[q]
                 /\ getheaders'[q] = getheaders[q]
           /\ \/ /\ m_last_getheaders_timestamp[p] <= HEADERS_RESPONSE_TIME
                 /\ m_last_getheaders_timestamp'[p] = m_last_getheaders_timestamp[p]
                 /\ getheaders'[p] = getheaders[p]
              \/ /\ m_last_getheaders_timestamp[p] > HEADERS_RESPONSE_TIME
                 /\ m_last_getheaders_timestamp'[p] = 0
                 /\ p \notin Silent => getheaders'[p] = getheaders[p] \cup
                                          {[from |-> Max({0, locator}), age |-> 0]}
<1> USE SyncAssumption DEF SyncTypeOK
<1>1. CASE MayGetHeaders(p)
  <2> DEFINE new == {[from |-> Max({0, locator}), age |-> 0]}
  <2>1. /\ m_last_getheaders_timestamp' = [m_last_getheaders_timestamp EXCEPT ![p] = 0]
        /\ getheaders' = [q \in Node |-> IF q \in {p} \ Silent THEN getheaders[q] \cup new
                                         ELSE getheaders[q]]
    BY <1>1, Zenon DEF MaybeSendGetHeaders
  <2> HIDE DEF new
  <2>2. /\ DOMAIN getheaders' = Node
        /\ \A q \in Node \ {p} : getheaders'[q] = getheaders[q]
        /\ p \notin Silent => getheaders'[p] = getheaders[p] \cup new
    BY <2>1, Zenon
  <2>3. /\ m_last_getheaders_timestamp' \in [Node -> Nat]
        /\ m_last_getheaders_timestamp'[p] = 0
        /\ \A q \in Node \ {p} :
              m_last_getheaders_timestamp'[q] = m_last_getheaders_timestamp[q]
    BY <2>1
  <2>4. m_last_getheaders_timestamp[p] > HEADERS_RESPONSE_TIME
    BY <1>1 DEF MayGetHeaders
  <2> QED BY <2>2, <2>3, <2>4, Zenon DEF new
<1>2. CASE ~ MayGetHeaders(p)
  BY <1>2 DEF MaybeSendGetHeaders, MayGetHeaders, asked
<1> QED BY <1>1, <1>2, Zenon

(***************************************************************************)
(* What a peer has shown only grows, and it has shown a block we know.     *)
(***************************************************************************)
LEMMA AvailabilityStep ==
    ASSUME SyncTypeOK, NEW p \in Node, NEW h \in Int, m_best_header' \in Nat,
           UpdateBlockAvailability(p, h)
    PROVE  /\ pindexBestKnownBlock' \in [Node -> Int] /\ hashLastUnknownBlock' \in [Node -> Int]
           /\ \A q \in Node \ {p} : pindexBestKnownBlock'[q] = pindexBestKnownBlock[q]
           /\ pindexBestKnownBlock'[p] >= pindexBestKnownBlock[p]
           /\ h <= m_best_header' => pindexBestKnownBlock'[p] >= h
<1> USE DEF SyncTypeOK
<1> DEFINE u == hashLastUnknownBlock[p]
           b == pindexBestKnownBlock[p]
           K == {g \in {u, h} : g <= m_best_header'} \cup {b}
<1>1. /\ pindexBestKnownBlock' = [pindexBestKnownBlock EXCEPT ![p] = Max(K)]
      /\ hashLastUnknownBlock' =
             [hashLastUnknownBlock EXCEPT ![p] = IF h > m_best_header' THEN h
                                                 ELSE IF @ <= m_best_header' THEN None ELSE @]
  BY DEF UpdateBlockAvailability
<1>2. u \in Int /\ b \in Int /\ K \in SUBSET {u, h, b} /\ b \in K
      /\ (h <= m_best_header' => h \in K)
  OBVIOUS
<1> HIDE DEF K
<1>3. Max(K) \in Int /\ b <= Max(K) /\ (h <= m_best_header' => h <= Max(K))
  BY <1>2, MaxOfThree, Zenon
<1> QED BY <1>1, <1>2, <1>3

(***************************************************************************)
(* The same for FindNextBlocksToDownload.                                  *)
(***************************************************************************)
LEMMA ProcessStep ==
    ASSUME SyncTypeOK, NEW p \in Node, NEW called \in BOOLEAN,
           ProcessBlockAvailability(p, called)
    PROVE  /\ pindexBestKnownBlock' \in [Node -> Int] /\ hashLastUnknownBlock' \in [Node -> Int]
           /\ \A q \in Node \ {p} : pindexBestKnownBlock'[q] = pindexBestKnownBlock[q]
           /\ pindexBestKnownBlock'[p] >= pindexBestKnownBlock[p]
<1> USE DEF SyncTypeOK
<1> DEFINE u == hashLastUnknownBlock[p]
           b == pindexBestKnownBlock[p]
           known == {h \in {u} : called /\ h <= m_best_header}
           K == known \cup {b}
<1>1. /\ pindexBestKnownBlock' = [pindexBestKnownBlock EXCEPT ![p] = Max(K)]
      /\ hashLastUnknownBlock' = [hashLastUnknownBlock EXCEPT ![p] = IF known = {} THEN @ ELSE None]
  BY DEF ProcessBlockAvailability
<1>2. u \in Int /\ b \in Int /\ K \in SUBSET {u, u, b} /\ b \in K
  OBVIOUS
<1> HIDE DEF K, known
<1>3. Max(K) \in Int /\ b <= Max(K)
  BY <1>2, MaxOfThree, Zenon
<1> QED BY <1>1, <1>2, <1>3

(***************************************************************************)
(* A peer that a step does not touch.                                      *)
(***************************************************************************)
Untouched(q) ==
    /\ chain'[q] = chain[q] /\ pindexBestKnownBlock'[q] = pindexBestKnownBlock[q]
    /\ getheaders'[q] = getheaders[q]
    /\ m_last_getheaders_timestamp'[q] = m_last_getheaders_timestamp[q]
    /\ m_timeout'[q] = m_timeout[q] /\ m_work_header'[q] = m_work_header[q]
    /\ m_sent_getheaders'[q] = m_sent_getheaders[q] /\ probed'[q] = probed[q]
    /\ (q \in fSyncStarted') = (q \in fSyncStarted)

(***************************************************************************)
(* Nothing new is known of it.                                             *)
(***************************************************************************)
LEMMA PromptFrame ==
    ASSUME NEW q, PromptOK(q), Untouched(q) PROVE PromptOK(q)'
BY Zenon DEF PromptOK, Untouched

(***************************************************************************)
(* A step that touches at most p and evicts nobody else.                   *)
(***************************************************************************)
LEMMA SyncStepOf ==
    ASSUME SyncInv, NEW p \in Node, SyncTypeOK', \A q \in Node \ {p} : Untouched(q),
           p \in Prompt => PromptOK(p)',
           evicted' \subseteq evicted \cup {p},
           p \in evicted' \cap Prompt =>
              (m_work_header'[p] > 0 => probed'[p] < m_work_header'[p])
    PROVE  SyncInv'
<1> USE SyncAssumption DEF SyncInv, Prompt
<1>1. \A q \in Prompt \ {p} : PromptOK(q)'
  BY PromptFrame
<1>2. SyncedPeerKept'
  <2>1. ASSUME NEW q \in (evicted' \cap Responsive) \ NoBan, m_work_header'[q] > 0
        PROVE  probed'[q] < m_work_header'[q]
    <3>1. CASE q = p
      BY <2>1, <3>1
    <3>2. CASE q # p
      BY <2>1, <3>2 DEF SyncedPeerKept, Untouched
    <3> QED BY <3>1, <3>2, Zenon
  <2> QED BY <2>1 DEF SyncedPeerKept
<1> QED BY <1>1, <1>2

(***************************************************************************)
(* The minimum of two numbers.                                             *)
(***************************************************************************)
LEMMA MinOfTwo ==
    ASSUME NEW x \in Int, NEW y \in Int
    PROVE  Min({x, y}) \in {x, y} /\ Min({x, y}) <= x /\ Min({x, y}) <= y
<1>1. \E m \in {x, y} : \A e \in {x, y} : m <= e
  OBVIOUS
<1>2. Min({x, y}) \in {x, y} /\ \A e \in {x, y} : Min({x, y}) <= e
  BY <1>1, Zenon DEF Min
<1> QED BY <1>2

(***************************************************************************)
(* Tick: no peer that answers in time lets a getheaders grow too old.      *)
(***************************************************************************)
LEMMA SyncTick == ASSUME SyncInv, Tick PROVE SyncInv'
<1>1. \A p \in Node :
         /\ m_last_getheaders_timestamp'[p] \in {m_last_getheaders_timestamp[p] + 1, Long}
         /\ m_last_getheaders_timestamp'[p] <= m_last_getheaders_timestamp[p] + 1
         /\ m_last_getheaders_timestamp'[p] \in Nat
  <2> SUFFICES ASSUME NEW p \in Node
               PROVE  /\ m_last_getheaders_timestamp'[p]
                           \in {m_last_getheaders_timestamp[p] + 1, Long}
                      /\ m_last_getheaders_timestamp'[p] <= m_last_getheaders_timestamp[p] + 1
                      /\ m_last_getheaders_timestamp'[p] \in Nat
    OBVIOUS
  <2> DEFINE since == m_last_getheaders_timestamp[p]
  <2>1. since \in Nat /\ since + 1 \in Int /\ Long \in Int /\ Long \in Nat
    BY SyncAssumption DEF SyncInv, SyncTypeOK, Long
  <2>2. m_last_getheaders_timestamp'[p] = Min({since + 1, Long})
    BY Zenon DEF Tick
  <2> HIDE DEF since
  <2>3. Min({since + 1, Long}) \in {since + 1, Long} /\ Min({since + 1, Long}) <= since + 1
    BY <2>1, MinOfTwo, Zenon
  <2> QED BY <2>1, <2>2, <2>3 DEF since
<1>2. SyncTypeOK'
  <2>1. m_timeout' \in [Node -> Int]
    <3>1. m_timeout' = [p \in Node |-> Elapse(m_timeout[p])]
      BY Zenon DEF Tick
    <3>2. ASSUME NEW p \in Node PROVE Elapse(m_timeout[p]) \in Int
      <4>1. m_timeout[p] \in Int
        BY Zenon DEF SyncInv, SyncTypeOK
      <4> QED BY <4>1 DEF Elapse
    <3> QED BY <3>1, <3>2, Zenon
  <2>2. m_last_getheaders_timestamp' \in [Node -> Nat] /\ DOMAIN getheaders' = Node
    BY <1>1, Zenon DEF Tick
  <2> QED BY <2>1, <2>2, Zenon DEF SyncInv, SyncTypeOK, Tick, blocks, announced
<1>3. ASSUME NEW p \in Prompt PROVE PromptOK(p)'
  <2>1. p \in Node /\ p \in Responsive
    BY SyncAssumption DEF Prompt
  <2> DEFINE G == getheaders[p]
             H == getheaders'[p]
  <2>2. (\A r \in G : r.age < HEADERS_RESPONSE_TIME)
        /\ H = Aged(G)
    BY <2>1, Zenon DEF Tick, Aged
  <2>3. m_timeout'[p] = Elapse(m_timeout[p])
    BY <2>1, Zenon DEF Tick
  <2>4. PeerOK(chain[p], pindexBestKnownBlock[p], G, m_last_getheaders_timestamp[p],
               m_timeout[p], m_work_header[p], m_sent_getheaders[p], probed[p],
               p \in fSyncStarted)
    BY Zenon DEF SyncInv, PromptOK
  <2>5. PeerOK(chain[p], pindexBestKnownBlock[p], H, m_last_getheaders_timestamp'[p],
               m_timeout'[p], m_work_header[p], m_sent_getheaders[p], probed[p],
               p \in fSyncStarted)
    <3> DEFINE now == m_last_getheaders_timestamp'[p]
    <3>1. now \in {m_last_getheaders_timestamp[p] + 1, Long}
          /\ now <= m_last_getheaders_timestamp[p] + 1
      BY <1>1, <2>1, Zenon
    <3> HIDE DEF G, H, now
    <3>2. PeerOK(chain[p], pindexBestKnownBlock[p], Aged(G), now, Elapse(m_timeout[p]),
                 m_work_header[p], m_sent_getheaders[p], probed[p], p \in fSyncStarted)
      BY <2>2, <2>4, <3>1, PromptTick, Zenon
    <3> QED BY <2>2, <2>3, <3>2, Zenon DEF now
  <2>6. UNCHANGED <<chain, pindexBestKnownBlock, m_work_header, m_sent_getheaders, probed,
                    fSyncStarted>>
    BY Zenon DEF Tick, blocks, announced
  <2> QED BY <2>5, <2>6, Zenon DEF PromptOK
<1>4. SyncedPeerKept'
  BY Zenon DEF SyncInv, SyncedPeerKept, Tick
<1> QED BY <1>2, <1>3, <1>4 DEF SyncInv

(***************************************************************************)
(* A longer chain of the peer answers the same requests.                   *)
(***************************************************************************)
LEMMA PromptGrows ==
    ASSUME NEW c, NEW b, NEW G, NEW since, NEW left, NEW header, NEW sent, NEW at, NEW started,
           PeerOK(c, b, G, since, left, header, sent, at, started)
    PROVE  PeerOK(c + 1, b, G, since, left, header, sent, at, started)
<1> USE SyncAssumption DEF PeerOK
<1>1. \A r \in G : r.from \in Nat /\ (c > r.from => c + 1 > r.from)
  OBVIOUS
<1> QED BY <1>1

(***************************************************************************)
(* The surroundings, and connections that come and go.                     *)
(***************************************************************************)
LEMMA SyncOthers ==
    ASSUME SyncInv,
           \/ TipGrows \/ UNCHANGED vars
           \/ \E p \in Node : \/ PeerChainGrows(p) \/ Connect(p) \/ ConnectionLost(p)
                              \/ FinalizeNode(p) \/ SyncTimeout(p)
    PROVE  SyncInv'
<1>1. CASE TipGrows \/ UNCHANGED vars \/ \E p \in Node : Connect(p) \/ ConnectionLost(p) \/ SyncTimeout(p)
  <2>1. /\ UNCHANGED <<chain, pindexBestKnownBlock, hashLastUnknownBlock, fSyncStarted,
                       getheaders, m_last_getheaders_timestamp, m_timeout, m_work_header,
                       m_sent_getheaders, probed, evicted>>
        /\ fDisconnect \subseteq fDisconnect'
    BY <1>1, Zenon DEF TipGrows, Connect, ConnectionLost, SyncTimeout, vars, blocks, announced,
                syncing, asked, timer
  <2>2. tip' \in Nat /\ m_best_header' \in Nat
    <3>1. CASE TipGrows
      <4>1. m_best_header' = Max({m_best_header, tip + 1}) /\ tip' = tip + 1
        BY <3>1 DEF TipGrows
      <4> DEFINE S == {m_best_header, tip + 1}
      <4>2. S \in SUBSET {m_best_header, tip + 1, 0} /\ S # {} /\ S \subseteq Nat
            /\ m_best_header \in Int /\ tip + 1 \in Int /\ 0 \in Int
        BY DEF SyncInv, SyncTypeOK
      <4> HIDE DEF S
      <4>3. Max(S) \in S
        BY <4>2, MaxOfThree, Zenon
      <4>4. Max(S) \in Nat
        BY <4>2, <4>3, Zenon
      <4> QED BY <4>1, <4>4 DEF S, SyncInv, SyncTypeOK
    <3>2. CASE ~ TipGrows
      BY <1>1, <3>2, Zenon DEF Connect, ConnectionLost, SyncTimeout, vars, blocks, SyncInv, SyncTypeOK
    <3> QED BY <3>1, <3>2
  <2>3. SyncTypeOK'
    BY <2>1, <2>2, Zenon DEF SyncInv, SyncTypeOK
  <2>4. SyncedPeerKept'
    BY <2>1, Zenon DEF SyncInv, SyncedPeerKept
  <2>5. \A q \in Prompt : PromptOK(q)'
    BY <2>1, PromptFrame, Zenon DEF SyncInv, Untouched
  <2> QED BY <2>3, <2>4, <2>5, Zenon DEF SyncInv
<1>2. ASSUME NEW p \in Node, PeerChainGrows(p) PROVE SyncInv'
  <2>1. /\ UNCHANGED <<tip, m_best_header, pindexBestKnownBlock, hashLastUnknownBlock,
                       fSyncStarted, getheaders, m_last_getheaders_timestamp, m_timeout,
                       m_work_header, m_sent_getheaders, probed, evicted, fDisconnect>>
        /\ chain' = [chain EXCEPT ![p] = @ + 1]
    BY <1>2 DEF PeerChainGrows, announced, syncing, asked, timer
  <2>2. SyncTypeOK' /\ chain'[p] = chain[p] + 1
    BY <2>1 DEF SyncInv, SyncTypeOK
  <2>3. p \in Prompt => PromptOK(p)'
    <3>1. p \in Prompt =>
             PeerOK(chain[p] + 1, pindexBestKnownBlock[p], getheaders[p],
                    m_last_getheaders_timestamp[p], m_timeout[p], m_work_header[p],
                    m_sent_getheaders[p], probed[p], p \in fSyncStarted)
      BY PromptGrows, Zenon DEF SyncInv, PromptOK
    <3> QED BY <2>1, <2>2, <3>1, Zenon DEF PromptOK
  <2>4. \A q \in Node \ {p} : Untouched(q)
    BY <2>1 DEF Untouched, SyncInv, SyncTypeOK
  <2>5. p \in evicted' \cap Prompt => (m_work_header'[p] > 0 => probed'[p] < m_work_header'[p])
    BY <2>1, Zenon DEF SyncInv, SyncedPeerKept, Prompt
  <2> QED BY <2>1, <2>2, <2>3, <2>4, <2>5, SyncStepOf, Zenon
<1>3. ASSUME NEW p \in Node, FinalizeNode(p) PROVE SyncInv'
  <2>1. /\ UNCHANGED <<tip, m_best_header, chain, fDisconnect>>
        /\ fSyncStarted' = fSyncStarted \ {p} /\ evicted' = evicted \ {p} /\ Forget(p)
    BY <1>3, Zenon DEF FinalizeNode, Forget, blocks
  <2>2. SyncTypeOK'
    <3>1. None \in Int /\ Long \in Nat /\ Off \in Int
      BY SyncAssumption DEF Long
    <3>2. /\ tip' \in Nat /\ m_best_header' \in Nat /\ chain' \in [Node -> Nat]
          /\ pindexBestKnownBlock' \in [Node -> Int] /\ hashLastUnknownBlock' \in [Node -> Int]
          /\ m_last_getheaders_timestamp' \in [Node -> Nat] /\ DOMAIN getheaders' = Node
          /\ evicted' \subseteq fDisconnect'
      BY <2>1, <3>1, Zenon DEF Forget, SyncInv, SyncTypeOK
    <3>3. /\ m_timeout' \in [Node -> Int] /\ m_work_header' \in [Node -> Int]
          /\ m_sent_getheaders' \in [Node -> BOOLEAN] /\ probed' \in [Node -> Int]
      BY <2>1, <3>1, Zenon DEF Forget, SetTimer, SyncInv, SyncTypeOK
    <3> QED BY <3>2, <3>3, Zenon DEF SyncTypeOK
  <2>3. /\ pindexBestKnownBlock'[p] = None /\ getheaders'[p] = {}
        /\ m_last_getheaders_timestamp'[p] = Long
        /\ \A q \in Node \ {p} :
              /\ pindexBestKnownBlock'[q] = pindexBestKnownBlock[q]
              /\ getheaders'[q] = getheaders[q]
              /\ m_last_getheaders_timestamp'[q] = m_last_getheaders_timestamp[q]
    BY <2>1 DEF Forget, SyncInv, SyncTypeOK
  <2>4. /\ m_timeout'[p] = Off /\ m_work_header'[p] = None
        /\ m_sent_getheaders'[p] = FALSE /\ probed'[p] = None
        /\ \A q \in Node \ {p} :
              /\ m_timeout'[q] = m_timeout[q] /\ m_work_header'[q] = m_work_header[q]
              /\ m_sent_getheaders'[q] = m_sent_getheaders[q] /\ probed'[q] = probed[q]
    BY <2>1 DEF Forget, SetTimer, SyncInv, SyncTypeOK
  <2>5. /\ p \notin fSyncStarted'
        /\ \A q \in Node \ {p} : (q \in fSyncStarted') = (q \in fSyncStarted)
    BY <2>1
  <2>6. \A q \in Node \ {p} : Untouched(q)
    BY <2>1, <2>3, <2>4, <2>5, Zenon DEF Untouched
  <2>7. PromptOK(p)'
    <3>1. PeerOK(chain[p], None, {}, Long, Off, None, FALSE, None, FALSE)
      BY SyncAssumption DEF PeerOK, Long, SyncInv, SyncTypeOK
    <3>2. (p \in fSyncStarted') = FALSE
      BY <2>5
    <3> QED BY <2>1, <2>3, <2>4, <3>1, <3>2, Zenon DEF PromptOK
  <2> QED BY <2>1, <2>2, <2>6, <2>7, SyncStepOf, Zenon
<1> QED BY <1>1, <1>2, <1>3

----------------------------------------------------------------------------
(***************************************************************************)
(* INV and headers that do not connect: the peer has more than we know, so *)
(* it answers the request they trigger.                                    *)
(***************************************************************************)
LEMMA SyncInvs ==
    ASSUME SyncInv, NEW p \in Node, Inv(p) \/ UnconnectingHeader(p) PROVE SyncInv'
<1>1. /\ UNCHANGED <<tip, m_best_header, chain, fSyncStarted, fDisconnect, m_timeout,
                     m_work_header, m_sent_getheaders, probed, evicted>>
      /\ UpdateBlockAvailability(p, chain[p])
      /\ MaybeSendGetHeaders(p, m_best_header) \/ UNCHANGED asked
      /\ chain[p] > m_best_header
      /\ m_best_header \in Nat /\ chain[p] \in Nat
  BY DEF Inv, UnconnectingHeader, syncing, timer, SyncInv, SyncTypeOK
<1>2. /\ pindexBestKnownBlock' \in [Node -> Int] /\ hashLastUnknownBlock' \in [Node -> Int]
      /\ \A q \in Node \ {p} : pindexBestKnownBlock'[q] = pindexBestKnownBlock[q]
      /\ pindexBestKnownBlock'[p] >= pindexBestKnownBlock[p]
  <2>1. chain[p] \in Int /\ SyncTypeOK
    BY IntOfNat, Zenon DEF SyncInv, SyncTypeOK
  <2> QED BY <1>1, <2>1, AvailabilityStep, Zenon
<1> DEFINE new == {[from |-> m_best_header, age |-> 0]}
<1>3. /\ m_last_getheaders_timestamp' \in [Node -> Nat] /\ DOMAIN getheaders' = Node
      /\ \A q \in Node \ {p} :
            /\ m_last_getheaders_timestamp'[q] = m_last_getheaders_timestamp[q]
            /\ getheaders'[q] = getheaders[q]
      /\ \/ /\ m_last_getheaders_timestamp'[p] = m_last_getheaders_timestamp[p]
            /\ getheaders'[p] = getheaders[p]
         \/ /\ m_last_getheaders_timestamp'[p] = 0
            /\ p \notin Silent => getheaders'[p] = getheaders[p] \cup new
  <2>1. CASE UNCHANGED asked
    BY <2>1, Zenon DEF asked, SyncInv, SyncTypeOK
  <2>2. CASE MaybeSendGetHeaders(p, m_best_header)
    <3>1. Max({0, m_best_header}) = m_best_header /\ m_best_header \in Int
      BY <1>1, MaxWithZero
    <3> QED BY <2>2, <3>1, AskedStep, Zenon DEF SyncInv
  <2> QED BY <1>1, <2>1, <2>2, Zenon
<1>4. SyncTypeOK'
  BY <1>1, <1>2, <1>3, Zenon DEF SyncInv, SyncTypeOK
<1>5. ASSUME p \in Prompt PROVE PromptOK(p)'
  <2> DEFINE b == pindexBestKnownBlock'[p]
             c == chain[p]
             l == m_best_header
  <2>1. /\ PeerOK(c, b, getheaders[p] \cup new, 0, m_timeout[p], m_work_header[p],
                  m_sent_getheaders[p], probed[p], p \in fSyncStarted)
        /\ PeerOK(c, b, getheaders[p], m_last_getheaders_timestamp[p], m_timeout[p],
                  m_work_header[p], m_sent_getheaders[p], probed[p], p \in fSyncStarted)
    <3>1. /\ b \in Int /\ b >= pindexBestKnownBlock[p] /\ l \in Nat /\ c > l
          /\ PeerOK(c, pindexBestKnownBlock[p], getheaders[p], m_last_getheaders_timestamp[p],
                    m_timeout[p], m_work_header[p], m_sent_getheaders[p], probed[p],
                    p \in fSyncStarted)
      BY <1>1, <1>2, <1>5, Zenon DEF SyncInv, PromptOK
    <3> HIDE DEF b, c, l
    <3> QED BY <3>1, PromptAsked, Zenon DEF l
  <2>2. p \notin Silent
    BY <1>5, SyncAssumption DEF Prompt
  <2> HIDE DEF new
  <2> QED BY <1>1, <1>3, <2>1, <2>2, Zenon DEF PromptOK
<1>6. \A q \in Node \ {p} : Untouched(q)
  BY <1>1, <1>2, <1>3, Zenon DEF Untouched
<1>7. p \in evicted' \cap Prompt => (m_work_header'[p] > 0 => probed'[p] < m_work_header'[p])
  BY <1>1, Zenon DEF SyncInv, SyncedPeerKept, Prompt
<1> QED BY <1>1, <1>4, <1>5, <1>6, <1>7, SyncStepOf, Zenon

(***************************************************************************)
(* HEADERS: an announcement or an answer.                                  *)
(***************************************************************************)
LEMMA SyncHeaders ==
    ASSUME SyncInv, NEW p \in Node, Announce(p) \/ Answer(p) PROVE SyncInv'
<1>1. /\ UNCHANGED <<tip, chain, fSyncStarted, m_timeout, m_work_header, m_sent_getheaders,
                     probed, evicted>>
      /\ fDisconnect \subseteq fDisconnect'
      /\ m_last_getheaders_timestamp' = [m_last_getheaders_timestamp EXCEPT ![p] = Long]
      /\ ProcessHeaders(p, chain[p]) \/ UNCHANGED <<m_best_header, announced>>
  BY Zenon DEF Announce, Answer, ProcessHeaders, ProcessNoHeaders, blocks, syncing, timer
<1>2. /\ m_best_header' \in Nat
      /\ pindexBestKnownBlock' \in [Node -> Int] /\ hashLastUnknownBlock' \in [Node -> Int]
      /\ \A q \in Node \ {p} : pindexBestKnownBlock'[q] = pindexBestKnownBlock[q]
      /\ pindexBestKnownBlock'[p] >= pindexBestKnownBlock[p]
      /\ ProcessHeaders(p, chain[p]) => pindexBestKnownBlock'[p] >= chain[p]
  <2>1. CASE ProcessHeaders(p, chain[p])
    <3> DEFINE S == {m_best_header, chain[p]}
    <3>1. /\ m_best_header' = Max(S) /\ UpdateBlockAvailability(p, chain[p])
      BY <2>1, Zenon DEF ProcessHeaders
    <3>2. /\ S \in SUBSET {m_best_header, chain[p], 0} /\ S # {} /\ S \subseteq Nat
          /\ m_best_header \in Int /\ chain[p] \in Int /\ 0 \in Int /\ chain[p] \in S
      BY DEF SyncInv, SyncTypeOK
    <3> HIDE DEF S
    <3>3. Max(S) \in S /\ chain[p] <= Max(S)
      BY <3>2, MaxOfThree, Zenon
    <3>4. m_best_header' \in Nat /\ chain[p] <= m_best_header'
      BY <3>1, <3>2, <3>3, Zenon
    <3> QED BY <3>1, <3>2, <3>4, AvailabilityStep, Zenon DEF SyncInv
  <2>2. CASE ~ ProcessHeaders(p, chain[p])
    BY <1>1, <2>2 DEF announced, SyncInv, SyncTypeOK
  <2> QED BY <2>1, <2>2, Zenon
<1>3. /\ m_last_getheaders_timestamp' \in [Node -> Nat] /\ DOMAIN getheaders' = Node
      /\ m_last_getheaders_timestamp'[p] = Long
      /\ \A q \in Node \ {p} :
            /\ m_last_getheaders_timestamp'[q] = m_last_getheaders_timestamp[q]
            /\ getheaders'[q] = getheaders[q]
      /\ \/ getheaders'[p] = getheaders[p] /\ ProcessHeaders(p, chain[p])
         \/ \E r \in getheaders[p] :
               /\ getheaders'[p] = getheaders[p] \ {r}
               /\ ProcessHeaders(p, chain[p]) \/ chain[p] <= r.from
  <2>1. m_last_getheaders_timestamp' \in [Node -> Nat]
    BY <1>1, SyncAssumption DEF SyncInv, SyncTypeOK, Long
  <2>2. CASE Announce(p)
    BY <1>1, <2>1, <2>2, Zenon DEF Announce, SyncInv, SyncTypeOK
  <2>3. CASE Answer(p)
    <3>1. PICK r \in getheaders[p] :
             /\ getheaders' = [getheaders EXCEPT ![p] = @ \ {r}]
             /\ ProcessHeaders(p, chain[p]) \/ chain[p] <= r.from
      BY <2>3, Zenon DEF Answer
    <3> QED BY <1>1, <2>1, <3>1 DEF SyncInv, SyncTypeOK
  <2> QED BY <2>2, <2>3, Zenon
<1>4. SyncTypeOK'
  BY <1>1, <1>2, <1>3, Zenon DEF SyncInv, SyncTypeOK
<1>5. ASSUME p \in Prompt PROVE PromptOK(p)'
  <2> DEFINE b == pindexBestKnownBlock'[p]
             c == chain[p]
             G == getheaders[p]
  <2>1. PeerOK(c, pindexBestKnownBlock[p], G, m_last_getheaders_timestamp[p],
               m_timeout[p], m_work_header[p], m_sent_getheaders[p], probed[p],
               p \in fSyncStarted)
    BY <1>5, Zenon DEF SyncInv, PromptOK
  <2>2. b \in Int /\ b >= pindexBestKnownBlock[p] /\ c \in Nat /\ \A r \in G : r.from \in Nat
    BY <1>2, <2>1, Zenon DEF PeerOK
  <2>3. \E r : /\ c > r.from => b >= c
               /\ getheaders'[p] = G \/ getheaders'[p] = G \ {r}
    <3>0. ProcessHeaders(p, c) => b >= c
      BY <1>2, Zenon
    <3>1. CASE getheaders'[p] = G /\ ProcessHeaders(p, c)
      BY <3>0, <3>1, Zenon
    <3>2. ASSUME NEW r \in G, getheaders'[p] = G \ {r}, ProcessHeaders(p, c) \/ c <= r.from
          PROVE  c > r.from => b >= c
      <4>1. c \in Nat /\ r.from \in Nat
        BY <2>2, Zenon
      <4>2. c <= r.from => ~ (c > r.from)
        BY <4>1
      <4> QED BY <3>0, <3>2, <4>2, Zenon
    <3> QED BY <1>3, <3>1, <3>2, Zenon
  <2>4. PICK r : /\ c > r.from => b >= c
                 /\ getheaders'[p] = G \/ getheaders'[p] = G \ {r}
    BY <2>3, Zenon
  <2>5. PeerOK(c, b, getheaders'[p], Long, m_timeout[p], m_work_header[p],
               m_sent_getheaders[p], probed[p], p \in fSyncStarted)
    <3> HIDE DEF b, c, G
    <3>1. c > r.from => b >= c
      BY <2>4, Zenon
    <3>2. /\ PeerOK(c, b, G \ {r}, Long, m_timeout[p], m_work_header[p],
                    m_sent_getheaders[p], probed[p], p \in fSyncStarted)
          /\ PeerOK(c, b, G, Long, m_timeout[p], m_work_header[p],
                    m_sent_getheaders[p], probed[p], p \in fSyncStarted)
      BY <2>1, <2>2, <3>1, PromptAnswered, Zenon
    <3> QED BY <2>4, <3>2, Zenon
  <2> QED BY <1>1, <1>3, <2>5, Zenon DEF PromptOK
<1>6. \A q \in Node \ {p} : Untouched(q)
  BY <1>1, <1>2, <1>3, Zenon DEF Untouched
<1>7. p \in evicted' \cap Prompt => (m_work_header'[p] > 0 => probed'[p] < m_work_header'[p])
  BY <1>1, Zenon DEF SyncInv, SyncedPeerKept, Prompt
<1> QED BY <1>1, <1>4, <1>5, <1>6, <1>7, SyncStepOf, Zenon

----------------------------------------------------------------------------
(***************************************************************************)
(* The timer of p after ConsiderEviction.                                  *)
(***************************************************************************)
SameTimer(p) ==
    /\ m_timeout'[p] = m_timeout[p] /\ m_work_header'[p] = m_work_header[p]
    /\ m_sent_getheaders'[p] = m_sent_getheaders[p] /\ probed'[p] = probed[p]

NewTimer(p, left, header, sent, at) ==
    /\ m_timeout'[p] = left /\ m_work_header'[p] = header
    /\ m_sent_getheaders'[p] = sent /\ probed'[p] = at

LEMMA ConsiderStep ==
    ASSUME SyncTypeOK, NEW p \in Node, ConsiderEviction(p)
    PROVE  /\ m_timeout' \in [Node -> Int] /\ m_work_header' \in [Node -> Int]
           /\ m_sent_getheaders' \in [Node -> BOOLEAN] /\ probed' \in [Node -> Int]
           /\ \A q \in Node \ {p} : SameTimer(q)
           /\ evicted' \subseteq fDisconnect' /\ evicted' \subseteq evicted \cup {p}
           /\ \/ SameTimer(p) /\ ~ Probes(p) /\ evicted' = evicted
              \/ NewTimer(p, Off, None, FALSE, None) /\ ~ Probes(p) /\ evicted' = evicted
              \/ /\ NewTimer(p, CHAIN_SYNC_TIMEOUT, tip, FALSE, None) /\ ~ Probes(p)
                 /\ evicted' = evicted /\ Considered(p) /\ ~ Overdue(p)
              \/ SameTimer(p) /\ ~ Probes(p) /\ Overdue(p) /\ m_sent_getheaders[p]
              \/ /\ NewTimer(p, HEADERS_RESPONSE_TIME, m_work_header[p], TRUE, chain[p])
                 /\ Probes(p) /\ evicted' = evicted
<1> USE SyncAssumption DEF SyncTypeOK
<1>1. CASE UNCHANGED <<timer, fDisconnect>> /\ ~ Probes(p)
  BY <1>1, Zenon DEF timer, SameTimer
<1>2. CASE /\ SetTimer(p, Off, None, FALSE) /\ probed' = [probed EXCEPT ![p] = None]
           /\ UNCHANGED <<evicted, fDisconnect>> /\ ~ Probes(p)
  <2>1. NewTimer(p, Off, None, FALSE, None) /\ evicted' = evicted /\ evicted' \subseteq fDisconnect'
    BY <1>2 DEF SetTimer, NewTimer
  <2>2. /\ m_timeout' \in [Node -> Int] /\ m_work_header' \in [Node -> Int]
        /\ m_sent_getheaders' \in [Node -> BOOLEAN] /\ probed' \in [Node -> Int]
        /\ \A q \in Node \ {p} : SameTimer(q)
    BY <1>2 DEF SetTimer, SameTimer
  <2> QED BY <1>2, <2>1, <2>2, Zenon
<1>3. CASE /\ SetTimer(p, CHAIN_SYNC_TIMEOUT, tip, FALSE)
           /\ probed' = [probed EXCEPT ![p] = None]
           /\ UNCHANGED <<evicted, fDisconnect>> /\ ~ Probes(p)
           /\ Considered(p) /\ ~ Overdue(p)
  <2>1. /\ NewTimer(p, CHAIN_SYNC_TIMEOUT, tip, FALSE, None) /\ evicted' = evicted
        /\ evicted' \subseteq fDisconnect'
    BY <1>3 DEF SetTimer, NewTimer
  <2>2. /\ m_timeout' \in [Node -> Int] /\ m_work_header' \in [Node -> Int]
        /\ m_sent_getheaders' \in [Node -> BOOLEAN] /\ probed' \in [Node -> Int]
        /\ \A q \in Node \ {p} : SameTimer(q)
    BY <1>3 DEF SetTimer, SameTimer
  <2> QED BY <1>3, <2>1, <2>2, Zenon
<1>4. CASE /\ Overdue(p) /\ m_sent_getheaders[p] /\ ~ Probes(p)
           /\ fDisconnect' = fDisconnect \cup {p} /\ evicted' = evicted \cup {p}
           /\ UNCHANGED <<m_timeout, m_work_header, m_sent_getheaders, probed>>
  BY <1>4, Zenon DEF SameTimer
<1>5. CASE Probe(p) /\ Probes(p) /\ UNCHANGED <<evicted, fDisconnect>>
  BY <1>5 DEF Probe, SetTimer, SameTimer, NewTimer
<1>6. \/ UNCHANGED <<timer, fDisconnect>> /\ ~ Probes(p)
      \/ /\ SetTimer(p, Off, None, FALSE) /\ probed' = [probed EXCEPT ![p] = None]
         /\ UNCHANGED <<evicted, fDisconnect>> /\ ~ Probes(p)
      \/ /\ SetTimer(p, CHAIN_SYNC_TIMEOUT, tip, FALSE)
         /\ probed' = [probed EXCEPT ![p] = None]
         /\ UNCHANGED <<evicted, fDisconnect>> /\ ~ Probes(p)
         /\ Considered(p) /\ ~ Overdue(p)
      \/ /\ Overdue(p) /\ m_sent_getheaders[p] /\ ~ Probes(p)
         /\ fDisconnect' = fDisconnect \cup {p} /\ evicted' = evicted \cup {p}
         /\ UNCHANGED <<m_timeout, m_work_header, m_sent_getheaders, probed>>
      \/ Probe(p) /\ Probes(p) /\ UNCHANGED <<evicted, fDisconnect>>
  BY Zenon DEF ConsiderEviction, Probes, Overdue
<1> QED BY <1>1, <1>2, <1>3, <1>4, <1>5, <1>6, Zenon

(***************************************************************************)
(* The peer has shown more.                                                *)
(***************************************************************************)
LEMMA PromptShows ==
    ASSUME NEW c, NEW b, NEW G, NEW since, NEW left, NEW header, NEW sent, NEW at, NEW started,
           PeerOK(c, b, G, since, left, header, sent, at, started), NEW d \in Int, d >= b
    PROVE  PeerOK(c, d, G, since, left, header, sent, at, started)
<1>1. b \in Int /\ header \in Int
  BY Zenon DEF PeerOK
<1>2. b >= header => d >= header
  BY <1>1
<1>3. {d, left, header, at} \subseteq Int
  BY Zenon DEF PeerOK
<1> QED BY <1>2, <1>3, Zenon DEF PeerOK

(***************************************************************************)
(* The peer after SendMessages, whatever of its timer and of getheaders it *)
(* changed, and what holds if it is dropped.                               *)
(***************************************************************************)
Sends(p, starts) ==
    /\ starts => p \notin fSyncStarted /\ MayGetHeaders(p)
    /\ p \in fSyncStarted' <=> (p \in fSyncStarted \/ starts)
    /\ chain' = chain
    /\ ConsiderEviction(p)
    /\ IF starts THEN MaybeSendGetHeaders(p, m_best_header - 1)
       ELSE IF Probes(p) THEN MaybeSendGetHeaders(p, m_work_header[p] - 1)
       ELSE UNCHANGED asked
    /\ pindexBestKnownBlock'[p] \in Int /\ pindexBestKnownBlock'[p] >= pindexBestKnownBlock[p]

LEMMA PromptSend ==
    ASSUME SyncInv, NEW p \in Node, p \in Prompt, NEW starts \in BOOLEAN, Sends(p, starts)
    PROVE  /\ PromptOK(p)'
           /\ \/ evicted' = evicted
              \/ m_work_header'[p] > 0 => probed'[p] < m_work_header'[p]
<1> DEFINE c == chain[p]
           b == pindexBestKnownBlock[p]
           d == pindexBestKnownBlock'[p]
           G == getheaders[p]
           since == m_last_getheaders_timestamp[p]
           left == m_timeout[p]
           header == m_work_header[p]
           sent == m_sent_getheaders[p]
           at == probed[p]
           started == p \in fSyncStarted
           started1 == p \in fSyncStarted'
<1>1. PeerOK(c, b, G, since, left, header, sent, at, started)
  BY Zenon DEF SyncInv, PromptOK
<1>2. c \in Nat /\ d \in Int /\ d >= b /\ tip \in Int /\ header \in Int /\ at \in Int /\ b \in Int
      /\ m_best_header \in Int /\ left \in Int /\ sent \in BOOLEAN /\ since \in Nat
      /\ SyncTypeOK /\ p \notin Silent
  <2>0. d \in Int /\ d >= b
    BY Zenon DEF Sends
  <2>1. SyncTypeOK /\ p \notin Silent
    BY SyncAssumption, Zenon DEF SyncInv, Prompt
  <2>2. c \in Nat /\ header \in Int /\ at \in Int /\ b \in Int /\ left \in Int
        /\ sent \in BOOLEAN /\ since \in Nat
    BY <2>1, Zenon DEF SyncTypeOK
  <2>3. tip \in Int /\ m_best_header \in Int
    <3>1. tip \in Nat /\ m_best_header \in Nat
      BY <2>1, Zenon DEF SyncTypeOK
    <3> QED BY <3>1, IntOfNat, Zenon
  <2> QED BY <2>0, <2>1, <2>2, <2>3, Zenon
<1>3. started1 = (started \/ starts)
  <2>1. started1 <=> (started \/ starts)
    BY Zenon DEF Sends
  <2> QED BY <2>1
<1>4. \/ SameTimer(p) /\ ~ Probes(p) /\ evicted' = evicted
      \/ NewTimer(p, Off, None, FALSE, None) /\ ~ Probes(p) /\ evicted' = evicted
      \/ /\ NewTimer(p, CHAIN_SYNC_TIMEOUT, tip, FALSE, None) /\ ~ Probes(p)
         /\ evicted' = evicted /\ Considered(p) /\ ~ Overdue(p)
      \/ SameTimer(p) /\ ~ Probes(p) /\ Overdue(p) /\ m_sent_getheaders[p]
      \/ /\ NewTimer(p, HEADERS_RESPONSE_TIME, m_work_header[p], TRUE, chain[p])
         /\ Probes(p) /\ evicted' = evicted
  <2>1. ConsiderEviction(p)
    BY Zenon DEF Sends
  <2> QED BY <1>2, <2>1, ConsiderStep, Zenon
<1>5. PromptOK(p)' <=> PeerOK(c, d, getheaders'[p], m_last_getheaders_timestamp'[p],
                              m_timeout'[p], m_work_header'[p], m_sent_getheaders'[p],
                              probed'[p], started1)
  BY Zenon DEF PromptOK, Sends
<1>6. /\ Considered(p) => started1
      /\ Overdue(p) => left = Expired /\ ~ (header # None /\ b # None /\ b >= header)
      /\ Probes(p) => Overdue(p) /\ ~ sent
  BY Zenon DEF Considered, Overdue, Restarts, Probes
<1>7. SameTimer(p) <=> NewTimer(p, left, header, sent, at)
  BY DEF SameTimer, NewTimer
<1> HIDE DEF c, b, d, G, since, left, header, sent, at, started, started1
<1>8. PeerOK(c, d, G, since, left, header, sent, at, started)
  BY <1>1, <1>2, PromptShows, Zenon
<1>9. ASSUME NEW H, NEW t, H = getheaders'[p], t = m_last_getheaders_timestamp'[p],
             ~ Probes(p), PeerOK(c, d, H, t, left, header, sent, at, started1)
      PROVE  PromptOK(p)'
  <2>1. CASE SameTimer(p)
    BY <1>5, <1>7, <1>9, <2>1, Zenon DEF NewTimer
  <2>2. CASE NewTimer(p, Off, None, FALSE, None)
    <3>1. PeerOK(c, d, H, t, Off, None, FALSE, None, started1)
      BY <1>2, <1>9, PromptReset, Zenon
    <3> QED BY <1>5, <1>9, <2>2, <3>1, Zenon DEF NewTimer
  <2>3. CASE NewTimer(p, CHAIN_SYNC_TIMEOUT, tip, FALSE, None) /\ Considered(p)
    <3>1. started1
      BY <1>6, <2>3, Zenon
    <3>2. PeerOK(c, d, H, t, CHAIN_SYNC_TIMEOUT, tip, FALSE, None, started1)
      BY <1>2, <1>9, <3>1, PromptReset, Zenon
    <3> QED BY <1>5, <1>9, <2>3, <3>2, Zenon DEF NewTimer
  <2> QED BY <1>4, <1>9, <2>1, <2>2, <2>3, Zenon
<1>10. CASE starts
  <2> DEFINE l == Max({0, m_best_header - 1})
  <2>1. l \in Nat
    <3>1. m_best_header - 1 \in Int
      BY <1>2
    <3> QED BY <3>1, MaxWithZero, Zenon
  <2>2. left = Off /\ started1 = TRUE
    <3>1. ~ started
      BY <1>10, Zenon DEF started, Sends
    <3>2. left # Off => started
      BY <1>1 DEF PeerOK
    <3> QED BY <1>3, <1>10, <3>1, <3>2, Zenon
  <2>3. ~ Probes(p) /\ ~ Overdue(p)
    BY <1>6, <2>2
  <2>4. /\ m_last_getheaders_timestamp'[p] = 0
        /\ getheaders'[p] = G \cup {[from |-> l, age |-> 0]}
    <3>0. m_best_header - 1 \in Int
      BY <1>2
    <3>1. MaybeSendGetHeaders(p, m_best_header - 1) /\ since > HEADERS_RESPONSE_TIME
      BY <1>10, Zenon DEF Sends, MayGetHeaders, since
    <3>2. \/ /\ m_last_getheaders_timestamp[p] <= HEADERS_RESPONSE_TIME
             /\ m_last_getheaders_timestamp'[p] = m_last_getheaders_timestamp[p]
             /\ getheaders'[p] = getheaders[p]
          \/ /\ m_last_getheaders_timestamp[p] > HEADERS_RESPONSE_TIME
             /\ m_last_getheaders_timestamp'[p] = 0
             /\ p \notin Silent => getheaders'[p] = getheaders[p] \cup
                                      {[from |-> Max({0, m_best_header - 1}), age |-> 0]}
      BY <1>2, <3>0, <3>1, AskedStep, Zenon
    <3>3. ~ since <= HEADERS_RESPONSE_TIME
      BY <1>2, <3>1, SyncAssumption
    <3> QED BY <1>2, <3>2, <3>3, Zenon DEF since, G
  <2> HIDE DEF l
  <2>5. PeerOK(c, d, G \cup {[from |-> l, age |-> 0]}, 0, left, header, sent, at, started1)
    BY <1>8, <2>1, <2>2, PromptStart, Zenon
  <2>6. PromptOK(p)'
    BY <1>9, <2>3, <2>4, <2>5, Zenon
  <2> QED BY <1>4, <2>3, <2>6, Zenon
<1>11. CASE ~ starts /\ ~ Probes(p)
  <2>1. getheaders'[p] = G /\ m_last_getheaders_timestamp'[p] = since
    BY <1>11, Zenon DEF Sends, asked, G, since
  <2>2. started1 = started
    BY <1>3, <1>11 DEF started, started1
  <2>3. PromptOK(p)'
    BY <1>8, <1>9, <1>11, <2>1, <2>2, Zenon
  <2>4. ASSUME Overdue(p), sent, SameTimer(p)
        PROVE  m_work_header'[p] > 0 => probed'[p] < m_work_header'[p]
    <3>1. PeerOK(c, b, G, since, Expired, header, TRUE, at, started)
      BY <1>1, <1>2, <1>6, <2>4, Zenon
    <3>2. header > 0 /\ at >= header => b >= header
      BY <3>1, PromptOverdue, Zenon
    <3>3. ~ (header > 0 /\ at >= header)
      BY <1>2, <1>6, <2>4, <3>2
    <3> QED BY <1>2, <1>7, <2>4, <3>3 DEF NewTimer
  <2> QED BY <1>4, <1>11, <2>3, <2>4, Zenon DEF sent
<1>12. CASE ~ starts /\ Probes(p)
  <2> DEFINE l == Max({0, header - 1})
  <2>1. left = Expired /\ sent = FALSE /\ started1 = started
    <3>1. left = Expired /\ ~ sent
      BY <1>6, <1>12, Zenon
    <3>2. sent = FALSE
      BY <1>2, <3>1
    <3>3. started1 = started
      BY <1>3, <1>12 DEF started, started1
    <3> QED BY <3>1, <3>2, <3>3, Zenon
  <2>2. NewTimer(p, HEADERS_RESPONSE_TIME, header, TRUE, c) /\ evicted' = evicted
    BY <1>4, <1>12, Zenon DEF header, c
  <2>3. /\ since <= HEADERS_RESPONSE_TIME
             => PeerOK(c, d, G, since, HEADERS_RESPONSE_TIME, header, TRUE, c, started)
        /\ since > HEADERS_RESPONSE_TIME
             => PeerOK(c, d, G \cup {[from |-> l, age |-> 0]}, 0, HEADERS_RESPONSE_TIME,
                       header, TRUE, c, started)
    <3> HIDE DEF l
    <3>1. PeerOK(c, d, G, since, Expired, header, FALSE, at, started)
      BY <1>8, <2>1, Zenon
    <3> QED BY <3>1, PromptProbe, Zenon DEF l
  <2>4. \/ /\ since <= HEADERS_RESPONSE_TIME
           /\ m_last_getheaders_timestamp'[p] = since
           /\ getheaders'[p] = G
        \/ /\ since > HEADERS_RESPONSE_TIME
           /\ m_last_getheaders_timestamp'[p] = 0
           /\ p \notin Silent => getheaders'[p] = G \cup {[from |-> l, age |-> 0]}
    <3>0. header - 1 \in Int
      BY <1>2
    <3>1. MaybeSendGetHeaders(p, m_work_header[p] - 1) /\ m_work_header[p] - 1 \in Int
      BY <1>12, <3>0, Zenon DEF Sends, header
    <3> QED BY <1>2, <3>1, AskedStep, Zenon DEF since, G, header
  <2> HIDE DEF l
  <2>5. PromptOK(p)'
    BY <1>2, <1>5, <2>1, <2>2, <2>3, <2>4, Zenon DEF NewTimer
  <2> QED BY <2>2, <2>5, Zenon
<1> QED BY <1>10, <1>11, <1>12, Zenon

(***************************************************************************)
(* SendMessages: it touches p alone, and drops a prompt peer only for less *)
(* work than the timer asks for.                                           *)
(***************************************************************************)
LEMMA SyncSend == ASSUME SyncInv, NEW p \in Node, SendMessages(p) PROVE SyncInv'
<1>1. PICK idle \in BOOLEAN, downloads \in BOOLEAN :
         /\ UpdateSync(p, StartsSync(p, idle))
         /\ ConsiderEviction(p)
         /\ IF StartsSync(p, idle) THEN MaybeSendGetHeaders(p, m_best_header - 1)
            ELSE IF Probes(p) THEN MaybeSendGetHeaders(p, m_work_header[p] - 1)
            ELSE UNCHANGED asked
         /\ ProcessBlockAvailability(p, downloads)
  BY Zenon DEF SendMessages
<1>2. /\ tip' = tip /\ m_best_header' = m_best_header /\ chain' = chain
      /\ p \notin evicted /\ ~ (SyncStalled(p) /\ p \notin NoBan)
  BY DEF SendMessages, Serving, blocks, SyncInv, SyncTypeOK
<1> DEFINE starts == StartsSync(p, idle)
<1>3. starts \in BOOLEAN /\ (starts => p \notin fSyncStarted /\ MayGetHeaders(p))
  BY DEF StartsSync
<1>4. fSyncStarted' = (fSyncStarted \cup {q \in {p} : starts}) \ {q \in {p} : SyncStalled(p)}
  BY <1>1, Zenon DEF UpdateSync
<1>5. /\ pindexBestKnownBlock' \in [Node -> Int] /\ hashLastUnknownBlock' \in [Node -> Int]
      /\ \A q \in Node \ {p} : pindexBestKnownBlock'[q] = pindexBestKnownBlock[q]
      /\ pindexBestKnownBlock'[p] >= pindexBestKnownBlock[p]
  BY <1>1, ProcessStep, Zenon DEF SyncInv
<1>6. /\ m_last_getheaders_timestamp' \in [Node -> Nat] /\ DOMAIN getheaders' = Node
      /\ \A q \in Node \ {p} :
            /\ m_last_getheaders_timestamp'[q] = m_last_getheaders_timestamp[q]
            /\ getheaders'[q] = getheaders[q]
  <2>1. m_best_header - 1 \in Int /\ m_work_header[p] - 1 \in Int /\ SyncTypeOK
    BY DEF SyncInv, SyncTypeOK
  <2>2. CASE UNCHANGED asked
    BY <2>1, <2>2 DEF SyncTypeOK, asked
  <2>3. ASSUME NEW locator \in Int, MaybeSendGetHeaders(p, locator)
        PROVE  /\ m_last_getheaders_timestamp' \in [Node -> Nat] /\ DOMAIN getheaders' = Node
               /\ \A q \in Node \ {p} :
                     /\ m_last_getheaders_timestamp'[q] = m_last_getheaders_timestamp[q]
                     /\ getheaders'[q] = getheaders[q]
    BY <2>1, <2>3, AskedStep, Zenon
  <2> QED BY <1>1, <2>1, <2>2, <2>3, Zenon
<1>7. /\ m_timeout' \in [Node -> Int] /\ m_work_header' \in [Node -> Int]
      /\ m_sent_getheaders' \in [Node -> BOOLEAN] /\ probed' \in [Node -> Int]
      /\ \A q \in Node \ {p} : SameTimer(q)
      /\ evicted' \subseteq fDisconnect' /\ evicted' \subseteq evicted \cup {p}
  BY <1>1, ConsiderStep, Zenon DEF SyncInv
<1>8. SyncTypeOK'
  BY <1>2, <1>5, <1>6, <1>7, Zenon DEF SyncInv, SyncTypeOK
<1>9. \A q \in Node \ {p} : Untouched(q)
  <2>1. \A q \in Node \ {p} : (q \in fSyncStarted') = (q \in fSyncStarted)
    BY <1>4
  <2> QED BY <1>2, <1>5, <1>6, <1>7, <2>1, Zenon DEF Untouched, SameTimer
<1>10. ASSUME p \in Prompt
       PROVE  /\ PromptOK(p)'
              /\ \/ evicted' = evicted
                 \/ m_work_header'[p] > 0 => probed'[p] < m_work_header'[p]
  <2>1. p \in fSyncStarted' <=> (p \in fSyncStarted \/ starts)
    BY <1>2, <1>4, <1>10 DEF Prompt
  <2>2. pindexBestKnownBlock'[p] \in Int
    BY <1>5
  <2>3. IF starts THEN MaybeSendGetHeaders(p, m_best_header - 1)
        ELSE IF Probes(p) THEN MaybeSendGetHeaders(p, m_work_header[p] - 1)
        ELSE UNCHANGED asked
    BY <1>1
  <2> HIDE DEF starts
  <2>4. Sends(p, starts)
    BY <1>1, <1>2, <1>3, <1>5, <2>1, <2>2, <2>3, Zenon DEF Sends
  <2> QED BY <1>3, <1>10, <2>4, PromptSend, Zenon
<1>11. p \in evicted' \cap Prompt =>
          (m_work_header'[p] > 0 => probed'[p] < m_work_header'[p])
  BY <1>2, <1>10, Zenon
<1> QED BY <1>7, <1>8, <1>9, <1>10, <1>11, SyncStepOf

(***************************************************************************)
(* At the start nothing has been asked and no timer runs.                  *)
(***************************************************************************)
LEMMA SyncInit == ASSUME Init PROVE SyncInv
<1>1. chain \in [Node -> Nat]
  BY DEF Init, Height
<1>2. SyncTypeOK
  BY <1>1, SyncAssumption DEF Init, SyncTypeOK, Long
<1>3. ASSUME NEW p \in Prompt PROVE PromptOK(p)
  <2>1. p \in Node
    BY SyncAssumption DEF Prompt
  <2>2. PeerOK(chain[p], None, {}, Long, Off, None, FALSE, None, FALSE)
    BY <1>1, <2>1, SyncAssumption DEF PeerOK, Long
  <2>3. /\ pindexBestKnownBlock[p] = None /\ getheaders[p] = {}
        /\ m_last_getheaders_timestamp[p] = Long /\ m_timeout[p] = Off
        /\ m_work_header[p] = None /\ m_sent_getheaders[p] = FALSE /\ probed[p] = None
        /\ (p \in fSyncStarted) = FALSE
    BY <2>1 DEF Init
  <2> QED BY <2>2, <2>3, Zenon DEF PromptOK
<1>4. SyncedPeerKept
  BY DEF Init, SyncedPeerKept
<1> QED BY <1>2, <1>3, <1>4 DEF SyncInv

(***************************************************************************)
(* Every step keeps what is known of the prompt peers.                     *)
(***************************************************************************)
LEMMA SyncStep == ASSUME SyncInv, [Next]_vars PROVE SyncInv'
BY SyncTick, SyncOthers, SyncInvs, SyncHeaders, SyncSend, Zenon DEF Next

(***************************************************************************)
(* A peer that answers in time, and whose work when ConsiderEviction       *)
(* probed it was the work the timer asks for, is never the one that        *)
(* ConsiderEviction disconnects, however its getheaders, INVs and headers  *)
(* interleave with the ticks of the two deadlines, and although the probe  *)
(* is skipped while an earlier getheaders is in flight.                    *)
(***************************************************************************)
THEOREM SyncedPeerAlwaysKept == Spec => []SyncedPeerKept
<1> DEFINE I == SyncInv
<1>1. Init => I
  BY SyncInit
<1>2. I /\ [Next]_vars => I'
  BY SyncStep
<1>3. I => SyncedPeerKept
  BY DEF SyncInv
<1> HIDE DEF I
<1> QED BY <1>1, <1>2, <1>3, PTL DEF Spec
==============================================================================
