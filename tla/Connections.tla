---------------------------- MODULE Connections ----------------------------
(***************************************************************************)
(* Connections as the tables of PeerManagerImpl (net_processing.cpp) that  *)
(* outlive them see it: InitializeNode makes the state of a peer and       *)
(* FinalizeNode erases it.  A NodeId is never given to a second one.       *)
(***************************************************************************)
CONSTANT Node

VARIABLES
    connected, \* peers with a CNodeState and a Peer
    gone       \* NodeIds of connections that are over

NotConnected == connected = {} /\ gone = {}

Opened(p) ==
    /\ p \notin connected \cup gone
    /\ connected' = connected \cup {p}
    /\ UNCHANGED gone

Closed(p) ==
    /\ p \in connected
    /\ connected' = connected \ {p}
    /\ gone' = gone \cup {p}
============================================================================
