------------------------ MODULE MCOutboundEviction ------------------------
EXTENDS OutboundEviction

CONSTANT Networked \* peers reached through a network of their own

TwoNetworks == [p \in Node |-> IF p \in Networked THEN "onion" ELSE "ipv4"]
=============================================================================
