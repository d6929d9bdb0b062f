------------------------ MODULE MCHighBandwidthPeers ------------------------
EXTENDS HighBandwidthPeers, TLC

CONSTANT Outbound

\* NodeIds are only compared for equality.
Symmetry == Permutations(Inbound) \cup Permutations(Outbound)
=============================================================================
