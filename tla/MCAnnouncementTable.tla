------------------------- MODULE MCAnnouncementTable -------------------------
EXTENDS AnnouncementTable, TLC

\* NodeIds and block hashes are only compared for equality.
Symmetry == Permutations(Node) \cup Permutations(Hash)
==============================================================================
