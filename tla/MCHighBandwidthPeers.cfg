\* Three inbound and two outbound peers for a list of three.
CONSTANTS
    i1 = i1
    i2 = i2
    i3 = i3
    o1 = o1
    o2 = o2
    Inbound = {i1, i2, i3}
    Outbound = {o1, o2}
    Node = {i1, i2, i3, o1, o2}
    Provides = {i1, i2, i3, o1, o2}
    Slots = 3
SPECIFICATION ListSpec
SYMMETRY Symmetry
INVARIANTS
    ListMatchesFlags
PROPERTIES
    LastOutboundKept
CHECK_DEADLOCK FALSE
