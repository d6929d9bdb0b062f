\* More peers and blocks than the table has room for.
CONSTANTS
    p1 = p1
    p2 = p2
    p3 = p3
    h1 = h1
    h2 = h2
    h3 = h3
    Node = {p1, p2, p3}
    Hash = {h1, h2, h3}
    MAX_TRACKED_ANNOUNCEMENT_HASHES = 2
    MAX_ANNOUNCERS_PER_HASH = 2
SPECIFICATION TableSpec
SYMMETRY Symmetry
INVARIANTS
    AnnouncementsTracked
PROPERTIES
    CreditedOnce
    AnnouncementRemembered
