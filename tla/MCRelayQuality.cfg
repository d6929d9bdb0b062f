\* Up to four observations while the clock moves over spans of half a half life
\* to one and a half of them.
CONSTANTS
    UNIT = 16384
    Exp2 <- Decay
    MIN_EFFECTIVE_OBSERVATIONS = 2
    FullAnnouncements = 2
    Times = {1, 2, 4}
    MaxObservations = 4
SPECIFICATION QualitySpec
INVARIANTS
    EvidenceBacked
PROPERTIES
    NeverAmplified
    ScoreFollowsObservations
