\* Both ends of a session: every combination of paths, and one fault of any kind in a
\* session that needs its relay.  Everything stops once both calls have returned.
SPECIFICATION FairSpec
CONSTANTS
    QueueSize = 3
    Sessions <- MCSessions
INVARIANT TypeOK
INVARIANT DescriptionMatches
INVARIANT CandidateReaches
INVARIANT TransportIsCurrent
PROPERTY OrphanedByCloseOnly
PROPERTY Connected
CHECK_DEADLOCK FALSE
