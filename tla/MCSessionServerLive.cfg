CONSTANTS
    MaxRuns = 2
    MaxWatchers = 0
    BufferLimit = 1
    NegotiationLimit = 1
    IdleLimit = 1
    SessionLimit = 2
SPECIFICATION FairSpec
PROPERTIES
    EverySessionEnds
    EveryHandlerAnswers
    ImplementsReservation
