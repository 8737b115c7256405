SPECIFICATION FairSpec
CONSTANTS
    Content = Content
    Reasoning = Reasoning
    MaxDeltas = 1
    MaxTroubles = 1
PROPERTIES EndReachesPage
CHECK_DEADLOCK FALSE
