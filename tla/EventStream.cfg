SPECIFICATION Spec
CONSTANTS
    Content = Content
    Reasoning = Reasoning
    MaxDeltas = 2
    MaxTroubles = 2
SYMMETRY KindSymmetry
INVARIANTS TypeOK OnlyThePublisherDoubles StateRunsAheadByOne NoDeltaLost
PROPERTIES NeverBackwards EndIsShownForGood
CHECK_DEADLOCK FALSE
