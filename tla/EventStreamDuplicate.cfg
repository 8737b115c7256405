SPECIFICATION Spec
CONSTANTS
    Content = Content
    Reasoning = Reasoning
    MaxDeltas = 2
    MaxTroubles = 0
INVARIANTS NoDeltaTwice
CHECK_DEADLOCK FALSE
