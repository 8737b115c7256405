SPECIFICATION FairSpec
CONSTANTS
    MaxRuns = 2
    Scheduled = FALSE
    Monitors = {m1}
    MaxAttempts = 1
    MaxDeltas = 1
    JobAttempts = 1
    MaxStalls = 1
PROPERTIES CancelConverges
CHECK_DEADLOCK FALSE
