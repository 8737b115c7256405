SPECIFICATION Spec
CONSTANTS
    MaxRuns = 2
    Scheduled = TRUE
    Monitors = {m1}
    MaxAttempts = 2
    MaxDeltas = 2
    JobAttempts = 2
    MaxStalls = 1
INVARIANTS TypeOK OutcomesAgree SingleWriter
PROPERTIES TerminalIsFinal CompletedIsWhole RetryOnlyBeforeFirstDelta RefinesContract
CHECK_DEADLOCK FALSE
