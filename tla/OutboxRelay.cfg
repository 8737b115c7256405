SPECIFICATION FairSpec
CONSTANTS
    MaxEvents = 2
    TerminalRows = {1}
    Malformed = {}
    Relays = {r1, r2}
    BatchSize = 2
    MaxAttempts = 2
    MaxFaults = 2
INVARIANTS TypeOK AnnouncedOnce PublishedIsDelivered BudgetIsExact
PROPERTIES EveryRowSettles
CHECK_DEADLOCK FALSE
