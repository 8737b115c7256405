SPECIFICATION ServicesSpec
CONSTANTS
    Passes = {p1, p2}
    TaskCalls = {c1}
    DayLength = 1
    Week = 2
    MaxNow = 3
    MaxTaskRuns = 3
    MaxTaskTroubles = 2
    Pages = {r1, r2}
    MaxSessions = 4
    MaxSessionFaults = 1
    Streams = {s1, s2, s3}
    StreamLimit = 2
    MaxLeaseFaults = 3
    MaxMessages = 4
    MaxTokens = 2
    MaxWindow = 22
    MaxFrames = 3
SYMMETRY ServiceSymmetry
INVARIANTS ServicesTypeOK ClaimedOnce EveryDueTimeAccounted OverlapIsBounded OneLiveSession StaysSignedIn PlacesAreOfStreams OpenWithinLimit WindowIsBestFit FramesSurviveChunks
CHECK_DEADLOCK FALSE
