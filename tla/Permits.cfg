SPECIFICATION FairSpec
CONSTANTS
    c1 = c1
    c2 = c2
    global = global
    provider = provider
    ann = ann
    bob = bob
    Calls = {c1, c2}
    Pools = {global, provider, ann, bob}
    Needs <- MCNeeds
    Limit <- MCLimit
    MaxFaults = 3
INVARIANTS TypeOK RunningWithinLimit StrandedWithinFaults
PROPERTIES LosersLearn
CHECK_DEADLOCK FALSE
