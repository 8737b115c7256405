SPECIFICATION Spec
CONSTANTS
    Calls = {c1, c2}
    Keys = {k1, k2}
    Messages = {m1, m2}
    Limit = 1
    MaxGenerations = 2
SYMMETRY AdmissionSymmetry
INVARIANTS TypeOK QuotaHolds SameKeySameGeneration AnswersMatch ActiveIsEnqueued
CHECK_DEADLOCK FALSE
