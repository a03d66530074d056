CONSTANTS
    s1 = s1
    s2 = s2
    s3 = s3
    Server <- MCServer
    MaxCalls = 1
    MaxRestarts = 1
SPECIFICATION Spec
INVARIANT TypeOK
INVARIANT RunOwnsLock
INVARIANT CandidateHoldsLock
PROPERTY StuckCandidate RefinesLifecycle RoleChangesUnderLock
CHECK_DEADLOCK FALSE
