CONSTANTS
    s1 = s1
    s2 = s2
    s3 = s3
    Server <- MCServer
    Candidates <- MCCandidates
    Terms = {1}
    Logs <- MCLogs
SPECIFICATION Spec
INVARIANT GrantOnlyUpToDate
CHECK_DEADLOCK FALSE
