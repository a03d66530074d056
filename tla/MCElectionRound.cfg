CONSTANTS
    s1 = s1
    s2 = s2
    s3 = s3
    Server <- MCServer
    Candidates <- MCCandidates
    Terms = {1, 2}
    Logs <- MCRoundLogs
SPECIFICATION Spec
INVARIANT TypeOK
INVARIANT OneReplyReachesWinElec
PROPERTY RoundWedges
CHECK_DEADLOCK FALSE
