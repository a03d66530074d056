CONSTANTS
    p1 = p1
    p2 = p2
    p3 = p3
    p4 = p4
    p5 = p5
    p6 = p6
    p7 = p7
    Server <- MCServer
    Me = p1
SPECIFICATION Spec
PROPERTY CandidateCampaigns
CHECK_DEADLOCK FALSE
