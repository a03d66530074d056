CONSTANTS
    s1 = s1
    s2 = s2
    s3 = s3
    Server <- MCServer
    MaxCalls = 1
    MaxRestarts = 0
SPECIFICATION Spec
INVARIANT StartReplyHonest
CHECK_DEADLOCK FALSE
