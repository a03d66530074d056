CONSTANTS
    s1 = s1
    s2 = s2
    s3 = s3
    Server <- MCServer
    MaxCalls = 0
    MaxRestarts = 0
SPECIFICATION Spec
PROPERTY EventuallyLeader
CHECK_DEADLOCK FALSE
