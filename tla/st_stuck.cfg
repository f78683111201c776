CONSTANTS
    s1 = s1  s2 = s2  s3 = s3
    Senders = {s1, s2}
    Codes = {"processed"}
    Values <- One
    StatBufferSize = 1
    Silent = FALSE
    MaxMsgs = 2
SPECIFICATION FairSpec
PROPERTY CloseStops
\* The deadlock of Stuck is what the property fails on.
CHECK_DEADLOCK FALSE
