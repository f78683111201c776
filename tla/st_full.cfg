CONSTANTS
    s1 = s1  s2 = s2  s3 = s3
    Senders = {s1, s2}
    Codes = {"processed", "connection_count"}
    Values <- PlusMinus
    StatBufferSize = 1
    Silent = FALSE
    MaxMsgs = 2
SPECIFICATION FairSpec
INVARIANTS TypeOK NoSendOnClosed Counted
PROPERTIES SendReturns CloseStopsWithRoom
\* The deadlock of Stuck really stops the goroutines.
CHECK_DEADLOCK FALSE
