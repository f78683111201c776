CONSTANTS
    c1 = c1  c2 = c2  w1 = w1
    Conns = {c1, c2}
    Workers = {w1}
    Commands <- ServerAndClient
    Early = {c1}
    Group <- GroupOf
    BufferSize = 1
    MaxMsgs <- One
    Cast = Cast  Nobody = Nobody
SPECIFICATION Spec
INVARIANTS TypeOK ChannelInv MapInv ClosedLate HangsOnlyStuck
\* Run returns after a stop, and a panic ends the process.
CHECK_DEADLOCK FALSE
