CONSTANTS
    c1 = c1  c2 = c2  c3 = c3  w1 = w1  w2 = w2
    Conns = {c1, c2, c3}
    Workers = {w1, w2}
    Callers = {w1, w2}
    GroupSize = 2
    GroupCount = 2
    MaxTasks = 3
    Nobody = Nobody
SPECIFICATION Spec
INVARIANTS TypeOK UniqueIds RecordsOfLiving OnlyUpdateRaces GroupsFill TaskIdsApart
SYMMETRY BothSymmetry
\* A panic ends the process; connections and calls are bounded.
CHECK_DEADLOCK FALSE
