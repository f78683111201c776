CONSTANTS
    c1 = c1  c2 = c2  s1 = s1  s2 = s2  w1 = w1  w2 = w2  m1 = m1  m2 = m2  g1 = g1
    Conns = {c1, s1}
    Workers = {w1, w2}
    Groups = {g1}
    GroupOf <- OneGroup
    BufferSize = 1
    Methods = {m1}
    Commands <- Mixed
    MaxCmds <- ServersThree
    MaxTasks = 1
    Leaving = {s1}
    Lockstep = TRUE
    Nobody = Nobody
SPECIFICATION Spec
INVARIANTS TypeOK LostOnlyGone NoneForgotten AnswersAwaited ResultKept StatusSettles
SYMMETRY WorkerSymmetry
