CONSTANTS
    c1 = c1  c2 = c2  w1 = w1  w2 = w2  g1 = g1
    Conns = {c1, c2}
    Workers = {w1, w2}
    Groups = {g1}
    GroupOf <- OneGroup
    BufferSize = 1
    MaxCmds <- TwoAndOne
    Leaving = {c1, c2}
    MaxSignals = 0
    Kinds <- ThenPlain
    Main = Main
    Nobody = Nobody
SPECIFICATION Spec
INVARIANTS OnlyFirstDropped RemovedUnreachable AtMostOnce RestsOnlyDone
SYMMETRY WorkerSymmetry
