CONSTANTS
    c1 = c1  c2 = c2  w1 = w1  w2 = w2  g1 = g1
    Conns = {c1, c2}
    Workers = {w1}
    Groups = {g1}
    GroupOf <- OneGroup
    BufferSize = 1
    MaxCmds <- OneEach
    Leaving = {}
    MaxSignals = 2
    Kinds <- ThenExit
    Main = Main
    Nobody = Nobody
SPECIFICATION Spec
INVARIANT TypeOK
PROPERTIES StopNotifies ImplementsDelivery
