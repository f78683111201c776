CONSTANTS
    p1 = p1  p2 = p2  p3 = p3  v1 = v1  v2 = v2
    Clients = {p1, p2, p3}
    Keys = {"k1"}
    Values = {v1, v2}
    Parts = 2
    Writers <- AllWrite
    Methods = {"Set", "SetUnsafe"}
    MaxCalls = 2
    NoValue = NoValue
SPECIFICATION Spec
INVARIANTS TypeOK SeekBound
PROPERTIES SetHeals NeverVanishes
SYMMETRY ClientSymmetry
