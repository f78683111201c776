CONSTANTS
    p1 = p1  p2 = p2  p3 = p3  v1 = v1  v2 = v2
    Clients = {p1, p2}
    Keys = {"k1", "k2"}
    Values = {v1, v2}
    Parts = 4
    Writers <- OneWriter
    Methods = {"Set", "Get", "Delete", "Clear", "Size"}
    MaxCalls = 3
    NoValue = NoValue
SPECIFICATION Spec
INVARIANT OneWriterOneCopy
PROPERTY ImplementsStrMap
