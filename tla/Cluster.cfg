SPECIFICATION Spec
CONSTANTS
    Node = {n1, n2}
    Conn = {c1, c2}
    Nil = Nil
    RedisFails = TRUE
    StoreFails = TRUE
    MaxOps = 2
    MaxCommands = 1
SYMMETRY Symmetry
INVARIANTS
    TypeOK
    OriginOrder
    LocalComplete
