SPECIFICATION Spec
CONSTANTS
    Node = {n1, n2}
    Conn = {c1, c2}
    Nil = Nil
    RedisFails = FALSE
    StoreFails = FALSE
    MaxOps = 1
    MaxCommands = 2
SYMMETRY Symmetry
INVARIANT
    ChannelFollowsHub
