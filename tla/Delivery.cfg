SPECIFICATION Spec
CONSTANTS
    Client = {c1, c2}
    Nil = Nil
    QueueSize = 2
    ReplayBatch = 1
    Setups <- Mixed
    MaxOps = 2
SYMMETRY Symmetry
INVARIANTS
    TypeOK
    NoGap
    LiveInOrder
    SlotsExact
