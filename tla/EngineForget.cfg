SPECIFICATION Spec
CONSTANTS
    Node = {n1}
    Worker = {w1, w2}
    Change = {c1, c2}
    DocState = {o1, o2}
    Nil = Nil
    SnapshotEvery = 2
    Calls = {"Submit", "Export", "Delete"}
    StorageFails = FALSE
    MaxOps = 2
SYMMETRY Symmetry
INVARIANTS
    ForgottenIsReloaded
