SPECIFICATION Spec
CONSTANTS
    Node = {n1, n2}
    Worker = {w1, w2}
    Change = {c1, c2}
    DocState = {o1, o2}
    Nil = Nil
    SnapshotEvery = 2
    Calls = {"Submit", "Export"}
    StorageFails = FALSE
    MaxOps = 2
SYMMETRY Symmetry
INVARIANTS
    SnapshotReflectsOps
