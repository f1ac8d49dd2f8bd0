SPECIFICATION FairSpec
CONSTANTS
    Node = {n1}
    Worker = {w1, w2}
    Change = {c1}
    DocState = {o1, o2}
    Nil = Nil
    SnapshotEvery = 1
    Calls = {"Submit", "Snapshot", "Delete"}
    StorageFails = TRUE
    MaxOps = 1
PROPERTIES
    RequestsReturn
