SPECIFICATION Spec
CONSTANTS
    Node = {n1}
    Worker = {w1, w2}
    Change = {c1, c2}
    DocState = {o1}
    Nil = Nil
    SnapshotEvery = 2
    Calls = {"Submit", "Snapshot", "Export", "Delete", "Create"}
    StorageFails = TRUE
    MaxOps = 2
SYMMETRY Symmetry
CONSTRAINT Calm
INVARIANTS
    TypeOK
    SnapshotSound
    AckedSurviveRestart
    CacheMatchesLog
    ExportReadsAcked
    CreatedAtMostOnce
PROPERTIES
    BroadcastInOrder
