\* Two appenders on each backend, with failures, deletion and re-creation.
SPECIFICATION FairSpec
CONSTANTS
    Session = {s1, s2}
    Change = {c1, c2}
    Backends = {"sqlite", "postgres", "mysql"}
    None = None
    Fails = TRUE
    MaxOps = 3
INVARIANTS
    TypeOK
    GapFree
    AppendersSerialize
PROPERTIES
    ImplementsOpLog
    AppendReturns
