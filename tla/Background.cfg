\* nodeTTL 30s, heartbeatInterval 10s, in units of opTimeout 5s.
SPECIFICATION FairSpec
CONSTANTS
    Node = {n1, n2}
    SchemaBackends = {"sqlite", "postgres", "mysql"}
    Migrations <- MCMigrations
    MaxCrashes = 2
    NodeTTL = 6
    HeartbeatInterval = 2
    MaxMissed = 3
    Event = {e1, e2, e3}
    Configured = {e1, e2}
    MaxRetries = 2
    Request = {r1, r2}
    Nil = Nil
    CacheTTL = 3
    Timeout = 2
    MaxTime = 8
    Absent = Absent
    NoRow = NoRow
    PageDoc = {d1, d2, d3}
    Limits = {NoRow, 1}
    Sinces = {0, 1}
    MaxWrites = 3
    NoSession = NoSession
    Conn = {k1, k2}
    Doc = {d1, d2}
    Session = {s1, s2}
    MaxMessages = 3
    Client = {c1, c2}
    SnapshotEvery = 2
    MaxChanges = 2
    MaxOwn = 1
    MaxSubmits = 3
    Rest = {q1}
    Socket = {k1}
    ClusterMode = TRUE
    CloseWaits = {TRUE, FALSE}
    MaxCalls = 2
    Blank = Blank
    Bad = Bad
    Sources <- MCSources
INVARIANTS
    TypeOK
    RecordedIsApplied
    LiveListed
    GoneDisappears
    AttemptsExact
    MetricsBalance
    AllowGrounded
    ListComplete
    HistoryComplete
    NoEcho
    TornDown
    AckedShown
    RestServed
    Released
    ConfigSound
PROPERTIES
    EventuallyReady
    DeliverySettles
    ShutdownEnds
\* Open stores, settled deliveries and the bound on time are ends.
CHECK_DEADLOCK FALSE
