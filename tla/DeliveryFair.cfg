SPECIFICATION FairSpec
CONSTANTS
    Client = {c1, c2}
    Nil = Nil
    QueueSize = 1
    ReplayBatch = 2
    Setups <- Faulty
    MaxOps = 2
PROPERTIES
    BroadcastReturns
    SubscribeAnswered
