\* Every kind of fault, three of them, anywhere.
SPECIFICATION FairSpec
CONSTANTS
    g1 = g1
    g2 = g2
    w1 = w1
    w2 = w2
    Bots = {"leela", "leela_zero"}
    Pages <- TwoPages
    BotList <- OneBot
    Workers = {w1, w2}
    Local <- LocalWorker
    Paths <- AllPaths
    Ids <- IdSet
    Faults = {"crash", "worker_crash", "page", "sgf", "reply", "body", "post", "answer", "analysis"}
    MaxFaults = 3
    MaxDeletes = 0
INVARIANT TypeOK
INVARIANT Accounted
INVARIANT NoFaultNoDeath
PROPERTY KeepResults
PROPERTY ImplementsLifecycle
PROPERTY Settled
PROPERTY AnalysedUnlessFault
