\* No faults; the workers' configuration leaves leela_zero_path empty.
SPECIFICATION FairSpec
CONSTANTS
    g1 = g1
    g2 = g2
    w1 = w1
    w2 = w2
    Bots = {"leela", "leela_zero"}
    Pages <- OneGame
    BotList <- BothBots
    Workers = {w1, w2}
    Local <- LocalWorker
    Paths <- NoZeroPath
    Ids <- IdSet
    Faults = {}
    MaxFaults = 0
    MaxDeletes = 0
INVARIANT NoFaultNoDeath
