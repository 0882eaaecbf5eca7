\* The user deletes sgf files while faults happen; a bot is named twice.
SPECIFICATION Spec
CONSTANTS
    g1 = g1
    g2 = g2
    w1 = w1
    w2 = w2
    Bots = {"leela", "leela_zero"}
    Pages <- OneGame
    BotList <- RepeatedBots
    Workers = {w1, w2}
    Local <- LocalWorker
    Paths <- AllPaths
    Ids <- IdLater
    Faults = {"crash", "worker_crash", "page", "sgf", "reply", "body", "post", "answer", "analysis"}
    MaxFaults = 2
    MaxDeletes = 1
INVARIANT AtMostOnce
INVARIANT Accounted
