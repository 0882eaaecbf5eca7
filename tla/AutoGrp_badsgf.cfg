\* One request for an sgf fails; nothing else goes wrong.
SPECIFICATION FairSpec
CONSTANTS
    g1 = g1
    g2 = g2
    w1 = w1
    w2 = w2
    Bots = {"leela", "leela_zero"}
    Pages <- OneGame
    BotList <- OneBot
    Workers = {w1, w2}
    Local <- LocalWorker
    Paths <- AllPaths
    Ids <- IdSet
    Faults = {"sgf"}
    MaxFaults = 1
    MaxDeletes = 0
PROPERTY Analysed
