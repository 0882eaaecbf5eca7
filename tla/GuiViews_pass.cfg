\* Two files, an old one whose name goes on after ".sgf" and a game still to be
\* downloaded; two analyses.
SPECIFICATION FairSpec
CONSTANTS
    Files = {f1, f2}
    Bots = {leela}
    OldFiles = {f1}
    Backups = {f1}
    MaxClicks = 2
INVARIANT TypeOK
INVARIANT QueueViewSettles
INVARIANT OneDownload
INVARIANT TableSettles
PROPERTY ButtonReturns
PROPERTY Closes
