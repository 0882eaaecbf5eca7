\* One game, one analysis.
SPECIFICATION Spec
CONSTANTS
    Files = {f1}
    Bots = {leela}
    OldFiles = {f1}
    Backups = {}
    MaxClicks = 1
INVARIANT ProgressSettles
