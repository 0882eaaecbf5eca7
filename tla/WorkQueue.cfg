\* One thread adds and copies, as the GUI's does; the timer thread of autogrp,
\* which only adds, is the case in which it never copies.
SPECIFICATION Spec
CONSTANTS
    j1 = j1
    j2 = j2
    Jobs = {j1, j2}
    Adders = {adder}
    Poppers = {pool}
    Viewers = {adder}
    Blocks = {b1, b2}
    Batches <- MCBatches
    Null = Null
    NoThread = NoThread
    NoJob = NoJob
    MaxQueue = 1
INVARIANT TypeOK
INVARIANT SafePop
INVARIANT CopyFits
PROPERTY ImplementsQueue
