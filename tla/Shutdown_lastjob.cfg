\* autogrp with its local worker, stopped with SIGINT.
SPECIFICATION FairSpec
CONSTANTS
    Programs = {"local"}
    Signals = {"SIGINT"}
INVARIANT CurrentJobFinishes
