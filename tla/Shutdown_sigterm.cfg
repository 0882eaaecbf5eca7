\* autogrp without a local worker, stopped with SIGTERM.
SPECIFICATION FairSpec
CONSTANTS
    Programs = {"server"}
    Signals = {"SIGTERM"}
PROPERTY Stops
