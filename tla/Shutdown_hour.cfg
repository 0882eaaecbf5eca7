\* autogrp without a local worker, stopped with SIGINT.
SPECIFICATION FairSpec
CONSTANTS
    Programs = {"server"}
    Signals = {"SIGINT"}
INVARIANT StopIsPrompt
