\* All three programs, both signals at any moment, any number of times.
SPECIFICATION FairSpec
CONSTANTS
    Programs = {"local", "server", "client"}
    Signals = {"SIGINT", "SIGTERM"}
INVARIANT TypeOK
INVARIANT StopKeepsJob
INVARIANT WorkerStopIsPrompt
INVARIANT NoDownloadAfterStop
PROPERTY WorkerStops
PROPERTY ServerStops
