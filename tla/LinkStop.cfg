\* The instance of Link.cfg.
SPECIFICATION Spec
CONSTANTS
    NumAddrs = 2
    MaxConns = 2
    MaxStarts = 2
    MaxAccepts = 2
INVARIANT
    WorkerKeepsBackend
