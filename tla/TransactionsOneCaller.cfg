SPECIFICATION Spec
CONSTANTS
    Callers = {t1}
    TotalIds = 2
    MaxOps = 3
    RetryCount = 1
    Kinds = {"write", "readAsync"}
    None = None
INVARIANTS
    RegisteredIdsTaken
    PromisesKept
    TerminatesOnlyOnFailedSend
