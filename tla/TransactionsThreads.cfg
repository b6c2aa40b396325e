SPECIFICATION Spec
CONSTANTS
    Callers = {t1, t2}
    TotalIds = 1
    MaxOps = 1
    RetryCount = 2
    Kinds = {"read", "writeAsync", "python"}
    None = None
INVARIANTS
    TypeOK
    CallbackWithinCall
    CallbackRunsOnce
    ResolvedAfterCallback
    LoopSetsPendingPromise
    NoLeakedId
PROPERTIES
    ImplementsAsyncResult
SYMMETRY Threads
