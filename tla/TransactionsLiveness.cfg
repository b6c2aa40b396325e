SPECIFICATION FairSpec
CONSTANTS
    Callers = {t1, t2}
    TotalIds = 1
    MaxOps = 1
    RetryCount = 0
    Kinds = {"write", "readAsync", "python"}
    None = None
PROPERTIES
    CallsReturn
    DispatchedResolves
