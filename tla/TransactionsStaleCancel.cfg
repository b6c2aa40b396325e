SPECIFICATION Spec
CONSTANTS
    Callers = {t1, t2}
    TotalIds = 1
    MaxOps = 1
    RetryCount = 1
    Kinds = {"write"}
    None = None
PROPERTIES
    CancelsOwnTransaction
