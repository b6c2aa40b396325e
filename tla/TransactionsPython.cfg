SPECIFICATION Spec
CONSTANTS
    Callers = {t1}
    TotalIds = 1
    MaxOps = 1
    RetryCount = 1
    Kinds = {"python"}
    None = None
INVARIANTS
    PythonCallbackWithinCall
