\* Reads over a buffer that should grow.
SPECIFICATION Spec
CONSTANTS
    AppThreads = {a1, a2}
    Loop = loop
    None = None
    BufSize = 29
    Ops = {"read"}
    PathLens = {1}
    ReplyLens = {0, 5}
    DataLens = {0, 8}
    NumChunks = 2
    MaxSends = 1
    MaxReplies = 0
INVARIANT
    AutoResizeNeverRefuses
