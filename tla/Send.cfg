\* Commands, replies and time codes over a buffer that may grow or may not;
\* sizes on both sides of every check.
SPECIFICATION Spec
CONSTANTS
    AppThreads = {a1, a2}
    Loop = loop
    None = None
    BufSize = 29
    Ops = {"read", "write", "timecode", "readReply", "writeReply"}
    PathLens = {1}
    ReplyLens = {0, 5}
    DataLens = {0, 8}
    NumChunks = 2
    MaxSends = 1
    MaxReplies = 2
INVARIANTS
    TypeOK
    SendsOwnFrame
    FramesNotMixed
    CommandsAnswered
PROPERTY
    RefusalsJustified
