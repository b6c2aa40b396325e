\* Either backend, either buffer policy: parts, error ends, time codes, and a
\* peer that closes at any byte.
SPECIFICATION FairSpec
CONSTANTS
    BufSize = 3
    IgnoreSize = 1
    TimeCodeLen = 2
    Lengths = {0, 1, 2, 3}
    MaxFrames = 3
INVARIANTS
    TypeOK
    StoresInBounds
    PacketsIntact
PROPERTY
    LoopEndsWithConnection
