\* Every range around the end of the address space, chunks that divide it and
\* that do not, and odd and even numbers of reads.
SPECIFICATION FairSpec
CONSTANTS
    MemSize = 6
    ChunkSize = 2
    LenRange = 4
    MaxBytes = 4
    MaxTimes = 5
    Latencies = {0, 1, 3}
    None = None
INVARIANTS
    TypeOK
    PatternExact
    SuccessMeansRead
    LoopJoined
    SummaryRight
PROPERTY
    Returns
