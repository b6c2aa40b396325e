\* Two addresses, so that connect and accept go on to the next; two starts and
\* two accepts, so that a second one meets what the first has left.
SPECIFICATION FairSpec
CONSTANTS
    NumAddrs = 2
    MaxConns = 2
    MaxStarts = 2
    MaxAccepts = 2
INVARIANTS
    TypeOK
    FreshStart
    ShutdownFindsBackend
    CleanStop
    ClientDescriptorsOwned
PROPERTIES
    StopReturns
    LossNoticed
    ServerStops
