SPECIFICATION FairSpec
CONSTANTS
    NrThreads = 2
    Sizes = {2}
    MaxConns = 1

PROPERTY ExitReturns
