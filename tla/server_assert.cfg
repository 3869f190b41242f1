SPECIFICATION PartsSpec
CONSTANTS
    Texts <- MCTexts
    Space = " "
    Names = {"src", "dst", "f", "g", "h", "p"}
    Trees <- MCTrees
    Targets <- MCTargets
    PathBuffer = 4
    Half = 8
    Means = {2, 3}
    Numbers = {1, 2, 3, 4}
    BlockSums <- MCContents
    MaxLines = 3
    Garbage = Garbage
    Threads = {"t1", "t2", "t3", "t4"}
    TidOf <- MCTidOf
    Nodes = {1, 2, 3, 4}
    NoThread = "none"
    Null = 0
    Tasks = {T1, T2, T3}
    NoTask = NoTask
    ClientThreads = {C1, C2}
    NrTimes = 2
    WorkerCounts = {0, 2}
    MaxRequests = 1
    Writers = {W1, W2}
INVARIANT ConnectArrived
