SPECIFICATION FairSpec
CONSTANTS
    LF <- MCLF
    Bytes <- MCBytes
    Contents <- MCContents
    Methods <- MCMethods
    Capacity = 3
    RIO_BUFSIZE = 2
    MaxLine = 3
INVARIANTS HttpTypeOK ClientVerdict ServerSurvives
PROPERTIES IsStream BothFinish
