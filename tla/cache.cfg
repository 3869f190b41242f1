SPECIFICATION Spec
CONSTANTS
    f1 = f1
    f2 = f2
    f3 = f3
    Files = {f1, f2, f3}
    Size <- MCSize
    Buckets = 3
    Confs <- MCConfs
    MaxRequests = 5
INVARIANTS TypeOK Fits SearchesEnd Intact SafeUse CopiesBounded
