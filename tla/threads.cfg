SPECIFICATION ProgramsSpec
CONSTANTS
    t1 = t1
    t2 = t2
    t3 = t3
    q1 = q1
    l1 = l1
    c1 = c1
    Nil = Nil
    Threads = {t1, t2, t3}
    Main = t1
    MaxThreads = 3
    Queues = {q1, l1, c1}
    Locks = {l1}
    Cvs = {c1}
    Calls = {"create", "yield", "exit"}
INVARIANTS Identifiers SleepersMarked JoinersHaveTarget SyncTypeOK NoSleeperOnFreeLock OwnerAlive SleepersReacquire
PROPERTIES ReadyRuns KilledIsFinal IsMonitor
