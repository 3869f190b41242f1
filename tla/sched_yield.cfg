SPECIFICATION Spec
CONSTANTS
    t1 = t1
    t2 = t2
    t3 = t3
    q1 = q1
    Nil = Nil
    Threads = {t1, t2, t3}
    Main = t1
    MaxThreads = 3
    Queues = {q1}
    Calls = {"create", "yield", "kill"}
SYMMETRY Others
PROPERTY YieldReturns
