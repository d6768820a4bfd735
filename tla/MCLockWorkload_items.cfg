\* Two iterations: the first is forgotten.
CONSTANTS
    t1 = t1
    t2 = t2
    t3 = t3
    Threads <- MCThreads
    Locks <- AllLocks
    Ops = 2
    Iterations = 2
SPECIFICATION Spec
INVARIANTS
    ItemsOfAllIterations
