\* Two operations each, in two iterations: the second starts from zero.
CONSTANTS
    t1 = t1
    t2 = t2
    t3 = t3
    Threads <- MCThreads
    Locks <- AllLocks
    Ops = 2
    Iterations = 2
SPECIFICATION Spec
INVARIANTS
    RaceFree
    CountsAgree
    FairnessMeaning
PROPERTIES
    BenchmarkEnds
