\* Three phases: a first, a middle and a last one, and a thread can be slow to
\* leave one phase while the others are in the next.
CONSTANTS
    t0 = t0
    t1 = t1
    t2 = t2
    t3 = t3
    Threads <- MCThreads
    Zero = t0
    NumPhases = 3
    Benchmarks <- AllBenchmarks
SPECIFICATION BenchSpec
INVARIANTS
    WaitingCounts
    PublishedBeforeRead
    SameCrossing
PROPERTIES
    ImplementsBarrier
    AllPhasesEnd
