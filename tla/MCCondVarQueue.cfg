\* The benchmark's arguments all divide N, and so do these.
CONSTANTS
    p1 = p1
    p2 = p2
    c1 = c1
    c2 = c2
    c3 = c3
    Producers <- MCProducers
    Consumers <- MCConsumers
    N = 4
SPECIFICATION Spec
INVARIANTS
    SleepersNotNeeded
    ItemsReported
PROPERTIES
    ImplementsBoundedQueue
    IterationEnds
