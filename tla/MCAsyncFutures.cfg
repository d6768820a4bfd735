\* Two chains of three: a step has a step before and one after it.
CONSTANTS
    w1 = w1
    w2 = w2
    w3 = w3
    Workers <- MCWorkers
    Throwing <- MCThrowing
    Patterns <- AllPatterns
    NumTasks = 6
    ChainLength = 3
SPECIFICATION Spec
INVARIANTS
    PromisesSetOnce
    TallyComplete
    NothingOutlives
PROPERTIES
    BenchmarkEnds
