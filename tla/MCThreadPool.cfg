\* Three workers and three tasks, submitted by Main or by a running task.
CONSTANTS
    w1 = w1
    w2 = w2
    w3 = w3
    t1 = t1
    t2 = t2
    t3 = t3
    Main = Main
    None = None
    Workers <- ThreeWorkers
    Tasks <- ThreeTasks
SPECIFICATION Spec
INVARIANTS
    SleepersNotNeeded
    NothingLeftBehind
PROPERTIES
    ImplementsTaskPool
    AcceptedTasksRun
