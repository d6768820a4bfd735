\* The smallest pool whose destructor can hang.
CONSTANTS
    w1 = w1
    w2 = w2
    w3 = w3
    t1 = t1
    t2 = t2
    t3 = t3
    Main = Main
    None = None
    Workers <- OneWorker
    Tasks <- OneTask
SPECIFICATION Spec
PROPERTIES
    DestructorReturns
