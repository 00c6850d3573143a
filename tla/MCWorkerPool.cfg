CONSTANTS
    w1 = w1
    w2 = w2
    t1 = t1
    t2 = t2
    t3 = t3
    nullptr = nullptr
    Workers <- MCWorkers
    Tasks <- MCTasks
    Hanging <- MCHanging
SPECIFICATION FairSpec
INVARIANTS
    TypeOK
    ExactlyOnce
PROPERTIES
    KeepsPromise
    StartedUnlessStuck
