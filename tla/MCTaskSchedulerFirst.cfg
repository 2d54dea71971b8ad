SPECIFICATION Spec
CONSTANTS
    Tasks <- Three
    NoTask = NoTask
    Graphs <- AllGraphs
    FullProgress = 1
    Weight <- Weights
    PoolThreads = 3
    ClientMayCancel = FALSE
    SkippableTasks <- Three
    ThrowingConditions = {}
INVARIANTS FirstFailurePropagated
CHECK_DEADLOCK FALSE
