SPECIFICATION FairSpec
CONSTANTS
    Tasks <- Three
    NoTask = NoTask
    Graphs <- AllGraphs
    FullProgress = 1
    Weight <- Weights
    PoolThreads = 3
    ClientMayCancel = TRUE
    SkippableTasks <- Three
    ThrowingConditions <- Three
CHECK_DEADLOCK FALSE
INVARIANTS TypeOK SubmissionIsOrdered DependenciesFirst RunningCounted EndIsExplained
PROPERTIES GroupProgressGrows ImplementsTaskGraph Terminates
