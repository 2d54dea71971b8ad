SPECIFICATION FairSpec
CONSTANTS
    call = call
    graph = graph
    Submissions <- Both
    Graph <- OnlyGraph
    Clients = {c1, c2}
    None = None
    PoolThreads = 2
CHECK_DEADLOCK FALSE
INVARIANTS NothingOutlivesSystem
PROPERTIES SimpleWaitersReleased SubmissionsFinish
