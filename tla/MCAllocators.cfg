CONSTANTS
    None = None
    main = main
    w1 = w1
    w2 = w2
    Threads <- MCThreads
    Main = main
    Sizes = {1, 3}
    Alignments = {1, 4}
    Tags = {"Vector", "String"}
    Limit = 64
    Capacity = 8
    PageSize = 6
    Header = 1
    Phases = {0, 2}
    MaxCalls = 3
SYMMETRY Workers
SPECIFICATION Spec
CHECK_DEADLOCK FALSE
INVARIANTS CountersRight PeakIsHighest BlocksApart
