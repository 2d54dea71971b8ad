CONSTANTS
    MinTriangles = 1
    SourceMeshes <- MCSourceMeshes
    LevelTargets <- MCLevelTargets
SPECIFICATION FairSimplifierSpec
CHECK_DEADLOCK FALSE
INVARIANTS MeshIsKnown
PROPERTIES LevelsAreMade Terminates
