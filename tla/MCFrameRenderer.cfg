CONSTANTS
    Nothing = Nothing
    cam = cam
    front = front
    back = back
    wide = wide
    key = key
    fill = fill
    SceneCameras = {cam}
    HomeOf <- MCHomeOf
    Start <- MCStart
    DefaultDistance = 4
    Inputs <- MCInputs
    Resolutions <- MCResolutions
    MaxDistance = 6
    MaxExtent = 12
    MeshOrder <- MCMeshOrder
    SectionsOf <- MCSectionsOf
    LightOrder <- MCLightOrder
    Iterations <- MCIterations
    BinCounts = {2}
    DefaultIterations = 1
    DefaultBins = 3
    CountValues = 4
    PixelScale = 4
    PixelsPerTriangle = 1
    BenchmarkPositions <- MCPositions
    MenuViews = {"Perspective", "Top", "Orthographic"}
    Changes <- MCChanges
    Elsewhere <- MCElsewhere
    MaxEvents = 3
SPECIFICATION RendererSpec
CHECK_DEADLOCK FALSE
PROPERTIES FrameIsRight QueueInOrder ShadowsAreRight BenchmarkIsFair EyeStays BenchmarkEnds
