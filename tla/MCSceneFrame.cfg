SPECIFICATION Spec
CONSTANTS
    LevelBits = 2
    BucketLevels = 2
    TreeLevels = 1
    Bins = 4
    Grid = 15
    BuildTlas <- Tlas
    RaycastScene <- RayHit
    Scenes <- MCScenes
    Views <- MCViews
    Rays <- MCRays
    Movers = {1, 3}
    Places = {0, 9}
    Grain = 4
    KeyMod = 2
INVARIANTS VisibleExactly InstancesOwn
PROPERTIES PickIsDrawn PickNearest
CHECK_DEADLOCK FALSE
