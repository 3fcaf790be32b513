SPECIFICATION Spec
CONSTANTS
    Paths <- MCPaths
    Images <- MCImages
    Contents <- MCContents
    Sizes = {0, 1, 2}
    NoTex = noTex
    p = p
    q = q
    a = a
    b = b
INVARIANTS
    ImportInv
    StopsOnlyFor
    TreeFaithful
    JointsAndTracks
    SlicesOwn
PROPERTY MaterialsComplete
CHECK_DEADLOCK FALSE
