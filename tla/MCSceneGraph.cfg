SPECIFICATION Spec
CONSTANTS
    MaxDocs = 4
    MaxMoves = 1
    Scenes <- AllScenes
INVARIANTS
    TypeOK
    ChildListsRight
    WorldIsPath
    WorldSettles
