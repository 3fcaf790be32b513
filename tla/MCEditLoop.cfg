SPECIFICATION Spec
CONSTANTS
    Entities = {e1, e2}
    NoEntity = NoEntity
    Numbers = {0, 1}
INVARIANTS
    EditInv
    SelectionAgrees
    CopiesCurrent
    DragEndsUnlessSwallowed
PROPERTIES
    EditsHitSelection
    PickSeesWhatWasClicked
