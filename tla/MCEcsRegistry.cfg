SPECIFICATION Spec
CONSTANTS
    MaxEntities = 3
    Components = {transform, model}
    Values = {v1, v2}
    Absent = absent
SYMMETRY Symmetry
INVARIANTS
    RegistryInv
    NoNumberLost
PROPERTY ImplementsStore
