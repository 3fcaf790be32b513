SPECIFICATION BankSpec
CONSTANTS
    Uris <- MCUris
    Ids <- MCIds
    PlainUris <- MCPlainUris
    Hash <- Colliding
    MaxSlots = 4
    MaxMagic = 5
    NoUri = noUri
    a = a
    b = b
    c = c
INVARIANTS
    StoreInv
    BankInv
    KeysFindTheirOwn
PROPERTIES
    StaleForEver
    OtherKeysUndisturbed
