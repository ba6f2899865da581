SPECIFICATION Spec
CONSTANTS
    Clients = {a}
    Passphrases = {p1, p2}
    Ids <- MCIds
    Kinds <- MCKinds
    KindOf <- MCKindOf
    MaxKeys = 3
    MaxSaves = 1
    MaxFaults = 1
SYMMETRY Symmetry
PROPERTY RetrySafe
