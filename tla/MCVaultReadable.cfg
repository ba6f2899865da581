SPECIFICATION Spec
CONSTANTS
    Clients = {a}
    Passphrases = {p1, p2}
    Ids <- MCIds
    Kinds <- MCKinds
    KindOf <- MCKindOf
    MaxKeys = 2
    MaxSaves = 1
    MaxFaults = 0
SYMMETRY Symmetry
INVARIANT AllReadable
