SPECIFICATION Spec
CONSTANTS
    Clients = {a, b}
    Passphrases = {p1, p2}
    Ids <- MCIds
    Kinds <- MCKinds
    KindOf <- MCKindOf
    MaxKeys = 3
    MaxSaves = 1
    MaxFaults = 1
SYMMETRY Symmetry
INVARIANTS MigrationComplete ChangeProven ReadableUncrossed
PROPERTIES SetupOnce SwapCoversStore ContentKept
