SPECIFICATION BackupSpec
CONSTANTS
    Clients = {a}
    Passphrases = {p1}
    Ids = {"e", "s"}
    Kinds = {"expense", "settings"}
    KindOf <- MCKindOf
    Portable = {"expense"}
    MaxKeys = 1
    MaxSaves = 2
    MaxFaults = 0
INVARIANTS FileRestores
