SPECIFICATION BackupSpec
CONSTANTS
    Clients = {a}
    Passphrases = {p1}
    Ids = {"e", "r"}
    Kinds = {"expense", "recurring"}
    KindOf <- MCKindOf
    Portable = {"expense", "recurring"}
    MaxKeys = 2
    MaxSaves = 1
    MaxFaults = 1
INVARIANTS FileOpens
PROPERTIES RestoredReadable RestoresAll BackupSettles
