SPECIFICATION Spec
CONSTANTS
    Users <- MCUsers
    Sessions <- OneEach
    UserOf <- MCUserOf
    Ids <- FixedIds
    Kinds = {"settings"}
    Values = {"x"}
    Calls = {1}
    MayUse <- MCMayUse
PROPERTY PutsKept
