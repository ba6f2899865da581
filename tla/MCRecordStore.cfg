SPECIFICATION Spec
CONSTANTS
    Users <- MCUsers
    Sessions <- OneEach
    UserOf <- MCUserOf
    Ids <- MCIds
    Kinds = {"tx", "settings"}
    Values = {"x"}
    Calls = {1, 2}
    MayUse <- MCMayUse
INVARIANTS ReadsOwn
PROPERTIES OnlyOwnerWrites OwnStore
