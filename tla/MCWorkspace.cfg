SPECIFICATION Spec
CONSTANTS
    Ids = {"e", "r"}
    Kinds = {"expense", "recurring"}
    KindOf <- MCKindOf
    Calls = {1, 2}
    MaxWrites = 3
    MaxFaults = 1
INVARIANTS ShownIsStored OnlyExpensesDouble
PROPERTIES Settles
