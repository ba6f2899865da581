SPECIFICATION Spec
CONSTANTS
    Days <- MCDays
    MaxAmount = 2
    Amounts = {0, 2, 3}
    Picks <- MCPicks
    DaysOfMonth = {31, 32}
    Payments <- MCPayments
    Plans <- MCPlans
    OldExpenses <- MCOldExpenses
    OldRecurring <- MCOldRecurring
    Months <- MCMonths
    MaxNew = 2
    MaxEdits = 1
INVARIANTS TypeOK ViewsAgree FlowsBalance BalanceConserved MonthsReachable OneRowAMonth PaysPerYear
PROPERTIES HistoryKept EndKept
CHECK_DEADLOCK FALSE
