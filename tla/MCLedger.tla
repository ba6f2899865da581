------------------------------ MODULE MCLedger ------------------------------
(* A small instance of Ledger: month ends, a leap day, a quarter and a year *)
(* later, with records of an earlier version of the program.               *)
EXTENDS Ledger

MCDays     == << <<2023, 11, 30>>, <<2024, 2, 29>> >>
MCMonths   == {<<2023, 10>>, <<2023, 11>>, <<2023, 12>>, <<2024, 2>>, <<2024, 3>>}
MCPicks    == {"Groceries", "Food"}
MCPayments == {[frequency |-> "monthly", payWeekday |-> NoWeekday],
               [frequency |-> "quarterly", payWeekday |-> NoWeekday],
               [frequency |-> "yearly", payWeekday |-> NoWeekday],
               [frequency |-> "weekly", payWeekday |-> 3]}
MCPlans    == {[start |-> -2, typed |-> [groceries |-> 2, goingOut |-> 0, shopping |-> -1]],
               [start |-> 0, typed |-> [groceries |-> 3, goingOut |-> 1, shopping |-> 1]]}

MCOldExpenses == {[id |-> <<91, NoMonth>>, amount |-> 1, category |-> "Food",
                   date |-> <<2023, 11, 30>>]}
MCOldRecurring ==
    {[id |-> 92, amount |-> 1, category |-> "Family & Kids", day |-> 31, active |-> FALSE,
      endedAt |-> NoMonth, created |-> <<2023, 10, 5>>]}
=============================================================================
