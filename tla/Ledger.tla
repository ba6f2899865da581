------------------------------- MODULE Ledger -------------------------------
(***************************************************************************)
(* The registers of one user and the forms that change them: capture and   *)
(* editing of expenses, recurring expenses, income sources and one-off     *)
(* income, and the plan, while time passes.  What the pages show of them   *)
(* is in Figures.  Storing is one step here, done or not done; requests    *)
(* that are delayed or lost are the subject of Workspace.                  *)
(***************************************************************************)
EXTENDS Figures, Sequences

CONSTANTS
    Days,          \* the dates the model's clock stops at, ascending
    MaxAmount,     \* MAX_AMOUNT, in cents
    Amounts,       \* amounts the user types
    Picks,         \* categories the user has a use for
    DaysOfMonth,   \* days typed into the recurring form
    Payments,      \* frequency and weekday typed into the income form
    Plans,         \* starting balance and amounts typed into the plan's form
    OldExpenses,   \* stored by earlier versions of the program
    OldRecurring,
    Months,        \* months the properties speak of
    MaxNew,        \* bound: records added
    MaxEdits       \* bound: records and plans changed

Frequencies == {"monthly", "weekly", "quarterly", "yearly"}

ASSUME LedgerAssumption ==
    /\ Days \in Seq(Nat \X (1..12) \X (1..31)) /\ Len(Days) > 0
    /\ \A i \in 1..Len(Days) : Days[i][3] <= LastDay(<<Days[i][1], Days[i][2]>>)
    /\ \A i, j \in 1..Len(Days) : i < j => DateUpTo(Days[i], Days[j])
    /\ MaxAmount \in Nat /\ Amounts \subseteq Int
    /\ \A p \in Plans : p.start \in Int /\ \A f \in DOMAIN p.typed : p.typed[f] \in Int
    /\ Months \subseteq Nat \X (1..12)
    /\ MaxNew \in Nat /\ MaxEdits \in Nat

VARIABLES
    day,          \* the clock: index of today's date in Days
    expenses,
    recurring,
    incomes,
    events,
    plan,         \* the expectations record, NoPlan before it is saved
    warned,       \* CapturePage: dup, the duplicate it has warned of
    editing,      \* IncomePage: the source as it was when "edit" was clicked
    ids,          \* ids handed out by newId
    edits         \* edits so far

vars == <<day, expenses, recurring, incomes, events, plan, warned, editing, ids, edits>>

Today   == Days[day]
Current == Ym(Today)

NoPlan   == [start |-> 0, expected |-> [f \in {} |-> 0]]
NoSource == [id |-> 0]

-----------------------------------------------------------------------------
(* What the forms accept.  Amounts are whole cents, so that the two decimals *)
(* need no check; notes and labels and their lengths are left out.           *)

ValidAmount(amount)     == amount > 0 /\ amount <= MaxAmount
ValidCategory(category) == category \in Categories \cup Legacy
ValidDate_Unbounded(date) == TRUE
ValidDate(date)         == DateUpTo(date, Today)

ValidExpense(amount, category, date) ==
    ValidAmount(amount) /\ ValidCategory(category) /\ ValidDate(date)
ValidRecurring(amount, category, dom) ==
    ValidAmount(amount) /\ ValidCategory(category) /\ dom \in 1..31
ValidSource(amount, p) ==
    /\ ValidAmount(amount)
    /\ p.frequency \in Frequencies /\ p.payWeekday \in (0..6) \cup {NoWeekday}
\* The date is not bounded.
ValidEvent(amount, date) == ValidAmount(amount)
ValidPlan(start, expected) ==
    /\ start <= MaxAmount /\ -start <= MaxAmount
    /\ \A f \in DOMAIN expected : ValidAmount(expected[f])

Dates      == Nat \X (1..12) \X (1..31)
Expense    == [id : Nat \X {NoMonth}, amount : 1..MaxAmount, category : Categories \cup Legacy,
               date : Dates]
Template   == [id : Nat, amount : 1..MaxAmount, category : Categories \cup Legacy, day : 1..31,
               active : BOOLEAN, endedAt : (Nat \X (1..12)) \cup {NoMonth}, created : Dates]
Source     == [id : Nat, amount : 1..MaxAmount, frequency : Frequencies,
               payWeekday : (0..6) \cup {NoWeekday}, active : BOOLEAN,
               endedAt : Dates \cup {NoDate}, created : Dates]
Event      == [id : Nat, amount : 1..MaxAmount, date : Dates]

\* Earlier versions stored such records, too: of days and months past, under ids of
\* their own.
ASSUME OldAssumption ==
    /\ IsFiniteSet(OldExpenses) /\ OldExpenses \subseteq Expense
    /\ \A e \in OldExpenses : DateUpTo(e.date, Days[1])
    /\ IsFiniteSet(OldRecurring) /\ OldRecurring \subseteq Template
    /\ \A t \in OldRecurring :
          /\ t.id > MaxNew /\ (t.endedAt # NoMonth => UpTo(t.endedAt, Ym(Days[1])))
          /\ \A u \in OldRecurring : t.id = u.id => t = u

\* A page that is left forgets what it warned of or was editing.
Elsewhere == ~warned /\ editing = NoSource

\* The record a form changes, replaced or added: upsert of the local register.
Put(register, r) == {x \in register : x.id # r.id} \cup {r}
Without(register, id) == {x \in register : x.id # id}

-----------------------------------------------------------------------------
(* One-off expenses: CapturePage, EditExpense, ExpensesPage.               *)

\* Dates typed into a form: of any day of the model, also one to come.
TypedDates == {Days[i] : i \in 1..Len(Days)}

\* The chips are topCategories, the select the fixed list.
Offered == Picks \cap (Categories \cup TopCategories(expenses, 6))

Twin(amount, category, date) ==
    \E x \in expenses : x.amount = amount /\ x.category = category /\ x.date = date

CaptureWarn ==
    /\ ~warned /\ ids < MaxNew /\ editing = NoSource
    /\ \E amount \in Amounts, category \in Offered, date \in TypedDates :
          ValidExpense(amount, category, date) /\ Twin(amount, category, date)
    /\ warned' = TRUE
    /\ UNCHANGED <<day, expenses, recurring, incomes, events, plan, editing, ids, edits>>

CaptureSave(amount, category, date) ==
    /\ ids < MaxNew /\ editing = NoSource
    /\ ValidExpense(amount, category, date)
    /\ Twin(amount, category, date) => warned
    /\ ids' = ids + 1
    /\ expenses' = expenses \cup {[id |-> <<ids', NoMonth>>, amount |-> amount,
                                   category |-> category, date |-> date]}
    /\ warned' = FALSE
    /\ UNCHANGED <<day, recurring, incomes, events, plan, editing, edits>>

LeaveCapture ==
    /\ warned
    /\ warned' = FALSE
    /\ UNCHANGED <<day, expenses, recurring, incomes, events, plan, editing, ids, edits>>

EditExpense(e, amount, category, date) ==
    /\ edits < MaxEdits /\ edits' = edits + 1
    /\ Elsewhere
    /\ category \in EditableCategories(e.category)
    /\ ValidExpense(amount, category, date)
    /\ expenses' = Put(expenses, [e EXCEPT !.amount = amount, !.category = category,
                                           !.date = date])
    /\ UNCHANGED <<day, recurring, incomes, events, plan, warned, editing, ids>>

DeleteExpense(e) ==
    /\ Elsewhere
    /\ expenses' = Without(expenses, e.id)
    /\ UNCHANGED <<day, recurring, incomes, events, plan, warned, editing, ids, edits>>

-----------------------------------------------------------------------------
(* RecurringPage: a template is added, ended, and once ended removed. *)

AddRecurring(amount, category, dom) ==
    /\ Elsewhere
    /\ ids < MaxNew
    /\ ValidRecurring(amount, category, dom)
    /\ ids' = ids + 1
    /\ recurring' = Put(recurring,
          [id |-> ids', amount |-> amount, category |-> category, day |-> dom,
           active |-> TRUE, endedAt |-> NoMonth, created |-> Today])
    /\ UNCHANGED <<day, expenses, incomes, events, plan, warned, editing, edits>>

Ended(t) == [t EXCEPT !.active = FALSE, !.endedAt = Current]

EndRecurring(t) ==
    /\ Elsewhere
    /\ t.active
    /\ recurring' = Put(recurring, Ended(t))
    /\ UNCHANGED <<day, expenses, incomes, events, plan, warned, editing, ids, edits>>

RemoveRecurring(t) ==
    /\ Elsewhere
    /\ ~t.active
    /\ recurring' = Without(recurring, t.id)
    /\ UNCHANGED <<day, expenses, incomes, events, plan, warned, editing, ids, edits>>

-----------------------------------------------------------------------------
(* IncomePage: the rows and the form are on the page together.  The form    *)
(* keeps the source as it was when its "edit" was clicked and takes id,     *)
(* dates and state from there.                                              *)

AddIncome(amount, p) ==
    /\ ~warned
    /\ ids < MaxNew /\ editing = NoSource
    /\ ValidSource(amount, p)
    /\ ids' = ids + 1
    /\ incomes' = Put(incomes,
          [id |-> ids', amount |-> amount, frequency |-> p.frequency,
           payWeekday |-> p.payWeekday, active |-> TRUE, endedAt |-> NoDate,
           created |-> Today])
    /\ UNCHANGED <<day, expenses, recurring, events, plan, warned, editing, edits>>

StartEdit(s) ==
    /\ ~warned
    /\ editing # s /\ edits < MaxEdits
    /\ editing' = s
    /\ UNCHANGED <<day, expenses, recurring, incomes, events, plan, warned, ids, edits>>

CancelEdit ==
    /\ editing # NoSource
    /\ editing' = NoSource
    /\ UNCHANGED <<day, expenses, recurring, incomes, events, plan, warned, ids, edits>>

Edited_Activates(amount, p) ==
    [editing EXCEPT !.amount = amount, !.frequency = p.frequency,
                    !.payWeekday = p.payWeekday, !.active = TRUE]
Edited(amount, p) ==
    [editing EXCEPT !.amount = amount, !.frequency = p.frequency,
                    !.payWeekday = p.payWeekday]

SaveEdit(amount, p) ==
    /\ edits < MaxEdits /\ edits' = edits + 1
    /\ editing # NoSource
    /\ ValidSource(amount, p)
    /\ incomes' = Put(incomes, Edited(amount, p))
    /\ editing' = NoSource
    /\ UNCHANGED <<day, expenses, recurring, events, plan, warned, ids>>

EndIncome(s) ==
    /\ ~warned
    /\ s.active
    /\ incomes' = Put(incomes, [s EXCEPT !.active = FALSE, !.endedAt = Today])
    /\ UNCHANGED <<day, expenses, recurring, events, plan, warned, editing, ids, edits>>

RemoveIncome(s) ==
    /\ ~warned
    /\ ~s.active
    /\ incomes' = Without(incomes, s.id)
    /\ UNCHANGED <<day, expenses, recurring, events, plan, warned, editing, ids, edits>>

\* A date is bounded by the browser's form at today's date in UTC, which west of
\* Greenwich is tomorrow's in the evening; validateIncomeEvent does not bound it.
Tomorrow ==
    LET k == <<Today[1], Today[2]>>
    IN  IF Today[3] < LastDay(k) THEN <<k[1], k[2], Today[3] + 1>>
        ELSE <<NextMonth(k)[1], NextMonth(k)[2], 1>>

EventDates == {Days[i] : i \in 1..day} \cup {Tomorrow}

AddEvent(amount, date) ==
    /\ ~warned
    /\ ids < MaxNew
    /\ ValidEvent(amount, date)
    /\ ids' = ids + 1
    /\ events' = Put(events, [id |-> ids', amount |-> amount, date |-> date])
    /\ UNCHANGED <<day, expenses, recurring, incomes, plan, warned, editing, edits>>

RemoveEvent(v) ==
    /\ ~warned
    /\ events' = Without(events, v.id)
    /\ UNCHANGED <<day, expenses, recurring, incomes, plan, warned, editing, ids, edits>>

-----------------------------------------------------------------------------
(* ExpectationsForm: toExpectations drops what is not positive before the    *)
(* rest is validated.  Onboarding asks for three fields to be filled in,     *)
(* whatever with.                                                          *)

Core == {"groceries", "goingOut", "shopping"}

Cleaned(typed) == [f \in {g \in DOMAIN typed : typed[g] > 0} |-> typed[f]]

SavePlan(p, requireCore) ==
    /\ edits < MaxEdits /\ edits' = edits + 1
    /\ Elsewhere
    /\ requireCore => incomes = {} /\ Core \subseteq DOMAIN p.typed
    /\ ValidPlan(p.start, Cleaned(p.typed))
    /\ plan' = [start |-> p.start, expected |-> Cleaned(p.typed)]
    /\ UNCHANGED <<day, expenses, recurring, incomes, events, warned, editing, ids>>

Tick ==
    /\ day < Len(Days)
    /\ day' = day + 1
    /\ UNCHANGED <<expenses, recurring, incomes, events, plan, warned, editing, ids, edits>>

-----------------------------------------------------------------------------
Init ==
    /\ day = 1
    /\ expenses = OldExpenses /\ recurring = OldRecurring
    /\ incomes = {} /\ events = {} /\ plan = NoPlan
    /\ warned = FALSE /\ editing = NoSource /\ ids = 0 /\ edits = 0

Next ==
    \/ Tick
    \/ CaptureWarn \/ LeaveCapture \/ CancelEdit
    \/ \E a \in Amounts, c \in Offered, d \in TypedDates : CaptureSave(a, c, d)
    \/ \E e \in expenses, a \in Amounts, c \in Picks, d \in TypedDates :
          EditExpense(e, a, c, d)
    \/ \E e \in expenses : DeleteExpense(e)
    \/ \E a \in Amounts, c \in Picks \cap Categories, d \in DaysOfMonth : AddRecurring(a, c, d)
    \/ \E t \in recurring : EndRecurring(t) \/ RemoveRecurring(t)
    \/ \E a \in Amounts, p \in Payments : AddIncome(a, p) \/ SaveEdit(a, p)
    \/ \E s \in incomes : StartEdit(s) \/ EndIncome(s) \/ RemoveIncome(s)
    \/ \E a \in Amounts, d \in EventDates : AddEvent(a, d)
    \/ \E v \in events : RemoveEvent(v)
    \/ \E p \in Plans, core \in BOOLEAN : SavePlan(p, core)

Spec == Init /\ [][Next]_vars

-----------------------------------------------------------------------------
(* Properties.                                                             *)

TypeOK ==
    /\ day \in 1..Len(Days)
    /\ expenses \subseteq Expense /\ \A e \in expenses : DateUpTo(e.date, Today)
    /\ recurring \subseteq Template
    /\ incomes \subseteq Source
    /\ events \subseteq Event
    /\ plan.start \in (-MaxAmount)..MaxAmount
    /\ plan.expected \in [DOMAIN plan.expected -> 1..MaxAmount]
    /\ warned \in BOOLEAN
    /\ editing \in Source \cup {NoSource}
    /\ ids \in 0..MaxNew /\ edits \in 0..MaxEdits

Series == MonthlyFigures(expenses, recurring, incomes, Current, events)
Items(k) == MonthlyExpenses(expenses, ExpandRecurring(recurring, k), k)
Income(k) == MonthIncome(incomes, k, events)

\* Every view computes a month's spend in its own way: the month's total, the rows by
\* category, the rows the browser lists, the days of the heatmap, the buckets of the
\* category trend, the series behind the trend and the bars.  All agree, for the months
\* up to the current one.
ViewsAgree ==
    LET daily  == DailyTotals(expenses, recurring, Current)
        trends == CategoryTrends(expenses, recurring, Current, 12)
        all    == Categories \cup Legacy
        ofDay(d) == daily[d]
    IN  \A k \in {j \in Months : UpTo(j, Current)} :
          LET total == MonthTotal(Items(k))
              byCat == ByCategory(Items(k))
              ofCat(c) == byCat[c]
              ofBucket(b) == trends[k][b]
          IN  /\ MapThenSumSet(ofCat, DOMAIN byCat) = total
              /\ MonthTotal(BrowseExpenses(expenses, recurring, k, all)) = total
              /\ MapThenSumSet(ofDay, {d \in DOMAIN daily : Ym(d) = k}) = total
              /\ k \in DOMAIN trends => MapThenSumSet(ofBucket, Buckets) = total
              /\ IF k \in DOMAIN Series THEN Series[k].spend = total ELSE total = 0

\* What flows out of a month's income is all of it, or all that was spent; the groups of
\* the flow chart show what the comparison with the plan shows for the same bucket,
\* though each has a table of its own; and Saved is what the saved bar shows.
FlowsBalance ==
    \A k \in Months :
      LET total == MonthTotal(Items(k))
          flows == MonthFlows(Items(k), Income(k))
          rows  == CompareBuckets(Items(k), plan.expected)
          shown(n) == IF n \in DOMAIN flows THEN flows[n] ELSE 0
      IN  /\ MapThenSumSet(shown, DOMAIN flows) =
                IF Income(k) > total THEN Income(k) ELSE total
          /\ \A b \in PlanFields : rows[b].actual = shown(b)
          /\ SavedThisMonth(Income(k), total).saved = shown("saved")

\* The balance line ends at the starting balance plus everything ever received minus
\* everything ever spent, when the window holds the whole history: the series of months
\* leaves none out that has money in it, though it is put together from three registers.
\* And the benchmark of a month after all others is the 3-month average of the trend.
BalanceConserved ==
    LET rows  == expenses \cup ExpandRecurring(recurring, Current)
        past  == MonthSpan(Ym(Days[1]), Current) \cup {Ym(v.date) : v \in events}
        line  == TrendLine(Series, plan.start, Cardinality(DOMAIN Series))
        next  == NextMonth(NextMonth(Current))
        three == WindowAverages(Series, 3)
    IN  DOMAIN line # {} =>
          /\ line[Latest(DOMAIN line)] =
                plan.start + MapThenSumSet(Income, past) - MonthTotal(rows)
          /\ ExpectedSpend(Series, next) = [sum |-> three.avgSpend, months |-> three.months]

\* Whatever has been recorded can be looked at: a month with expenses is among the
\* months of the browser, a month with expenses or income among those of the dashboard.
MonthsReachable ==
    \A k \in {j \in Months : UpTo(j, Current)} :
      /\ Items(k) # {} => k \in BrowserMonths(expenses, recurring, Current)
      /\ Items(k) # {} \/ Income(k) # 0 => k \in DashboardMonths(Series, Current)

\* A template has exactly one row in every month from its creation to its end or the
\* current month, whatever its day of the month, and none later; and the loop that
\* walks the months visits exactly those.
OneRowAMonth ==
    \A t \in {u \in recurring : Visible(u)} :
      LET first == Ym(t.created)
          last  == IF t.active THEN Current ELSE t.endedAt
      IN  /\ MonthsWalked(first, last) = MonthSpan(first, last)
          /\ \A k \in Months :
                Cardinality({r \in RowsOf(t, Current) : Ym(r.date) = k}) =
                    IF UpTo(first, k) /\ UpTo(k, last) THEN 1 ELSE 0

\* A source pays in the month it was created, and over any twelve months it is active
\* twelve times, four times, once, or, weekly, 52 or 53 times.
PaysPerYear ==
    \A s \in {u \in incomes : u.active} :
      LET first == Ym(s.created)
          paid(k) == SourceAmountInMonth(s, k) \div s.amount
      IN  /\ paid(first) > 0
          /\ \A k \in MonthSpan(first, Current) :
                MapThenSumSet(paid, MonthSpan(k, IF k[2] = 1 THEN <<k[1], 12>>
                                                 ELSE <<k[1] + 1, k[2] - 1>>)) \in
                    CASE s.frequency = "monthly"   -> {12}
                      [] s.frequency = "quarterly" -> {4}
                      [] s.frequency = "yearly"    -> {1}
                      [] s.frequency = "weekly"    -> {52, 53}

\* The history of a month, up to the current one, changes only where the user touches
\* it: an expense or event of the month is added, changed or removed, an ended template
\* or source is removed, a source is edited.  Time passing, ending, and adding in a later
\* month change nothing of it (BR-REC-END-1, EX-INC-3).
Reworked ==
    \E s \in incomes, u \in incomes' :
       s.id = u.id /\ (u.active \/ ~s.active) /\ s # u
\* A source that was removed comes back when a form still open for it is saved.
Dropped(register, left) == \E r \in register : \A x \in left : x.id # r.id
Begun(register, grown, k) ==
    \E x \in grown : UpTo(Ym(x.created), k) /\ \A r \in register : r.id # x.id
HistoryOf(k) ==
    /\ \/ Items(k)' = Items(k)
       \/ {e \in expenses : Ym(e.date) = k} # {e \in expenses' : Ym(e.date) = k}
       \/ Dropped(recurring, recurring') \/ Begun(recurring, recurring', k)
    /\ \/ Income(k)' = Income(k)
       \/ {v \in events : Ym(v.date) = k} # {v \in events' : Ym(v.date) = k}
       \/ Dropped(incomes, incomes') \/ Begun(incomes, incomes', k) \/ Reworked
HistoryKept == [][\A k \in Months : UpTo(k, Current) => HistoryOf(k)]_vars

\* Editing keeps the end a source has (IncomeForm: "editing keeps id/dates/end state"):
\* what has ended stays ended, on its date, but for a form that was opened before the
\* row's End button was used, which writes back the state of its older copy.
EndKept ==
    [][\A s \in incomes, u \in incomes' :
          s.id = u.id /\ ~s.active =>
             \/ ~u.active /\ u.endedAt = s.endedAt
             \/ editing.id = s.id /\ editing.active]_vars
=============================================================================
