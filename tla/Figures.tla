------------------------------- MODULE Figures ------------------------------
(***************************************************************************)
(* What the client computes from the decrypted registers: the expansion of *)
(* recurring expenses, the totals of a month, income by occurrence, the    *)
(* figures the dashboard, the trend, the comparison, the flow chart and    *)
(* the expense browser show (frontend/src/domain).  Pure: registers are    *)
(* parameters.  A register is a set of records, an amount is in cents; the *)
(* rounding of binary fractions is left out.                               *)
(***************************************************************************)
EXTENDS Calendar

NoMonth == <<0, 0>>
NoDate  == <<0, 0, 0>>
NoWeekday == -1

-----------------------------------------------------------------------------
(* The taxonomy: 16 categories in four buckets, and what older records hold. *)

BucketOf ==
    [Fixed     |-> {"Rent", "Bills", "Insurance"},
     Everyday  |-> {"Groceries", "Transport & Travel", "Health", "Personal care", "Pets"},
     Social    |-> {"Restaurants & drinks", "Entertainment & culture", "Gifts", "Family & kids"},
     Lifestyle |-> {"Shopping & clothes", "Subscriptions", "Education & books", "Miscellaneous"}]
LegacyOf ==
    [Fixed     |-> {},
     Everyday  |-> {"Food"},
     Social    |-> {"Entertainment & Subscriptions", "Gift", "Family & Kids"},
     Lifestyle |-> {"Shopping", "Education & Books"}]
Buckets    == DOMAIN BucketOf
Categories == UNION {BucketOf[b] : b \in Buckets}
Legacy     == UNION {LegacyOf[b] : b \in Buckets}

BucketFor_NoLegacy(c) ==
    IF c \in Legacy THEN "none" ELSE CHOOSE b \in Buckets : c \in BucketOf[b]
BucketFor(c) == CHOOSE b \in Buckets : c \in BucketOf[b] \cup LegacyOf[b]

\* editableCategories: the select of the edit form
EditableCategories(c) == IF c \in Legacy THEN Categories \cup Legacy ELSE Categories

\* The buckets of the plan (comparison.ts) and, apart, the groups of the flow
\* chart (flows.ts): two tables with the same contents, and two groups more.
PlanBuckets ==
    [rent          |-> {"Rent"},
     bills         |-> {"Bills"},
     groceries     |-> {"Groceries", "Food"},
     goingOut      |-> {"Restaurants & drinks", "Entertainment & culture",
                        "Entertainment & Subscriptions"},
     shopping      |-> {"Shopping & clothes", "Shopping"},
     subscriptions |-> {"Subscriptions"}]
FlowGroups_NoLegacy ==
    [rent |-> {"Rent"}, bills |-> {"Bills"}, insurance |-> {"Insurance"},
     groceries |-> {"Groceries"},
     goingOut |-> {"Restaurants & drinks", "Entertainment & culture"},
     shopping |-> {"Shopping & clothes"}, subscriptions |-> {"Subscriptions"}]
FlowGroups ==
    [rent          |-> {"Rent"},
     bills         |-> {"Bills"},
     insurance     |-> {"Insurance"},
     groceries     |-> {"Groceries", "Food"},
     goingOut      |-> {"Restaurants & drinks", "Entertainment & culture",
                        "Entertainment & Subscriptions"},
     shopping      |-> {"Shopping & clothes", "Shopping"},
     subscriptions |-> {"Subscriptions"}]
PlanFields == DOMAIN PlanBuckets

-----------------------------------------------------------------------------
(* Recurring expenses.  A synthetic row has the template's id and its month. *)

Visible_Active(t) == t.active
Visible(t) == t.active \/ t.endedAt # NoMonth      \* not ended the old way

LastMonth(t, through) == IF t.active THEN through ELSE MinMonth(through, t.endedAt)

SyntheticRow(t, k) ==
    [id |-> <<t.id, k>>, amount |-> t.amount, category |-> t.category,
     date |-> ResolveDay(k, t.day)]

RowsOf(t, through) ==
    {SyntheticRow(t, k) : k \in MonthSpan(Ym(t.created), LastMonth(t, through))}
ExpandRecurring(templates, through) ==
    UNION {RowsOf(t, through) : t \in {u \in templates : Visible(u)}}

MonthlyExpenses(expenses, rows, k) == {e \in expenses \cup rows : Ym(e.date) = k}

Amount(e) == e.amount
MonthTotal(items) == MapThenSumSet(Amount, items)
Sum(items, cats)  == MonthTotal({e \in items : e.category \in cats})

\* The categories of byCategory's rows, and what the donut shows of them.
ByCategory(items) ==
    [c \in Categories \cup {e.category : e \in items} |-> Sum(items, {c})]

-----------------------------------------------------------------------------
(* Income, by actual occurrences (income-month.ts). *)

SourceEnd(s, through) ==
    IF s.active THEN through ELSE Ym(IF s.endedAt = NoDate THEN s.created ELSE s.endedAt)
PayWeekday(s) == IF s.payWeekday = NoWeekday THEN WeekdayOf(s.created) ELSE s.payWeekday

Pays_Calendar(s, k) == k[2] % (IF s.frequency = "quarterly" THEN 3 ELSE 12) = 1
Pays(s, k) ==
    MonthDiff(Ym(s.created), k) % (IF s.frequency = "quarterly" THEN 3 ELSE 12) = 0

SourceAmountInMonth(s, k) ==
    IF Before(k, Ym(s.created)) \/ Before(SourceEnd(s, k), k) THEN 0
    ELSE IF s.frequency = "monthly" THEN s.amount
    ELSE IF s.frequency = "weekly" THEN CountWeekdays(k, PayWeekday(s)) * s.amount
    ELSE IF Pays(s, k) THEN s.amount ELSE 0

MonthIncome(sources, k, events) ==
    LET paid(s) == SourceAmountInMonth(s, k)
    IN  MapThenSumSet(paid, sources)
          + MonthTotal({v \in events : Ym(v.date) = k})

-----------------------------------------------------------------------------
(* The series of months (prediction.ts). *)

FigureMonths_SpendOnly(rows, incomes, events, through) == {Ym(e.date) : e \in rows}
FigureMonths(rows, incomes, events, through) ==
    {Ym(e.date) : e \in rows} \cup {Ym(v.date) : v \in events}
      \cup UNION {MonthSpan(Ym(s.created), SourceEnd(s, through)) : s \in incomes}

MonthlyFigures(expenses, recurring, incomes, through, events) ==
    LET rows == expenses \cup ExpandRecurring(recurring, through)
        spend(k) == MonthTotal({e \in rows : Ym(e.date) = k})
        income(k) == MonthIncome(incomes, k, events)
    IN  [k \in FigureMonths(rows, incomes, events, through) |->
            [spend |-> spend(k), income |-> income(k), net |-> income(k) - spend(k)]]

NetOver(figures, months) ==
    LET net(k) == figures[k].net IN MapThenSumSet(net, months)
SpendOver(figures, months) ==
    LET spend(k) == figures[k].spend IN MapThenSumSet(spend, months)

\* Sums; the code divides by the number of months.
WindowAverages(figures, n) ==
    LET slice == LastMonths(DOMAIN figures, n)
    IN  [avgSpend |-> SpendOver(figures, slice), avgSaving |-> NetOver(figures, slice),
         months |-> Cardinality(slice)]

CumulativeNet(figures, start) ==
    [k \in DOMAIN figures |-> start + NetOver(figures, {j \in DOMAIN figures : UpTo(j, k)})]

ExpectedSpend(figures, selected) ==
    LET prior == LastMonths({k \in DOMAIN figures : Before(k, selected)}, 3)
    IN  [sum |-> SpendOver(figures, prior), months |-> Cardinality(prior)]

\* TrendView: the line of the last n months.
TrendLine(figures, start, n) ==
    CumulativeNet([k \in LastMonths(DOMAIN figures, n) |-> figures[k]], start)

\* The months the dashboard's selector and the browser's offer.
DashboardMonths(figures, current) == DOMAIN figures \cup {current}

BrowserMonths_OpenOnly(expenses, recurring, current) ==
    {current} \cup {Ym(e.date) : e \in expenses}
      \cup UNION {MonthSpan(Ym(t.created), current) : t \in {u \in recurring : u.active}}
BrowserMonths(expenses, recurring, current) ==
    LET last(t) == IF t.active THEN current
                   ELSE IF t.endedAt # NoMonth THEN t.endedAt ELSE Ym(t.created)
    IN  {current} \cup {Ym(e.date) : e \in expenses}
          \cup UNION {MonthSpan(Ym(t.created), last(t)) : t \in recurring}

BrowseExpenses(expenses, recurring, k, cats) ==
    {e \in MonthlyExpenses(expenses, ExpandRecurring(recurring, k), k) : e.category \in cats}

-----------------------------------------------------------------------------
(* The month view's charts. *)

CompareBuckets(items, expected) ==
    [b \in PlanFields |->
        LET actual == Sum(items, PlanBuckets[b])
        IN  IF b \in DOMAIN expected
            THEN [actual |-> actual, over |-> actual > expected[b],
                  delta |-> actual - expected[b]]
            ELSE [actual |-> actual]]

SavedThisMonth(income, spend) ==
    IF income >= spend THEN [saved |-> income - spend, overspent |-> 0]
    ELSE [saved |-> 0, overspent |-> spend - income]

\* monthFlows: the links out of Income; those without a flow are left out.
MonthFlows(items, income) ==
    LET grouped(g) == Sum(items, FlowGroups[g])
        value(n) == CASE n = "other" -> MonthTotal(items) - MapThenSumSet(grouped, DOMAIN FlowGroups)
                      [] n = "saved" -> income - MonthTotal(items)
                      [] OTHER       -> grouped(n)
        nodes == {n \in DOMAIN FlowGroups \cup {"other", "saved"} : value(n) > 0}
    IN  [n \in nodes |-> value(n)]

\* dailyTotals: what the heatmap reads.
DailyTotals(expenses, recurring, through) ==
    LET rows == expenses \cup ExpandRecurring(recurring, through)
    IN  [d \in {e.date : e \in rows} |-> MonthTotal({e \in rows : e.date = d})]

TrailingMonths(rows, through, n) ==
    LET data == {Ym(e.date) : e \in rows}
        first == CHOOSE k \in data : \A j \in data : UpTo(k, j)
    IN  IF data = {} THEN {through} ELSE LastMonths(MonthSpan(first, through), n)

CategoryTrends(expenses, recurring, through, n) ==
    LET expanded == ExpandRecurring(recurring, through)
    IN  [k \in TrailingMonths(expenses \cup expanded, through, n) |->
            [b \in Buckets |->
                MonthTotal({e \in MonthlyExpenses(expenses, expanded, k) :
                              BucketFor(e.category) = b})]]

\* Quick picks: the most used first, whatever they are, then the fixed ones.  Equals
\* come in the order of the list; all of them are counted in here.
TopCategories(expenses, limit) ==
    LET count(c) == Cardinality({e \in expenses : e.category = c})
        used == {e.category : e \in expenses}
    IN  {c \in used : Cardinality({d \in used : count(d) > count(c)}) < limit}
=============================================================================
