---------------------------- MODULE LedgerProofs ----------------------------
(***************************************************************************)
(* Proofs about Ledger, for any dates, amounts and records: what the forms *)
(* store, the end of a source, sums over finite sets, months, what the     *)
(* figures rely on (FiguresInv), and then one section per property of the  *)
(* figures.                                                                *)
(***************************************************************************)
EXTENDS Ledger, FiniteSetTheorems, TLAPS

-----------------------------------------------------------------------------
(* Dates.                                                                    *)

\* The order of dates is transitive.
LEMMA DatesOrdered ==
    ASSUME NEW a \in Dates, NEW b \in Dates, NEW c \in Dates, DateUpTo(a, b), DateUpTo(b, c)
    PROVE  DateUpTo(a, c)
<1>1. /\ a[1] \in Nat /\ a[2] \in Nat /\ a[3] \in Nat
      /\ b[1] \in Nat /\ b[2] \in Nat /\ b[3] \in Nat
      /\ c[1] \in Nat /\ c[2] \in Nat /\ c[3] \in Nat
    BY DEF Dates
<1> QED
    BY <1>1 DEF DateUpTo, Before

\* After a month comes a month.
LEMMA MonthTyped ==
    ASSUME NEW y \in Nat, NEW m \in 1..12
    PROVE  NextMonth(<<y, m>>) \in Nat \X (1..12)
<1>1. y + m \div 12 \in Nat /\ (m % 12) + 1 \in 1..12
    OBVIOUS
<1> QED
    BY <1>1 DEF NextMonth

\* The clock stops at dates; their months, and the dates after them, are ones.
LEMMA DaysTyped ==
    ASSUME day \in 1..Len(Days)
    PROVE  /\ \A i \in 1..Len(Days) : Days[i] \in Dates
           /\ Today \in Dates /\ Tomorrow \in Dates
           /\ Current \in Nat \X (1..12)
           /\ TypedDates \subseteq Dates /\ EventDates \subseteq Dates
<1>1. \A i \in 1..Len(Days) : Days[i] \in Dates
    BY LedgerAssumption DEF Dates
<1>2. Today \in Dates /\ TypedDates \subseteq Dates
    BY <1>1 DEF Today, TypedDates
<1> DEFINE y == Today[1]
           m == Today[2]
           d == Today[3]
<1>3. y \in Nat /\ m \in 1..12 /\ d \in 1..31 /\ Today = <<y, m, d>>
    BY <1>2 DEF Dates
<1>4. NextMonth(<<y, m>>) \in Nat \X (1..12) /\ <<y, m>> \in Nat \X (1..12)
    BY <1>3, MonthTyped
<1>5. Current \in Nat \X (1..12)
    BY <1>4 DEF Current, Ym
<1>6. LastDay(<<y, m>>) \in 28..31
    BY DEF LastDay
<1> DEFINE last == LastDay(<<y, m>>)
           next == NextMonth(<<y, m>>)
<1>7. Tomorrow = IF d < last THEN <<y, m, d + 1>> ELSE <<next[1], next[2], 1>>
    BY DEF Tomorrow
<1> HIDE DEF y, m, d, last, next
<1>8. d < last => d + 1 \in 1..31
    BY <1>3, <1>6 DEF last
<1>9. <<next[1], next[2], 1>> \in Dates
    BY <1>4 DEF Dates, next
<1>10. Tomorrow \in Dates
    BY <1>3, <1>8, <1>7, <1>9 DEF Dates
<1>11. EventDates \subseteq Dates
    BY <1>1, <1>10 DEF EventDates
<1> QED
    BY <1>1, <1>2, <1>5, <1>10, <1>11

-----------------------------------------------------------------------------
(* Types.                                                                    *)

\* What a register holds after a record was put or removed.
LEMMA PutHolds ==
    ASSUME NEW S, NEW register \in SUBSET S, NEW r \in S, NEW id
    PROVE  Put(register, r) \subseteq S /\ Without(register, id) \subseteq S
BY DEF Put, Without

\* The expenses: what is captured or edited is not of a day to come.
LEMMA ExpensesTyped ==
    ASSUME TypeOK, NEW amount \in Amounts, NEW category, NEW date \in TypedDates,
           ValidExpense(amount, category, date)
    PROVE  /\ CaptureSave(amount, category, date) => TypeOK'
           /\ \A e \in expenses : EditExpense(e, amount, category, date) => TypeOK'
<1>1. amount \in 1..MaxAmount /\ category \in Categories \cup Legacy /\ date \in Dates
      /\ DateUpTo(date, Today)
    BY DaysTyped, LedgerAssumption DEF ValidExpense, ValidAmount, ValidCategory, ValidDate, TypeOK
<1>2. ASSUME CaptureSave(amount, category, date)
      PROVE  TypeOK'
    <2> DEFINE r == [id |-> <<ids', NoMonth>>, amount |-> amount, category |-> category,
                     date |-> date]
    <2>1. ids' \in 0..MaxNew /\ ids' \in Nat
        BY <1>2, LedgerAssumption DEF CaptureSave, TypeOK
    <2>2. r \in Expense /\ r.date = date
        BY <1>1, <2>1 DEF Expense
    <2>3. expenses' = expenses \cup {r}
        BY <1>2 DEF CaptureSave
    <2> HIDE DEF r
    <2>4. expenses' \subseteq Expense /\ \A e \in expenses' : DateUpTo(e.date, Today)
        BY <1>1, <2>2, <2>3 DEF TypeOK
    <2> QED
        BY <1>2, <2>1, <2>4 DEF CaptureSave, TypeOK, Today
<1>3. ASSUME NEW e \in expenses, EditExpense(e, amount, category, date)
      PROVE  TypeOK'
    <2> DEFINE r == [e EXCEPT !.amount = amount, !.category = category, !.date = date]
    <2>1. e \in Expense
        BY DEF TypeOK
    <2>2. r \in Expense /\ r.date = date
        BY <1>1, <2>1 DEF Expense
    <2>3. expenses' = Put(expenses, r) /\ edits' = edits + 1 /\ edits < MaxEdits
        BY <1>3 DEF EditExpense
    <2> HIDE DEF r
    <2>4. expenses' \subseteq Expense /\ \A x \in expenses' : DateUpTo(x.date, Today)
        BY <1>1, <2>2, <2>3 DEF TypeOK, Put
    <2>5. edits' \in 0..MaxEdits
        BY <2>3, LedgerAssumption DEF TypeOK
    <2> QED
        BY <1>3, <2>4, <2>5 DEF EditExpense, TypeOK, Today
<1> QED
    BY <1>2, <1>3

\* The templates.
LEMMA TemplatesTyped ==
    ASSUME TypeOK
    PROVE  /\ \A amount \in Amounts : \A category, dom :
                 AddRecurring(amount, category, dom) => TypeOK'
           /\ \A t \in recurring : EndRecurring(t) \/ RemoveRecurring(t) => TypeOK'
<1>1. ASSUME NEW amount \in Amounts, NEW category, NEW dom, AddRecurring(amount, category, dom)
      PROVE  TypeOK'
    <2> DEFINE r == [id |-> ids', amount |-> amount, category |-> category, day |-> dom,
                     active |-> TRUE, endedAt |-> NoMonth, created |-> Today]
    <2>1. ids' \in 0..MaxNew /\ ids' \in Nat
        BY <1>1, LedgerAssumption DEF AddRecurring, TypeOK
    <2>2. amount \in 1..MaxAmount /\ category \in Categories \cup Legacy /\ dom \in 1..31
        BY <1>1, LedgerAssumption DEF AddRecurring, ValidRecurring, ValidAmount, ValidCategory
    <2>3. Today \in Dates
        BY DaysTyped DEF TypeOK
    <2>4. r \in Template
        BY <2>1, <2>2, <2>3 DEF Template
    <2>5. recurring' = Put(recurring, r)
        BY <1>1 DEF AddRecurring
    <2> HIDE DEF r
    <2>6. recurring' \subseteq Template
        BY <2>4, <2>5 DEF TypeOK, Put
    <2> QED
        BY <1>1, <2>1, <2>6 DEF AddRecurring, TypeOK, Today
<1>2. ASSUME NEW t \in recurring, EndRecurring(t)
      PROVE  TypeOK'
    <2>1. t \in Template /\ Current \in Nat \X (1..12)
        BY DaysTyped DEF TypeOK
    <2>2. Ended(t) \in Template
        BY <2>1 DEF Ended, Template
    <2>3. recurring' \subseteq Template
        BY <1>2, <2>2 DEF EndRecurring, TypeOK, Put
    <2> QED
        BY <1>2, <2>3 DEF EndRecurring, TypeOK, Today
<1>3. ASSUME NEW t \in recurring, RemoveRecurring(t)
      PROVE  TypeOK'
    BY <1>3 DEF RemoveRecurring, Without, TypeOK, Today
<1> QED
    BY <1>1, <1>2, <1>3

\* The sources: a form holds one that was shown.
LEMMA SourcesTyped ==
    ASSUME TypeOK, NEW amount \in Amounts, NEW p
    PROVE  /\ AddIncome(amount, p) => TypeOK'
           /\ SaveEdit(amount, p) => TypeOK'
<1>1. ASSUME AddIncome(amount, p)
      PROVE  TypeOK'
    <2> DEFINE r == [id |-> ids', amount |-> amount, frequency |-> p.frequency,
                     payWeekday |-> p.payWeekday, active |-> TRUE, endedAt |-> NoDate,
                     created |-> Today]
    <2>1. ids' \in 0..MaxNew /\ ids' \in Nat
        BY <1>1, LedgerAssumption DEF AddIncome, TypeOK
    <2>2. /\ amount \in 1..MaxAmount /\ p.frequency \in Frequencies
          /\ p.payWeekday \in (0..6) \cup {NoWeekday}
        BY <1>1, LedgerAssumption DEF AddIncome, ValidSource, ValidAmount
    <2>3. Today \in Dates
        BY DaysTyped DEF TypeOK
    <2>4. r \in Source
        BY <2>1, <2>2, <2>3 DEF Source
    <2>5. incomes' = Put(incomes, r)
        BY <1>1 DEF AddIncome
    <2> HIDE DEF r
    <2>6. incomes' \subseteq Source
        BY <2>4, <2>5 DEF TypeOK, Put
    <2> QED
        BY <1>1, <2>1, <2>6 DEF AddIncome, TypeOK, Today
<1>2. ASSUME SaveEdit(amount, p)
      PROVE  TypeOK'
    <2>1. /\ amount \in 1..MaxAmount /\ p.frequency \in Frequencies
          /\ p.payWeekday \in (0..6) \cup {NoWeekday}
        BY <1>2, LedgerAssumption DEF SaveEdit, ValidSource, ValidAmount
    <2>2. editing \in Source
        BY <1>2 DEF SaveEdit, TypeOK
    <2>3. Edited(amount, p) \in Source
        BY <2>1, <2>2 DEF Edited, Source
    <2>4. incomes' \subseteq Source
        BY <1>2, <2>3 DEF SaveEdit, TypeOK, Put
    <2>5. edits' \in 0..MaxEdits
        BY <1>2, LedgerAssumption DEF SaveEdit, TypeOK
    <2> QED
        BY <1>2, <2>4, <2>5 DEF SaveEdit, TypeOK, Today
<1> QED
    BY <1>1, <1>2

\* The buttons beside them.
LEMMA SourceRowsTyped ==
    ASSUME TypeOK, NEW s \in incomes, StartEdit(s) \/ EndIncome(s) \/ RemoveIncome(s)
    PROVE  TypeOK'
<1>1. s \in Source /\ Today \in Dates
    BY DaysTyped DEF TypeOK
<1>2. CASE StartEdit(s)
    BY <1>1, <1>2 DEF StartEdit, TypeOK, Today
<1>3. CASE EndIncome(s)
    <2>1. [s EXCEPT !.active = FALSE, !.endedAt = Today] \in Source
        BY <1>1 DEF Source
    <2>2. incomes' \subseteq Source
        BY <1>3, <2>1 DEF EndIncome, TypeOK, Put
    <2> QED
        BY <1>3, <2>2 DEF EndIncome, TypeOK, Today
<1>4. CASE RemoveIncome(s)
    BY <1>4 DEF RemoveIncome, Without, TypeOK, Today
<1> QED
    BY <1>2, <1>3, <1>4

\* One-off income, of a day up to tomorrow.
LEMMA EventsTyped ==
    ASSUME TypeOK
    PROVE  /\ \A amount \in Amounts, date \in EventDates : AddEvent(amount, date) => TypeOK'
           /\ \A v \in events : RemoveEvent(v) => TypeOK'
<1>1. ASSUME NEW amount \in Amounts, NEW date \in EventDates, AddEvent(amount, date)
      PROVE  TypeOK'
    <2> DEFINE r == [id |-> ids', amount |-> amount, date |-> date]
    <2>1. ids' \in 0..MaxNew /\ ids' \in Nat
        BY <1>1, LedgerAssumption DEF AddEvent, TypeOK
    <2>2. amount \in 1..MaxAmount /\ date \in Dates
        BY <1>1, DaysTyped, LedgerAssumption DEF AddEvent, ValidEvent, ValidAmount, TypeOK
    <2>3. r \in Event
        BY <2>1, <2>2 DEF Event
    <2>4. events' = Put(events, r)
        BY <1>1 DEF AddEvent
    <2> HIDE DEF r
    <2>5. events' \subseteq Event
        BY <2>3, <2>4 DEF TypeOK, Put
    <2> QED
        BY <1>1, <2>1, <2>5 DEF AddEvent, TypeOK, Today
<1>2. ASSUME NEW v \in events, RemoveEvent(v)
      PROVE  TypeOK'
    BY <1>2 DEF RemoveEvent, Without, TypeOK, Today
<1> QED
    BY <1>1, <1>2

\* The plan keeps what is positive and was found valid.
LEMMA PlanTyped ==
    ASSUME TypeOK, NEW p \in Plans, NEW core \in BOOLEAN, SavePlan(p, core)
    PROVE  TypeOK'
<1> DEFINE kept == Cleaned(p.typed)
<1>1. \A f \in DOMAIN kept : kept[f] \in Int
    BY LedgerAssumption DEF Cleaned
<1>2. \A f \in DOMAIN kept : ValidAmount(kept[f])
    BY DEF SavePlan, ValidPlan
<1>3. kept = [f \in DOMAIN kept |-> kept[f]]
    BY DEF Cleaned
<1> HIDE DEF kept
<1>4. \A f \in DOMAIN kept : kept[f] \in 1..MaxAmount
    BY <1>1, <1>2, LedgerAssumption DEF ValidAmount
<1>5. kept \in [DOMAIN kept -> 1..MaxAmount]
    BY <1>3, <1>4
<1>6. plan'.start = p.start /\ plan'.expected = kept /\ edits' \in 0..MaxEdits
    BY LedgerAssumption DEF SavePlan, kept, TypeOK
<1>7. p.start \in (-MaxAmount)..MaxAmount
    <2>1. p.start \in Int /\ p.start <= MaxAmount /\ -p.start <= MaxAmount
        BY LedgerAssumption DEF SavePlan, ValidPlan
    <2> QED
        BY <2>1, LedgerAssumption
<1> QED
    BY <1>5, <1>6, <1>7 DEF SavePlan, TypeOK, Today

\* Time passes; no expense comes to lie in the future.
LEMMA TickTyped ==
    ASSUME TypeOK, Tick
    PROVE  TypeOK'
<1>1. day \in 1..Len(Days) /\ day + 1 \in 1..Len(Days) /\ day < day + 1 /\ day' = day + 1
    BY LedgerAssumption DEF Tick, TypeOK
<1>2. Days[day] \in Dates /\ Days[day + 1] \in Dates
    BY <1>1, DaysTyped
<1>3. DateUpTo(Days[day], Days[day + 1])
    BY <1>1, LedgerAssumption
<1>4. \A e \in expenses : DateUpTo(e.date, Days[day + 1])
    <2> TAKE e \in expenses
    <2>1. e.date \in Dates /\ DateUpTo(e.date, Days[day])
        BY DEF TypeOK, Expense, Today
    <2> QED
        BY <1>2, <1>3, <2>1, DatesOrdered
<1> QED
    BY <1>1, <1>4 DEF Tick, TypeOK, Today

\* No step of the forms or of time stores what they should have refused.
LEMMA NextTyped ==
    ASSUME TypeOK, [Next]_vars
    PROVE  TypeOK'
<1>1. CASE Tick
    BY <1>1, TickTyped
<1>2. CASE CaptureWarn
    BY <1>2 DEF CaptureWarn, TypeOK, Today
<1>3. CASE LeaveCapture
    BY <1>3 DEF LeaveCapture, TypeOK, Today
<1>4. CASE CancelEdit
    BY <1>4 DEF CancelEdit, TypeOK, Today
<1>5. CASE \E a \in Amounts, c \in Offered, d \in TypedDates : CaptureSave(a, c, d)
    <2> PICK a \in Amounts, c \in Offered, d \in TypedDates : CaptureSave(a, c, d)
        BY <1>5
    <2> QED
        BY ExpensesTyped DEF CaptureSave
<1>6. CASE \E e \in expenses, a \in Amounts, c \in Picks, d \in TypedDates : EditExpense(e, a, c, d)
    <2> PICK e \in expenses, a \in Amounts, c \in Picks, d \in TypedDates : EditExpense(e, a, c, d)
        BY <1>6
    <2> QED
        BY ExpensesTyped DEF EditExpense
<1>7. CASE \E e \in expenses : DeleteExpense(e)
    BY <1>7 DEF DeleteExpense, Without, TypeOK, Today
<1>8. CASE \/ \E a \in Amounts, c \in Picks \cap Categories, d \in DaysOfMonth :
                 AddRecurring(a, c, d)
           \/ \E t \in recurring : EndRecurring(t) \/ RemoveRecurring(t)
    BY <1>8, TemplatesTyped
<1>9. CASE \E a \in Amounts, p \in Payments : AddIncome(a, p) \/ SaveEdit(a, p)
    BY <1>9, SourcesTyped
<1>10. CASE \E s \in incomes : StartEdit(s) \/ EndIncome(s) \/ RemoveIncome(s)
    BY <1>10, SourceRowsTyped
<1>11. CASE \/ \E a \in Amounts, d \in EventDates : AddEvent(a, d)
            \/ \E v \in events : RemoveEvent(v)
    BY <1>11, EventsTyped
<1>12. CASE \E p \in Plans, core \in BOOLEAN : SavePlan(p, core)
    BY <1>12, PlanTyped
<1>13. CASE UNCHANGED vars
    BY <1>13 DEF vars, TypeOK, Today
<1> QED
    BY <1>1, <1>2, <1>3, <1>4, <1>5, <1>6, <1>7, <1>8, <1>9, <1>10, <1>11, <1>12, <1>13 DEF Next

\* A new account, but for what earlier versions left.
LEMMA InitTyped == Init => TypeOK
<1> SUFFICES ASSUME Init PROVE TypeOK
    OBVIOUS
<1>1. 1 \in 1..Len(Days)
    BY LedgerAssumption
<1>2. NoPlan.expected \in [DOMAIN NoPlan.expected -> 1..MaxAmount]
    BY DEF NoPlan
<1>3. NoPlan.start \in (-MaxAmount)..MaxAmount
    BY LedgerAssumption DEF NoPlan
<1>4. ids \in 0..MaxNew /\ edits \in 0..MaxEdits
    BY LedgerAssumption DEF Init
<1>5. /\ expenses \subseteq Expense /\ \A e \in expenses : DateUpTo(e.date, Today)
      /\ recurring \subseteq Template
    BY OldAssumption DEF Init, Today
<1>6. incomes \subseteq Source /\ events \subseteq Event
    BY DEF Init
<1> QED
    BY <1>1, <1>2, <1>3, <1>4, <1>5, <1>6 DEF Init, TypeOK

\* Whatever is typed, the registers hold positive amounts up to the maximum, days and
\* months that exist, and no expense of a day to come.
THEOREM OnlyValid == Spec => []TypeOK
BY InitTyped, NextTyped, PTL DEF Spec

-----------------------------------------------------------------------------
(* The end of a source.                                                      *)

\* Sources have ids of their own, handed out before.
Numbered ==
    /\ \A s \in incomes : s.id \in 1..ids
    /\ \A s, u \in incomes : s.id = u.id => s = u
    /\ editing = NoSource \/ editing.id \in 1..ids

\* A form opened for an ended source knows the end it has.
KnowsEnd ==
    \A s \in incomes : s.id = editing.id /\ ~editing.active =>
        ~s.active /\ s.endedAt = editing.endedAt

SourceInv == TypeOK /\ Numbered /\ KnowsEnd

EndStep ==
    \A s \in incomes, u \in incomes' :
        s.id = u.id /\ ~s.active =>
           \/ ~u.active /\ u.endedAt = s.endedAt
           \/ editing.id = s.id /\ editing.active

\* A register that only lost sources keeps their ends.
LEMMA FewerSources ==
    ASSUME SourceInv, incomes' \subseteq incomes, editing' = editing, ids' = ids
    PROVE  Numbered' /\ KnowsEnd' /\ EndStep
BY DEF SourceInv, Numbered, KnowsEnd, EndStep

\* So does a new source, with the next id.
LEMMA NewSource ==
    ASSUME SourceInv, NEW amount, NEW p, AddIncome(amount, p)
    PROVE  Numbered' /\ KnowsEnd' /\ EndStep
<1> DEFINE r == [id |-> ids', amount |-> amount, frequency |-> p.frequency,
                 payWeekday |-> p.payWeekday, active |-> TRUE, endedAt |-> NoDate,
                 created |-> Today]
<1>1. /\ incomes' = Put(incomes, r) /\ ids' = ids + 1 /\ editing' = editing
      /\ editing.id = 0 /\ ids \in Nat /\ r.id = ids'
    BY LedgerAssumption DEF AddIncome, SourceInv, TypeOK, NoSource
<1> HIDE DEF r
<1>2. \A u \in incomes' : u = r \/ u \in incomes
    BY <1>1 DEF Put
<1>3. \A s \in incomes : s.id # r.id
    BY <1>1 DEF SourceInv, Numbered
<1> QED
    BY <1>1, <1>2, <1>3 DEF SourceInv, Numbered, KnowsEnd, EndStep

\* The End button: the source was active until now, so no form knows an end of it.
LEMMA EndedSource ==
    ASSUME SourceInv, NEW s \in incomes, EndIncome(s)
    PROVE  Numbered' /\ KnowsEnd' /\ EndStep
<1> DEFINE r == [s EXCEPT !.active = FALSE, !.endedAt = Today]
<1>1. s \in Source
    BY DEF SourceInv, TypeOK
<1>2. /\ incomes' = Put(incomes, r) /\ ids' = ids /\ editing' = editing
      /\ s.active /\ r.id = s.id
    BY <1>1 DEF EndIncome, Source
<1> HIDE DEF r
<1>3. \A u \in incomes' : u = r \/ (u \in incomes /\ u.id # s.id)
    BY <1>2 DEF Put
<1>4. s.id # editing.id \/ editing.active
    BY <1>2 DEF SourceInv, KnowsEnd
<1> QED
    BY <1>2, <1>3, <1>4 DEF SourceInv, Numbered, KnowsEnd, EndStep

\* A saved form writes the state of its copy: of an ended source, the end it has.
LEMMA EditedSource ==
    ASSUME SourceInv, NEW amount, NEW p, SaveEdit(amount, p)
    PROVE  Numbered' /\ KnowsEnd' /\ EndStep
<1> DEFINE r == Edited(amount, p)
<1>1. editing \in Source
    BY DEF SaveEdit, SourceInv, TypeOK
<1>2. /\ incomes' = Put(incomes, r) /\ ids' = ids /\ editing' = NoSource
      /\ r.id = editing.id /\ r.active = editing.active /\ r.endedAt = editing.endedAt
    BY <1>1 DEF SaveEdit, Edited, Source
<1> HIDE DEF r
<1>3. \A u \in incomes' : u = r \/ (u \in incomes /\ u.id # editing.id)
    BY <1>2 DEF Put
<1>4. editing.id \in 1..ids /\ editing'.id = 0
    BY <1>2 DEF SourceInv, Numbered, SaveEdit, NoSource
<1>5. Numbered'
    BY <1>2, <1>3, <1>4 DEF SourceInv, Numbered
<1>6. KnowsEnd'
    BY <1>4, <1>5 DEF KnowsEnd, Numbered
<1>7. EndStep
    <2> SUFFICES ASSUME NEW s \in incomes, NEW u \in incomes', s.id = u.id, ~s.active,
                        ~(editing.id = s.id /\ editing.active)
                 PROVE  ~u.active /\ u.endedAt = s.endedAt
        BY DEF EndStep
    <2>1. CASE u = r
        BY <1>2, <2>1 DEF SourceInv, KnowsEnd
    <2>2. CASE u \in incomes
        BY <2>2 DEF SourceInv, Numbered
    <2> QED
        BY <1>3, <2>1, <2>2
<1> QED
    BY <1>5, <1>6, <1>7

\* One step.
LEMMA NextSources ==
    ASSUME SourceInv, [Next]_vars
    PROVE  Numbered' /\ KnowsEnd' /\ EndStep
<1>1. CASE \/ Tick \/ CaptureWarn \/ LeaveCapture
           \/ \E e \in expenses : DeleteExpense(e)
           \/ \E e \in expenses, a \in Amounts, c \in Picks, d \in TypedDates :
                 EditExpense(e, a, c, d)
           \/ \E t \in recurring : EndRecurring(t) \/ RemoveRecurring(t)
           \/ \E v \in events : RemoveEvent(v)
           \/ \E p \in Plans, core \in BOOLEAN : SavePlan(p, core)
           \/ UNCHANGED vars
    <2>1. incomes' = incomes /\ editing' = editing /\ ids' = ids
        BY <1>1 DEF Tick, CaptureWarn, LeaveCapture, DeleteExpense, EditExpense, EndRecurring,
                    RemoveRecurring, RemoveEvent, SavePlan, vars
    <2> QED
        BY <2>1, FewerSources
<1>2. CASE \/ \E a \in Amounts, c \in Offered, d \in TypedDates : CaptureSave(a, c, d)
           \/ \E a \in Amounts, c \in Picks \cap Categories, d \in DaysOfMonth :
                 AddRecurring(a, c, d)
           \/ \E a \in Amounts, d \in EventDates : AddEvent(a, d)
    <2>1. incomes' = incomes /\ editing' = editing /\ ids' = ids + 1
        BY <1>2 DEF CaptureSave, AddRecurring, AddEvent
    <2>2. ids \in Nat
        BY LedgerAssumption DEF SourceInv, TypeOK
    <2> QED
        BY <2>1, <2>2 DEF SourceInv, Numbered, KnowsEnd, EndStep
<1>3. CASE CancelEdit
    <2>1. /\ incomes' = incomes /\ ids' = ids /\ editing' = NoSource /\ editing'.id = 0
          /\ ids \in Nat
        BY <1>3, LedgerAssumption DEF CancelEdit, NoSource, SourceInv, TypeOK
    <2> QED
        BY <2>1 DEF SourceInv, Numbered, KnowsEnd, EndStep
<1>4. CASE \E s \in incomes : StartEdit(s)
    <2> PICK s \in incomes : StartEdit(s)
        BY <1>4
    <2>1. incomes' = incomes /\ ids' = ids /\ editing' = s /\ ids \in Nat
        BY LedgerAssumption DEF StartEdit, SourceInv, TypeOK
    <2> QED
        BY <2>1 DEF SourceInv, Numbered, KnowsEnd, EndStep
<1>5. CASE \E s \in incomes : RemoveIncome(s)
    <2>1. incomes' \subseteq incomes /\ editing' = editing /\ ids' = ids
        BY <1>5 DEF RemoveIncome, Without
    <2> QED
        BY <2>1, FewerSources
<1>6. CASE \E s \in incomes : EndIncome(s)
    BY <1>6, EndedSource
<1>7. CASE \E a \in Amounts, p \in Payments : AddIncome(a, p) \/ SaveEdit(a, p)
    BY <1>7, NewSource, EditedSource
<1> QED
    BY <1>1, <1>2, <1>3, <1>4, <1>5, <1>6, <1>7 DEF Next

\* Nothing is there to end at first.
LEMMA InitSources == Init => SourceInv
<1> SUFFICES ASSUME Init PROVE SourceInv
    OBVIOUS
<1>1. TypeOK
    BY InitTyped
<1>2. incomes = {} /\ editing = NoSource
    BY DEF Init
<1> QED
    BY <1>1, <1>2 DEF SourceInv, Numbered, KnowsEnd

\* The invariant of the sources and the form that edits them.
THEOREM SourcesNumbered == Spec => []SourceInv
<1>1. SourceInv /\ [Next]_vars => SourceInv'
    BY NextTyped, NextSources DEF SourceInv
<1> QED
    BY <1>1, InitSources, PTL DEF Spec

\* What has ended stays ended, on its date, but for a form opened before it ended.
THEOREM EndStays == Spec => EndKept
<1>1. SourceInv /\ [Next]_vars => EndStep
    BY NextSources
<1>2. EndStep => \A s \in incomes, u \in incomes' :
          s.id = u.id /\ ~s.active =>
             \/ ~u.active /\ u.endedAt = s.endedAt
             \/ editing.id = s.id /\ editing.active
    BY DEF EndStep
<1> QED
    BY <1>1, <1>2, SourcesNumbered, PTL DEF Spec, EndKept
-----------------------------------------------------------------------------
(* Sums over finite sets.  MapThenSumSet is a recursive function over the     *)
(* subsets of its set that takes one element after the other out, in an order *)
(* of its own choosing; SumOf is the same with the summands as a function.    *)

Pick(s) == CHOOSE x \in s : TRUE
Sums(f, g, S) ==
    g = [s \in SUBSET S |-> IF s = {} THEN 0 ELSE f[Pick(s)] + g[s \ {Pick(s)}]]
SumOf(f, S) == (CHOOSE g : Sums(f, g, S))[S]

\* What holds of a finite set whenever it holds of its smaller subsets holds of it.
LEMMA SetInduction ==
    ASSUME NEW S, IsFiniteSet(S), NEW P,
           \A s \in SUBSET S : (\A u \in SUBSET s : u # s => u \in P) => s \in P
    PROVE  S \in P
<1> DEFINE rest == {s \in SUBSET S : s \notin P}
<1>1. IsWellFoundedOn(StrictSubsetOrdering(S), SUBSET S)
    BY FS_StrictSubsetOrderingWellFounded, FS_FiniteSubsetsOfFinite
<1>2. SUFFICES ASSUME rest # {} PROVE FALSE
    BY <1>2
<1>3. PICK s \in rest : \A u \in rest : ~ (<<u, s>> \in StrictSubsetOrdering(S))
    <2>1. rest \subseteq SUBSET S
        OBVIOUS
    <2> HIDE DEF rest
    <2> QED
        BY <1>1, <1>2, <2>1, WFMin
<1>4. \A u \in SUBSET s : u # s => u \in P
    BY <1>3 DEF StrictSubsetOrdering
<1> QED
    BY <1>3, <1>4

\* The recursive function is determined: what it is over one set it is over any other.
LEMMA SumsUnique ==
    ASSUME NEW f, NEW S, NEW T, NEW g, NEW h, Sums(f, g, S), Sums(f, h, T),
           NEW s \in SUBSET S, s \in SUBSET T, IsFiniteSet(s)
    PROVE  g[s] = h[s]
<1> DEFINE P == {u \in SUBSET s : g[u] = h[u]}
<1>1. ASSUME NEW u \in SUBSET s, \A v \in SUBSET u : v # u => v \in P
      PROVE  u \in P
    <2>1. g[u] = IF u = {} THEN 0 ELSE f[Pick(u)] + g[u \ {Pick(u)}]
        BY DEF Sums
    <2>2. h[u] = IF u = {} THEN 0 ELSE f[Pick(u)] + h[u \ {Pick(u)}]
        BY DEF Sums
    <2>3. u # {} => u \ {Pick(u)} \in P
        BY <1>1 DEF Pick
    <2> QED
        BY <2>1, <2>2, <2>3
<1>2. s \in P
    <2> HIDE DEF P
    <2> QED
        BY <1>1, SetInduction
<1> QED
    BY <1>2

\* There is one over every finite set.
LEMMA SumsExists ==
    ASSUME NEW f, NEW S, IsFiniteSet(S)
    PROVE  Sums(f, CHOOSE g : Sums(f, g, S), S)
<1> DEFINE P == {s \in SUBSET S : \E g : Sums(f, g, s)}
<1>1. ASSUME NEW s \in SUBSET S, \A u \in SUBSET s : u # s => u \in P
      PROVE  s \in P
    <2> DEFINE g == [u \in SUBSET s |-> IF u = {} THEN 0 ELSE f[Pick(u)] + SumOf(f, u \ {Pick(u)})]
    <2>1. ASSUME NEW u \in SUBSET s, u # {}
          PROVE  g[u \ {Pick(u)}] = SumOf(f, u \ {Pick(u)})
        <3> DEFINE v == u \ {Pick(u)}
        <3>1. v \in SUBSET s /\ v # s
            BY <2>1 DEF Pick
        <3>2. Sums(f, CHOOSE e : Sums(f, e, v), v)
            BY <1>1, <3>1
        <3>3. SumOf(f, v) = IF v = {} THEN 0
                            ELSE f[Pick(v)] + (CHOOSE e : Sums(f, e, v))[v \ {Pick(v)}]
            BY <3>2 DEF SumOf, Sums
        <3>4. CASE v = {}
            BY <3>1, <3>3, <3>4
        <3>5. CASE v # {}
            <4> DEFINE w == v \ {Pick(v)}
            <4>1. w \in SUBSET v /\ w \in SUBSET s /\ w # s
                BY <3>1, <3>5 DEF Pick
            <4>2. Sums(f, CHOOSE e : Sums(f, e, w), w)
                BY <1>1, <4>1
            <4>3. IsFiniteSet(w)
                BY <4>1, FS_Subset
            <4>4. (CHOOSE e : Sums(f, e, v))[w] = SumOf(f, w)
                <5> HIDE DEF v, w
                <5> QED
                    BY <3>2, <4>1, <4>2, <4>3, SumsUnique DEF SumOf
            <4> QED
                BY <3>1, <3>3, <3>5, <4>4
        <3> QED
            BY <3>4, <3>5
    <2>2. Sums(f, g, s)
        BY <2>1 DEF Sums
    <2> QED
        BY <2>2
<1>2. S \in P
    <2> HIDE DEF P
    <2> QED
        BY <1>1, SetInduction
<1> QED
    BY <1>2

\* The sum of nothing, and the sum with one element taken out first.
LEMMA SumPick ==
    ASSUME NEW f, NEW S, IsFiniteSet(S)
    PROVE  /\ S = {} => SumOf(f, S) = 0
           /\ S # {} => SumOf(f, S) = f[Pick(S)] + SumOf(f, S \ {Pick(S)})
<1> DEFINE T == S \ {Pick(S)}
           g == CHOOSE e : Sums(f, e, S)
           h == CHOOSE e : Sums(f, e, T)
<1>1. IsFiniteSet(T) /\ T \in SUBSET S
    BY FS_Subset
<1>2. Sums(f, g, S) /\ Sums(f, h, T)
    BY <1>1, SumsExists
<1>3. g[S] = IF S = {} THEN 0 ELSE f[Pick(S)] + g[T]
    <2> HIDE DEF g, h
    <2> QED
        BY <1>2 DEF Sums
<1>4. g[T] = h[T]
    <2> HIDE DEF g, h, T
    <2> QED
        BY <1>1, <1>2, SumsUnique
<1>5. SumOf(f, S) = g[S] /\ SumOf(f, T) = h[T]
    BY DEF SumOf
<1> QED
    BY <1>3, <1>4, <1>5

\* A sum of integers is one.
LEMMA SumTyped ==
    ASSUME NEW f, NEW S, IsFiniteSet(S), \A x \in S : f[x] \in Int
    PROVE  SumOf(f, S) \in Int
<1> DEFINE P == {s \in SUBSET S : SumOf(f, s) \in Int}
<1>1. ASSUME NEW s \in SUBSET S, \A u \in SUBSET s : u # s => u \in P
      PROVE  s \in P
    <2>1. IsFiniteSet(s)
        BY FS_Subset
    <2>2. CASE s = {}
        <3>1. SumOf(f, s) = 0
            BY <2>1, <2>2, SumPick
        <3> QED
            BY <3>1
    <2>3. CASE s # {}
        <3>1. Pick(s) \in s /\ s \ {Pick(s)} \in P
            BY <1>1, <2>3 DEF Pick
        <3>2. SumOf(f, s) = f[Pick(s)] + SumOf(f, s \ {Pick(s)})
            BY <2>1, <2>3, SumPick
        <3> QED
            BY <3>1, <3>2
    <2> QED
        BY <2>2, <2>3
<1>2. S \in P
    <2> HIDE DEF P
    <2> QED
        BY <1>1, SetInduction
<1> QED
    BY <1>2

\* Any element may be taken out first.
LEMMA SumRemove ==
    ASSUME NEW f, NEW S, IsFiniteSet(S), \A x \in S : f[x] \in Int, NEW a \in S
    PROVE  SumOf(f, S) = f[a] + SumOf(f, S \ {a})
<1> DEFINE P == {s \in SUBSET S : \A x \in s : SumOf(f, s) = f[x] + SumOf(f, s \ {x})}
<1>1. ASSUME NEW s \in SUBSET S, \A u \in SUBSET s : u # s => u \in P
      PROVE  s \in P
    <2>1. IsFiniteSet(s)
        BY FS_Subset
    <2> SUFFICES ASSUME NEW x \in s PROVE SumOf(f, s) = f[x] + SumOf(f, s \ {x})
        OBVIOUS
    <2> DEFINE p == Pick(s)
    <2>2. p \in s
        BY DEF Pick
    <2>3. SumOf(f, s) = f[p] + SumOf(f, s \ {p})
        BY <2>1, SumPick
    <2> HIDE DEF p
    <2>4. CASE x = p
        BY <2>3, <2>4
    <2>5. CASE x # p
        <3>1. s \ {p} \in P /\ s \ {x} \in P
            BY <1>1, <2>2
        <3>2. SumOf(f, s \ {p}) = f[x] + SumOf(f, (s \ {p}) \ {x})
            BY <2>5, <3>1
        <3>3. SumOf(f, s \ {x}) = f[p] + SumOf(f, (s \ {x}) \ {p})
            BY <2>2, <2>5, <3>1
        <3>4. (s \ {x}) \ {p} = (s \ {p}) \ {x}
            OBVIOUS
        <3>5. IsFiniteSet((s \ {p}) \ {x})
            BY <2>1, FS_Subset
        <3>6. SumOf(f, (s \ {p}) \ {x}) \in Int
            BY <3>5, SumTyped
        <3>7. f[x] \in Int /\ f[p] \in Int
            BY <2>2
        <3> DEFINE rest == SumOf(f, (s \ {p}) \ {x})
        <3>8. SumOf(f, s) = f[p] + (f[x] + rest) /\ SumOf(f, s \ {x}) = f[p] + rest
            BY <2>3, <3>2, <3>3, <3>4
        <3>9. rest \in Int
            BY <3>6
        <3> HIDE DEF rest
        <3> QED
            BY <3>7, <3>8, <3>9
    <2> QED
        BY <2>4, <2>5
<1>2. S \in P
    <2> HIDE DEF P
    <2> QED
        BY <1>1, SetInduction
<1> QED
    BY <1>2

\* Equal summands, equal sums.
LEMMA SumSame ==
    ASSUME NEW f, NEW h, NEW S, IsFiniteSet(S), \A x \in S : f[x] = h[x]
    PROVE  SumOf(f, S) = SumOf(h, S)
<1> DEFINE P == {s \in SUBSET S : SumOf(f, s) = SumOf(h, s)}
<1>1. ASSUME NEW s \in SUBSET S, \A u \in SUBSET s : u # s => u \in P
      PROVE  s \in P
    <2>1. IsFiniteSet(s)
        BY FS_Subset
    <2>2. CASE s = {}
        <3>1. SumOf(f, s) = 0 /\ SumOf(h, s) = 0
            BY <2>1, <2>2, SumPick
        <3> QED
            BY <3>1
    <2>3. CASE s # {}
        <3>1. Pick(s) \in s /\ s \ {Pick(s)} \in P
            BY <1>1, <2>3 DEF Pick
        <3>2. /\ SumOf(f, s) = f[Pick(s)] + SumOf(f, s \ {Pick(s)})
              /\ SumOf(h, s) = h[Pick(s)] + SumOf(h, s \ {Pick(s)})
            BY <2>1, <2>3, SumPick
        <3> QED
            BY <3>1, <3>2
    <2> QED
        BY <2>2, <2>3
<1>2. S \in P
    <2> HIDE DEF P
    <2> QED
        BY <1>1, SetInduction
<1> QED
    BY <1>2

\* The sum over two sets that have nothing in common.
LEMMA SumUnion ==
    ASSUME NEW f, NEW A, NEW B, IsFiniteSet(A), IsFiniteSet(B), A \cap B = {},
           \A x \in A \cup B : f[x] \in Int
    PROVE  SumOf(f, A \cup B) = SumOf(f, A) + SumOf(f, B)
<1> DEFINE P == {s \in SUBSET B : SumOf(f, A \cup s) = SumOf(f, A) + SumOf(f, s)}
<1>a. SumOf(f, A) \in Int
    BY SumTyped
<1>1. ASSUME NEW s \in SUBSET B, \A u \in SUBSET s : u # s => u \in P
      PROVE  s \in P
    <2>1. IsFiniteSet(s) /\ IsFiniteSet(A \cup s)
        BY FS_Subset, FS_Union
    <2>2. CASE s = {}
        <3>1. SumOf(f, s) = 0 /\ A \cup s = A
            BY <2>1, <2>2, SumPick
        <3> DEFINE sA == SumOf(f, A)
        <3>2. sA \in Int /\ SumOf(f, A \cup s) = sA
            BY <1>a, <3>1
        <3> HIDE DEF sA
        <3>3. SumOf(f, A \cup s) = sA + SumOf(f, s)
            BY <3>1, <3>2
        <3> QED
            BY <3>3 DEF sA
    <2>3. CASE s # {}
        <3> DEFINE p == Pick(s)
                   t == s \ {p}
        <3>1. p \in s /\ t \in P
            BY <1>1, <2>3 DEF Pick
        <3>2. SumOf(f, s) = f[p] + SumOf(f, t)
            BY <2>1, <2>3, SumPick
        <3> HIDE DEF p
        <3>3. SumOf(f, A \cup s) = f[p] + SumOf(f, (A \cup s) \ {p})
            BY <2>1, <3>1, SumRemove
        <3>4. (A \cup s) \ {p} = A \cup t
            BY <3>1
        <3>5. SumOf(f, A \cup t) = SumOf(f, A) + SumOf(f, t)
            BY <3>1
        <3>6. IsFiniteSet(t) /\ f[p] \in Int /\ \A x \in t : f[x] \in Int
            BY <2>1, <3>1, FS_Subset
        <3>7. SumOf(f, t) \in Int
            BY <3>6, SumTyped
        <3> DEFINE sA == SumOf(f, A)
                   st == SumOf(f, t)
        <3>8. SumOf(f, A \cup s) = f[p] + (sA + st) /\ SumOf(f, s) = f[p] + st
            BY <3>2, <3>3, <3>4, <3>5
        <3>9. sA \in Int /\ st \in Int
            BY <1>a, <3>7
        <3>10. SumOf(f, A \cup s) = sA + SumOf(f, s)
            <4> HIDE DEF sA, st
            <4> QED
                BY <3>6, <3>8, <3>9
        <3> QED
            BY <3>10
    <2> QED
        BY <2>2, <2>3
<1>2. B \in P
    <2> HIDE DEF P
    <2> QED
        BY <1>1, SetInduction
<1> QED
    BY <1>2

\* The sum of natural numbers: none is more than the sum.
LEMMA SumNatural ==
    ASSUME NEW f, NEW S, IsFiniteSet(S), \A x \in S : f[x] \in Nat
    PROVE  /\ SumOf(f, S) \in Nat
           /\ \A x \in S : f[x] <= SumOf(f, S)
<1> DEFINE P == {s \in SUBSET S : SumOf(f, s) \in Nat}
<1>1. ASSUME NEW s \in SUBSET S, \A u \in SUBSET s : u # s => u \in P
      PROVE  s \in P
    <2>1. IsFiniteSet(s)
        BY FS_Subset
    <2>2. CASE s = {}
        <3>1. SumOf(f, s) = 0
            BY <2>1, <2>2, SumPick
        <3> QED
            BY <3>1
    <2>3. CASE s # {}
        <3>1. Pick(s) \in s /\ s \ {Pick(s)} \in P
            BY <1>1, <2>3 DEF Pick
        <3>2. SumOf(f, s) = f[Pick(s)] + SumOf(f, s \ {Pick(s)})
            BY <2>1, <2>3, SumPick
        <3> QED
            BY <3>1, <3>2
    <2> QED
        BY <2>2, <2>3
<1>2. \A s \in SUBSET S : s \in P
    <2> TAKE s \in SUBSET S
    <2>1. IsFiniteSet(s) /\ \A t \in SUBSET s : t \in SUBSET S
        BY FS_Subset
    <2> HIDE DEF P
    <2> QED
        BY <1>1, <2>1, SetInduction
<1>3. ASSUME NEW x \in S
      PROVE  f[x] <= SumOf(f, S)
    <2>1. SumOf(f, S) = f[x] + SumOf(f, S \ {x})
        BY SumRemove
    <2>2. SumOf(f, S \ {x}) \in Nat /\ f[x] \in Nat
        BY <1>2
    <2> QED
        BY <2>1, <2>2
<1> QED
    BY <1>2, <1>3

\* Nothing is added where nothing is.
LEMMA SumZero ==
    ASSUME NEW f, NEW S, IsFiniteSet(S), \A x \in S : f[x] = 0
    PROVE  SumOf(f, S) = 0
<1> DEFINE P == {s \in SUBSET S : SumOf(f, s) = 0}
<1>1. ASSUME NEW s \in SUBSET S, \A u \in SUBSET s : u # s => u \in P
      PROVE  s \in P
    <2>1. IsFiniteSet(s)
        BY FS_Subset
    <2>2. CASE s = {}
        BY <2>1, <2>2, SumPick
    <2>3. CASE s # {}
        <3>1. Pick(s) \in s /\ s \ {Pick(s)} \in P
            BY <1>1, <2>3 DEF Pick
        <3>2. SumOf(f, s) = f[Pick(s)] + SumOf(f, s \ {Pick(s)})
            BY <2>1, <2>3, SumPick
        <3> QED
            BY <3>1, <3>2
    <2> QED
        BY <2>2, <2>3
<1>2. S \in P
    <2> HIDE DEF P
    <2> QED
        BY <1>1, SetInduction
<1> QED
    BY <1>2

\* What adds nothing may be left out.
LEMMA SumSupport ==
    ASSUME NEW f, NEW S, NEW T, IsFiniteSet(S), T \subseteq S,
           \A x \in T : f[x] \in Int, \A x \in S \ T : f[x] = 0
    PROVE  SumOf(f, S) = SumOf(f, T)
<1>1. IsFiniteSet(T) /\ IsFiniteSet(S \ T) /\ S = T \cup (S \ T) /\ T \cap (S \ T) = {}
    BY FS_Subset
<1>2. SumOf(f, T \cup (S \ T)) = SumOf(f, T) + SumOf(f, S \ T)
    BY <1>1, SumUnion
<1>3. SumOf(f, S \ T) = 0 /\ SumOf(f, T) \in Int
    BY <1>1, SumZero, SumTyped
<1> QED
    BY <1>1, <1>2, <1>3

\* The sum of differences.
LEMMA SumMinus ==
    ASSUME NEW e, NEW f, NEW h, NEW S, IsFiniteSet(S),
           \A x \in S : f[x] \in Int /\ h[x] \in Int /\ e[x] = f[x] - h[x]
    PROVE  SumOf(e, S) = SumOf(f, S) - SumOf(h, S)
<1> DEFINE P == {s \in SUBSET S : SumOf(e, s) = SumOf(f, s) - SumOf(h, s)}
<1>1. ASSUME NEW s \in SUBSET S, \A u \in SUBSET s : u # s => u \in P
      PROVE  s \in P
    <2>1. IsFiniteSet(s)
        BY FS_Subset
    <2>2. CASE s = {}
        <3>1. SumOf(e, s) = 0 /\ SumOf(f, s) = 0 /\ SumOf(h, s) = 0
            BY <2>1, <2>2, SumPick
        <3> QED
            BY <3>1
    <2>3. CASE s # {}
        <3> DEFINE p == Pick(s)
                   t == s \ {p}
        <3>1. p \in s /\ t \in P
            BY <1>1, <2>3 DEF Pick
        <3>2. /\ SumOf(e, s) = e[p] + SumOf(e, t)
              /\ SumOf(f, s) = f[p] + SumOf(f, t)
              /\ SumOf(h, s) = h[p] + SumOf(h, t)
            BY <2>1, <2>3, SumPick
        <3> HIDE DEF p
        <3>3. IsFiniteSet(t) /\ \A x \in t : f[x] \in Int /\ h[x] \in Int
            BY <2>1, FS_Subset
        <3>4. SumOf(f, t) \in Int /\ SumOf(h, t) \in Int
            BY <3>3, SumTyped
        <3>5. SumOf(e, t) = SumOf(f, t) - SumOf(h, t)
            BY <3>1
        <3>6. e[p] = f[p] - h[p] /\ f[p] \in Int /\ h[p] \in Int
            BY <3>1
        <3>7. SumOf(e, s) = SumOf(f, s) - SumOf(h, s)
            <4> HIDE DEF t, P
            <4> QED
                BY <3>2, <3>4, <3>5, <3>6
        <3> QED
            BY <3>7
    <2> QED
        BY <2>2, <2>3
<1>2. S \in P
    <2> HIDE DEF P
    <2> QED
        BY <1>1, SetInduction
<1> QED
    BY <1>2

\* The sum may be taken group by group: m says which group an element is in.
Grouped(m, S, L) == {x \in S : m[x] \in L}
SumsOfGroups(h, f, m, S, K) == \A k \in K : h[k] = SumOf(f, Grouped(m, S, {k}))

LEMMA SumGroups ==
    ASSUME NEW f, NEW S, IsFiniteSet(S), \A x \in S : f[x] \in Int,
           NEW K, IsFiniteSet(K), NEW m, NEW h, SumsOfGroups(h, f, m, S, K)
    PROVE  SumOf(h, K) = SumOf(f, Grouped(m, S, K))
<1> DEFINE In(L) == Grouped(m, S, L)
           P == {L \in SUBSET K : SumOf(h, L) = SumOf(f, In(L))}
<1>f. \A L : IsFiniteSet(In(L))
    BY FS_Subset DEF Grouped
<1>1. ASSUME NEW L \in SUBSET K, \A u \in SUBSET L : u # L => u \in P
      PROVE  L \in P
    <2>1. IsFiniteSet(L)
        BY FS_Subset
    <2>2. CASE L = {}
        <3>1. SumOf(h, L) = 0 /\ In(L) = {}
            BY <2>1, <2>2, SumPick DEF Grouped
        <3>2. SumOf(f, In(L)) = 0
            BY <1>f, <3>1, SumPick
        <3> QED
            BY <3>1, <3>2
    <2>3. CASE L # {}
        <3> DEFINE p == Pick(L)
                   t == L \ {p}
                   own == In({p})
        <3>1. p \in L /\ t \in P
            BY <1>1, <2>3 DEF Pick
        <3>2. SumOf(h, L) = h[p] + SumOf(h, t)
            BY <2>1, <2>3, SumPick
        <3> HIDE DEF p
        <3>3. h[p] = SumOf(f, own) /\ SumOf(h, t) = SumOf(f, In(t))
            BY <3>1 DEF SumsOfGroups
        <3>4. In(L) = own \cup In(t) /\ own \cap In(t) = {}
            BY <3>1 DEF Grouped
        <3>5. SumOf(f, own \cup In(t)) = SumOf(f, own) + SumOf(f, In(t))
            <4>1. IsFiniteSet(own) /\ IsFiniteSet(In(t)) /\ \A x \in own \cup In(t) : f[x] \in Int
                BY <1>f DEF Grouped
            <4>2. own \cap In(t) = {}
                BY <3>4
            <4> HIDE DEF own, In
            <4> QED
                BY <4>1, <4>2, SumUnion
        <3> QED
            BY <3>2, <3>3, <3>4, <3>5
    <2> QED
        BY <2>2, <2>3
<1>2. K \in P
    <2> HIDE DEF P
    <2> QED
        BY <1>1, SetInduction
<1> QED
    BY <1>2

-----------------------------------------------------------------------------
(* Months.                                                                   *)

Month == Nat \X (1..12)

\* The order of months is linear, and the next month is the least after one.
LEMMA MonthsOrdered ==
    ASSUME NEW a \in Month, NEW b \in Month
    PROVE  /\ a = <<a[1], a[2]>> /\ a[1] \in Nat /\ a[2] \in 1..12
           /\ UpTo(a, b) <=> ~Before(b, a)
           /\ UpTo(a, b) /\ UpTo(b, a) => a = b
           /\ NextMonth(a) \in Month /\ Before(a, NextMonth(a))
           /\ Before(a, b) <=> UpTo(NextMonth(a), b)
<1>1. /\ a = <<a[1], a[2]>> /\ a[1] \in Nat /\ a[2] \in 1..12
      /\ b = <<b[1], b[2]>> /\ b[1] \in Nat /\ b[2] \in 1..12
    BY DEF Month
<1>2. NextMonth(a) = IF a[2] = 12 THEN <<a[1] + 1, 1>> ELSE <<a[1], a[2] + 1>>
    <2>1. CASE a[2] = 12
        <3>1. 12 \div 12 = 1 /\ 12 % 12 = 0
            OBVIOUS
        <3> QED
            BY <1>1, <2>1, <3>1 DEF NextMonth
    <2>2. CASE a[2] # 12
        <3>1. a[2] \div 12 = 0 /\ a[2] % 12 = a[2]
            BY <1>1, <2>2
        <3> QED
            BY <1>1, <2>2, <3>1 DEF NextMonth
    <2> QED
        BY <2>1, <2>2
<1>3. NextMonth(a) \in Month
    BY <1>1, <1>2 DEF Month
<1>4. UpTo(a, b) <=> ~Before(b, a)
    BY <1>1 DEF UpTo, Before
<1>5. UpTo(a, b) /\ UpTo(b, a) => a = b
    BY <1>1 DEF UpTo, Before
<1>6. CASE a[2] = 12
    <2>1. NextMonth(a)[1] = a[1] + 1 /\ NextMonth(a)[2] = 1 /\ NextMonth(a) = <<a[1] + 1, 1>>
        BY <1>2, <1>6
    <2>2. Before(a, NextMonth(a))
        BY <1>1, <2>1 DEF Before
    <2>3. Before(a, b) <=> UpTo(NextMonth(a), b)
        BY <1>1, <1>6, <2>1 DEF Before, UpTo
    <2> QED
        BY <1>1, <1>3, <1>4, <1>5, <2>2, <2>3
<1>7. CASE a[2] # 12
    <2>1. /\ NextMonth(a)[1] = a[1] /\ NextMonth(a)[2] = a[2] + 1
          /\ NextMonth(a) = <<a[1], a[2] + 1>>
        BY <1>2, <1>7
    <2>2. Before(a, NextMonth(a))
        BY <1>1, <2>1 DEF Before
    <2>3. Before(a, b) <=> UpTo(NextMonth(a), b)
        BY <1>1, <1>7, <2>1 DEF Before, UpTo
    <2> QED
        BY <1>1, <1>3, <1>4, <1>5, <2>2, <2>3
<1> QED
    BY <1>6, <1>7

LEMMA MonthsTransitive ==
    ASSUME NEW a \in Month, NEW b \in Month, NEW c \in Month, UpTo(a, b), UpTo(b, c)
    PROVE  UpTo(a, c)
<1>1. /\ a[1] \in Nat /\ a[2] \in 1..12 /\ b[1] \in Nat /\ b[2] \in 1..12
      /\ c[1] \in Nat /\ c[2] \in 1..12
    BY DEF Month
<1> QED
    BY <1>1 DEF UpTo, Before

\* The month after the months up to one.
LEMMA NextMonths ==
    ASSUME NEW a \in Month, NEW b \in Month, UpTo(a, b)
    PROVE  UpTo(NextMonth(a), NextMonth(b)) /\ Before(a, NextMonth(b))
<1>1. /\ NextMonth(a) \in Month /\ NextMonth(b) \in Month
      /\ Before(b, NextMonth(b))
    BY MonthsOrdered
<1>2. UpTo(b, NextMonth(b))
    BY <1>1 DEF UpTo
<1>3. Before(a, NextMonth(b))
    <2>1. CASE a = b
        BY <1>1, <2>1
    <2>2. CASE Before(a, b)
        <3>1. a[1] \in Nat /\ b[1] \in Nat /\ NextMonth(b)[1] \in Nat
              /\ a[2] \in 1..12 /\ b[2] \in 1..12 /\ NextMonth(b)[2] \in 1..12
            BY <1>1, MonthsOrdered
        <3> QED
            BY <1>1, <2>2, <3>1 DEF Before
    <2> QED
        BY <2>1, <2>2 DEF UpTo
<1> QED
    BY <1>1, <1>3, MonthsOrdered

\* What a span of months holds.
LEMMA SpanHolds ==
    ASSUME NEW first \in Month, NEW last \in Month
    PROVE  /\ MonthSpan(first, last) = {k \in Month : UpTo(first, k) /\ UpTo(k, last)}
           /\ IsFiniteSet(MonthSpan(first, last))
<1> DEFINE box == (first[1]..last[1]) \X (1..12)
<1>1. first[1] \in Nat /\ last[1] \in Nat
    BY MonthsOrdered
<1>2. \A k \in Month : UpTo(first, k) /\ UpTo(k, last) => k \in box
    <2> TAKE k \in Month
    <2>1. k = <<k[1], k[2]>> /\ k[1] \in Nat /\ k[2] \in 1..12
        BY MonthsOrdered
    <2> QED
        BY <1>1, <2>1 DEF UpTo, Before
<1>3. box \subseteq Month
    BY <1>1 DEF Month
<1>4. IsFiniteSet(first[1]..last[1]) /\ IsFiniteSet(1..12)
    <2>1. \A a, b \in Int : IsFiniteSet(a..b)
        BY FS_Interval
    <2>2. IsFiniteSet(1..12)
        <3>1. PICK one \in Int, twelve \in Int : one = 1 /\ twelve = 12
            OBVIOUS
        <3> QED
            BY <2>1, <3>1
    <2>3. IsFiniteSet(first[1]..last[1])
        BY <1>1, <2>1
    <2> QED
        BY <2>2, <2>3
<1>5. IsFiniteSet(box)
    BY <1>4, FS_Product
<1>6. MonthSpan(first, last) \in SUBSET box
    BY DEF MonthSpan
<1>7. IsFiniteSet(MonthSpan(first, last))
    <2> HIDE DEF box
    <2> QED
        BY <1>5, <1>6, FS_Subset
<1> QED
    BY <1>2, <1>3, <1>7 DEF MonthSpan

\* The loop over the months visits the months of the span.
LEMMA WalkIsSpan ==
    ASSUME NEW first \in Month, NEW last \in Month
    PROVE  MonthsWalked(first, last) = MonthSpan(first, last)
<1> DEFINE Left(k) == {j \in Month : UpTo(k, j) /\ UpTo(j, last)}
           Walk(g) == g = [k \in Nat \X (1..12) |->
                              IF UpTo(k, last) THEN {k} \cup g[NextMonth(k)] ELSE {}]
           W == [k \in Month |-> Left(k)]
           all == MonthSpan(first, last)
<1>1. ASSUME NEW k \in Month
      PROVE  /\ Left(k) = IF UpTo(k, last) THEN {k} \cup Left(NextMonth(k)) ELSE {}
             /\ k \notin Left(NextMonth(k)) /\ NextMonth(k) \in Month
    <2>1. \A j \in Month : UpTo(k, j) <=> (k = j \/ UpTo(NextMonth(k), j))
        BY MonthsOrdered DEF UpTo
    <2>2. \A j \in Month : UpTo(k, j) /\ UpTo(j, last) => UpTo(k, last)
        BY MonthsTransitive
    <2>3. ~UpTo(NextMonth(k), k) /\ NextMonth(k) \in Month
        BY MonthsOrdered
    <2> QED
        BY <2>1, <2>2, <2>3
<1>2. Walk(W)
    <2>1. \A k \in Month : W[k] = IF UpTo(k, last) THEN {k} \cup W[NextMonth(k)] ELSE {}
        BY <1>1
    <2>2. W = [k \in Month |-> W[k]]
        OBVIOUS
    <2> HIDE DEF W
    <2> QED
        BY <2>1, <2>2 DEF Month
<1>3. ASSUME NEW g, Walk(g)
      PROVE  g[first] = all
    <2> DEFINE P == {s \in SUBSET all : \A k \in Month : Left(k) = s => g[k] = s}
    <2>1. \A k \in Month : g[k] = IF UpTo(k, last) THEN {k} \cup g[NextMonth(k)] ELSE {}
        BY <1>3 DEF Month
    <2>2. ASSUME NEW s \in SUBSET all, \A u \in SUBSET s : u # s => u \in P
          PROVE  s \in P
        <3> SUFFICES ASSUME NEW k \in Month, Left(k) = s PROVE g[k] = s
            OBVIOUS
        <3>1. CASE ~UpTo(k, last)
            BY <1>1, <2>1, <3>1
        <3>2. CASE UpTo(k, last)
            <4>1. s = {k} \cup Left(NextMonth(k)) /\ k \notin Left(NextMonth(k))
                  /\ NextMonth(k) \in Month
                BY <1>1, <3>2
            <4>2. Left(NextMonth(k)) \in P
                BY <2>2, <4>1
            <4>3. g[NextMonth(k)] = Left(NextMonth(k))
                BY <4>1, <4>2
            <4> QED
                BY <2>1, <3>2, <4>1, <4>3
        <3> QED
            BY <3>1, <3>2
    <2>3. IsFiniteSet(all)
        BY SpanHolds
    <2>4. all \in P
        <3> HIDE DEF P, all
        <3> QED
            BY <2>2, <2>3, SetInduction
    <2>5. Left(first) = all
        BY SpanHolds
    <2> QED
        BY <2>4, <2>5
<1>4. MonthsWalked(first, last) = (CHOOSE g : Walk(g))[first]
    BY DEF MonthsWalked
<1>5. Walk(CHOOSE g : Walk(g))
    <2> HIDE DEF Walk, W
    <2> QED
        BY <1>2
<1> QED
    <2> HIDE DEF Walk, all
    <2> QED
        BY <1>3, <1>4, <1>5 DEF all

-----------------------------------------------------------------------------
(* The sums of the figures, as sums of functions.                            *)

\* What a function makes of a finite set is finite.
LEMMA ImageFinite ==
    ASSUME NEW S, IsFiniteSet(S), NEW f
    PROVE  IsFiniteSet({f[x] : x \in S})
<1> DEFINE T == {f[x] : x \in S}
           g == [x \in S |-> f[x]]
<1>1. g \in Surjection(S, T)
    BY DEF Surjection
<1> HIDE DEF g, T
<1>2. IsFiniteSet(T)
    BY <1>1, FS_Surjection
<1> QED
    BY <1>2 DEF T

LEMMA TotalIsSum ==
    ASSUME NEW items, IsFiniteSet(items), NEW f, \A x \in items : f[x] = x.amount
    PROVE  MonthTotal(items) = SumOf(f, items)
<1>1. ASSUME NEW g
      PROVE  [s \in SUBSET items |-> IF s = {} THEN 0 ELSE f[Pick(s)] + g[s \ {Pick(s)}]]
           = [s \in SUBSET items |-> IF s = {} THEN 0 ELSE Amount(Pick(s)) + g[s \ {Pick(s)}]]
    BY DEF Pick, Amount
<1>2. SumOf(f, items) =
        (CHOOSE g : g = [s \in SUBSET items |->
            IF s = {} THEN 0 ELSE Amount(Pick(s)) + g[s \ {Pick(s)}]])[items]
    BY <1>1 DEF SumOf, Sums
<1> QED
    BY <1>2 DEF MonthTotal, MapThenSumSet, MapThenFoldSet, Pick

LEMMA IncomeIsSum ==
    ASSUME NEW S, NEW k, NEW E
    PROVE  MonthIncome(S, k, E) =
              SumOf([s \in S |-> SourceAmountInMonth(s, k)], S)
                + MonthTotal({v \in E : Ym(v.date) = k})
<1> DEFINE f == [s \in S |-> SourceAmountInMonth(s, k)]
           paid(s) == SourceAmountInMonth(s, k)
<1>1. ASSUME NEW g
      PROVE  [s \in SUBSET S |-> IF s = {} THEN 0 ELSE f[Pick(s)] + g[s \ {Pick(s)}]]
           = [s \in SUBSET S |-> IF s = {} THEN 0 ELSE paid(Pick(s)) + g[s \ {Pick(s)}]]
    BY DEF Pick
<1>2. SumOf(f, S) =
        (CHOOSE g : g = [s \in SUBSET S |->
            IF s = {} THEN 0 ELSE paid(Pick(s)) + g[s \ {Pick(s)}]])[S]
    BY <1>1 DEF SumOf, Sums
<1>3. SumOf(f, S) = MapThenSumSet(paid, S)
    BY <1>2 DEF MapThenSumSet, MapThenFoldSet, Pick
<1> QED
    BY <1>3 DEF MonthIncome

LEMMA NetIsSum ==
    ASSUME NEW figures, NEW S
    PROVE  NetOver(figures, S) = SumOf([k \in S |-> figures[k].net], S)
<1> DEFINE f == [k \in S |-> figures[k].net]
           net(k) == figures[k].net
<1>1. ASSUME NEW g
      PROVE  [s \in SUBSET S |-> IF s = {} THEN 0 ELSE f[Pick(s)] + g[s \ {Pick(s)}]]
           = [s \in SUBSET S |-> IF s = {} THEN 0 ELSE net(Pick(s)) + g[s \ {Pick(s)}]]
    BY DEF Pick
<1>2. SumOf(f, S) =
        (CHOOSE g : g = [s \in SUBSET S |->
            IF s = {} THEN 0 ELSE net(Pick(s)) + g[s \ {Pick(s)}]])[S]
    BY <1>1 DEF SumOf, Sums
<1>3. SumOf(f, S) = MapThenSumSet(net, S)
    BY <1>2 DEF MapThenSumSet, MapThenFoldSet, Pick
<1> QED
    BY <1>3 DEF NetOver

\* What natural amounts add up to.
LEMMA TotalNatural ==
    ASSUME NEW items, IsFiniteSet(items), \A x \in items : x.amount \in Nat
    PROVE  MonthTotal(items) \in Nat
<1> DEFINE f == [x \in items |-> x.amount]
<1>1. MonthTotal(items) = SumOf(f, items)
    BY TotalIsSum
<1>2. \A x \in items : f[x] \in Nat
    OBVIOUS
<1> HIDE DEF f
<1> QED
    BY <1>1, <1>2, SumNatural

\* The total may be taken group by group: m says which group a record is in.
LEMMA TotalGroups ==
    ASSUME NEW items, IsFiniteSet(items), \A x \in items : x.amount \in Nat,
           NEW K, IsFiniteSet(K), NEW m, NEW h,
           \A k \in K : h[k] = MonthTotal(Grouped(m, items, {k}))
    PROVE  SumOf(h, K) = MonthTotal(Grouped(m, items, K))
<1> DEFINE f == [x \in items |-> x.amount]
<1>1. \A L : MonthTotal(Grouped(m, items, L)) = SumOf(f, Grouped(m, items, L))
    <2> TAKE L
    <2> DEFINE T == Grouped(m, items, L)
    <2>1. IsFiniteSet(T) /\ \A x \in T : f[x] = x.amount
        BY FS_Subset DEF Grouped
    <2> HIDE DEF f, T
    <2>2. MonthTotal(T) = SumOf(f, T)
        BY <2>1, TotalIsSum
    <2> QED
        BY <2>2 DEF T
<1>2. \A x \in items : f[x] \in Int
    OBVIOUS
<1> HIDE DEF f
<1>3. SumsOfGroups(h, f, m, items, K)
    BY <1>1 DEF SumsOfGroups
<1>4. SumOf(h, K) = SumOf(f, Grouped(m, items, K))
    BY <1>2, <1>3, SumGroups
<1> QED
    BY <1>1, <1>4

-----------------------------------------------------------------------------
(* What the figures rely on.                                                 *)

\* The parts of a date.
LEMMA DateParts ==
    ASSUME NEW a \in Dates
    PROVE  a[1] \in Nat /\ a[2] \in 1..12 /\ a[3] \in Nat /\ a = <<a[1], a[2], a[3]>>
BY DEF Dates

\* The month of a date is up to that of a later date of the calendar.
LEMMA MonthOfDate ==
    ASSUME NEW a \in Dates
    PROVE  /\ Ym(a) \in Month
           /\ a[3] <= LastDay(<<a[1], a[2]>>) => Ym(a) = <<a[1], a[2]>>
           /\ \A b \in Dates : DateUpTo(a, b) /\ b[3] <= LastDay(<<b[1], b[2]>>) =>
                 UpTo(Ym(a), Ym(b)) /\ Ym(b) = <<b[1], b[2]>>
<1>1. /\ a[1] \in Nat /\ a[2] \in 1..12 /\ a[3] \in Nat
      /\ a = <<a[1], a[2], a[3]>>
    BY DateParts
<1> DEFINE k == <<a[1], a[2]>>
<1>2. k \in Month /\ k[1] = a[1] /\ k[2] = a[2]
    BY <1>1 DEF Month
<1>3. LastDay(k) \in 28..31
    BY DEF LastDay
<1>4. Ym(a) = IF a[3] > LastDay(k) THEN NextMonth(k) ELSE k
    BY DEF Ym
<1> HIDE DEF k
<1>5. NextMonth(k) \in Month /\ Ym(a) \in Month
    BY <1>2, <1>4, MonthsOrdered
<1>6. ASSUME NEW b \in Dates, DateUpTo(a, b), b[3] <= LastDay(<<b[1], b[2]>>)
      PROVE  UpTo(Ym(a), Ym(b)) /\ Ym(b) = <<b[1], b[2]>>
    <2>1. b[1] \in Nat /\ b[2] \in 1..12 /\ b[3] \in Nat
        BY DEF Dates
    <2> DEFINE l == <<b[1], b[2]>>
    <2>2. l \in Month /\ l[1] = b[1] /\ l[2] = b[2]
        BY <2>1 DEF Month
    <2>3. LastDay(l) \in 28..31
        BY DEF LastDay
    <2>4. Ym(b) = l
        BY <1>6, <2>1, <2>3 DEF Ym
    <2>5. b[3] <= LastDay(l)
        BY <1>6
    <2>6. IF k[1] = l[1] /\ k[2] = l[2] THEN a[3] <= b[3] ELSE Before(k, l)
        BY <1>6, <1>2, <2>2 DEF DateUpTo, Before
    <2>7. k = <<k[1], k[2]>> /\ l = <<l[1], l[2]>>
        BY <1>2, <2>2, MonthsOrdered
    <2> HIDE DEF l
    <2>8. CASE k = l
        <3>1. k[1] = l[1] /\ k[2] = l[2]
            BY <2>8
        <3>2. a[3] <= b[3]
            BY <2>6, <3>1
        <3>3. LastDay(k) = LastDay(l)
            BY <2>8
        <3>4. ~(a[3] > LastDay(k))
            BY <1>1, <2>1, <2>3, <2>5, <3>2, <3>3
        <3> QED
            BY <1>4, <2>4, <2>8, <3>4 DEF UpTo, l
    <2>9. CASE k # l
        <3>1. Before(k, l)
            BY <2>6, <2>7, <2>9
        <3>2. UpTo(NextMonth(k), l) /\ UpTo(k, l)
            BY <1>2, <2>2, <3>1, MonthsOrdered DEF UpTo
        <3> QED
            BY <1>4, <2>4, <3>2 DEF l
    <2> QED
        BY <2>8, <2>9
<1>7. a[3] <= LastDay(<<a[1], a[2]>>) => Ym(a) = <<a[1], a[2]>>
    BY <1>1, <1>3, <1>4 DEF k
<1> QED
    BY <1>5, <1>6, <1>7

\* Today's month, and tomorrow's.
LEMMA CurrentMonth ==
    ASSUME day \in 1..Len(Days)
    PROVE  /\ Today \in Dates /\ Current = <<Today[1], Today[2]>> /\ Current \in Month
           /\ Today[3] <= LastDay(<<Today[1], Today[2]>>)
           /\ Days[1] \in Dates /\ Ym(Days[1]) \in Month
           /\ DateUpTo(Days[1], Today) /\ DateUpTo(Today, Today)
           /\ UpTo(Ym(Days[1]), Current)
           /\ NextMonth(Current) \in Month /\ UpTo(Current, NextMonth(Current))
           /\ UpTo(Ym(Tomorrow), NextMonth(Current)) /\ Ym(Tomorrow) \in Month
<1>1. Today \in Dates /\ Tomorrow \in Dates /\ Days[1] \in Dates
    BY DaysTyped, LedgerAssumption
<1>2. Today[3] <= LastDay(<<Today[1], Today[2]>>)
    BY LedgerAssumption DEF Today
<1>3. Today[1] \in Nat /\ Today[2] \in 1..12 /\ Today[3] \in Nat
    BY <1>1, DateParts
<1>4. DateUpTo(Today, Today)
    BY <1>3 DEF DateUpTo
<1>5. DateUpTo(Days[1], Today)
    <2>1. CASE day = 1
        BY <1>4, <2>1 DEF Today
    <2>2. CASE day # 1
        <3>1. 1 \in 1..Len(Days) /\ 1 < day
            BY <2>2, LedgerAssumption
        <3> QED
            BY <3>1, LedgerAssumption DEF Today
    <2> QED
        BY <2>1, <2>2
<1>6. Current = <<Today[1], Today[2]>> /\ Current \in Month
    BY <1>1, <1>2, MonthOfDate DEF Current
<1>7. Ym(Days[1]) \in Month /\ UpTo(Ym(Days[1]), Current)
    BY <1>1, <1>2, <1>5, MonthOfDate DEF Current
<1>8. NextMonth(Current) \in Month /\ UpTo(Current, NextMonth(Current))
    BY <1>6, MonthsOrdered DEF UpTo
<1>9. UpTo(Ym(Tomorrow), NextMonth(Current))
    <2>1. CASE Today[3] < LastDay(Current)
        <3>1. Tomorrow = <<Current[1], Current[2], Today[3] + 1>>
            BY <1>6, <2>1 DEF Tomorrow
        <3>2. LastDay(Current) \in Nat
            BY DEF LastDay
        <3>3. ~(Today[3] + 1 > LastDay(Current))
            BY <1>3, <2>1, <3>2
        <3>4. Current = <<Current[1], Current[2]>>
            BY <1>6, MonthsOrdered
        <3>5. Ym(Tomorrow) = Current
            BY <3>1, <3>3, <3>4 DEF Ym
        <3> QED
            BY <1>8, <3>5
    <2>2. CASE ~(Today[3] < LastDay(Current))
        <3> DEFINE n == NextMonth(Current)
        <3>1. Tomorrow = <<n[1], n[2], 1>>
            BY <1>6, <2>2 DEF Tomorrow
        <3> HIDE DEF n
        <3>2. n = <<n[1], n[2]>>
            BY <1>8, MonthsOrdered DEF n
        <3>3. LastDay(n) \in 28..31
            BY DEF LastDay
        <3>4. ~(1 > LastDay(n))
            BY <3>3
        <3>5. Ym(Tomorrow) = n
            BY <3>1, <3>2, <3>4 DEF Ym
        <3> QED
            BY <3>5 DEF n, UpTo
    <2> QED
        BY <2>1, <2>2
<1>10. Ym(Tomorrow) \in Month
    BY <1>1, MonthOfDate
<1> QED
    BY <1>1, <1>2, <1>4, <1>5, <1>6, <1>7, <1>8, <1>9, <1>10

\* Later days, later months.
LEMMA DaysAscend ==
    ASSUME NEW i \in 1..Len(Days), NEW j \in 1..Len(Days), i <= j
    PROVE  DateUpTo(Days[i], Days[j]) /\ UpTo(Ym(Days[i]), Ym(Days[j])) /\ Ym(Days[i]) \in Month
<1>1. Days[i] \in Dates /\ Days[j] \in Dates
    BY LedgerAssumption DEF Dates
<1>2. Days[j][3] <= LastDay(<<Days[j][1], Days[j][2]>>)
    BY LedgerAssumption
<1>3. DateUpTo(Days[i], Days[j])
    <2>1. CASE i = j
        <3>1. Days[i][3] \in Nat
            BY <1>1, DateParts
        <3> QED
            BY <2>1, <3>1 DEF DateUpTo
    <2>2. CASE i # j
        <3>1. i < j
            BY <2>2
        <3> QED
            BY <3>1, LedgerAssumption
    <2> QED
        BY <2>1, <2>2
<1> QED
    BY <1>1, <1>2, <1>3, MonthOfDate

\* The clock and the counter of ids never go back.
LEMMA ClockAdvances ==
    ASSUME TypeOK, [Next]_vars
    PROVE  /\ day \in 1..Len(Days) /\ day' \in 1..Len(Days)
           /\ DateUpTo(Today, Today') /\ UpTo(Current, Current')
           /\ ids \in Nat /\ ids' \in Nat /\ ids <= ids' /\ ids <= MaxNew
<1>1. TypeOK'
    BY NextTyped
<1>2. /\ day \in 1..Len(Days) /\ day' \in 1..Len(Days)
      /\ ids \in 0..MaxNew /\ ids' \in 0..MaxNew
    BY <1>1 DEF TypeOK
<1>3. day' = day \/ day' = day + 1
    BY DEF Next, vars, Tick, CaptureWarn, LeaveCapture, CancelEdit, CaptureSave, EditExpense,
           DeleteExpense, AddRecurring, EndRecurring, RemoveRecurring, AddIncome, SaveEdit,
           StartEdit, EndIncome, RemoveIncome, AddEvent, RemoveEvent, SavePlan
<1>4. ids' = ids \/ ids' = ids + 1
    BY DEF Next, vars, Tick, CaptureWarn, LeaveCapture, CancelEdit, CaptureSave, EditExpense,
           DeleteExpense, AddRecurring, EndRecurring, RemoveRecurring, AddIncome, SaveEdit,
           StartEdit, EndIncome, RemoveIncome, AddEvent, RemoveEvent, SavePlan
<1>5. ids \in Nat /\ ids' \in Nat /\ ids <= ids' /\ ids <= MaxNew
    BY <1>2, <1>4, LedgerAssumption
<1>6. day <= day'
    BY <1>2, <1>3
<1>7. DateUpTo(Days[day], Days[day']) /\ UpTo(Ym(Days[day]), Ym(Days[day']))
    BY <1>2, <1>6, DaysAscend
<1> QED
    BY <1>2, <1>5, <1>7 DEF Today, Current

\* The registers are finite.
FiniteRegisters ==
    /\ IsFiniteSet(expenses) /\ IsFiniteSet(recurring)
    /\ IsFiniteSet(incomes) /\ IsFiniteSet(events)

\* Templates have ids of their own, and none has an end to come.
TemplatesKnown ==
    \A t \in recurring :
        /\ t.id \in 1..ids \/ t.id > MaxNew
        /\ \A u \in recurring : t.id = u.id => t = u
        /\ t.endedAt # NoMonth => UpTo(t.endedAt, Current)

\* Sources were created while the program was used and end no later than today; one-off
\* income is of no month after the next.
Within(s, today) ==
    /\ DateUpTo(Days[1], s.created) /\ DateUpTo(s.created, today)
    /\ s.endedAt # NoDate => DateUpTo(s.endedAt, today)
Timely ==
    /\ \A s \in incomes : Within(s, Today)
    /\ editing # NoSource => Within(editing, Today)
    /\ \A v \in events : UpTo(Ym(v.date), NextMonth(Current))

FiguresInv == SourceInv /\ FiniteRegisters /\ TemplatesKnown /\ Timely

\* A register stays finite.
LEMMA PutFinite ==
    ASSUME NEW S, IsFiniteSet(S), NEW r, NEW id
    PROVE  IsFiniteSet(Put(S, r)) /\ IsFiniteSet(Without(S, id)) /\ IsFiniteSet(S \cup {r})
<1>1. IsFiniteSet({x \in S : x.id # r.id}) /\ IsFiniteSet({x \in S : x.id # id})
    BY FS_Subset
<1>2. IsFiniteSet({x \in S : x.id # r.id} \cup {r}) /\ IsFiniteSet(S \cup {r})
    BY <1>1, FS_AddElement
<1> QED
    BY <1>1, <1>2 DEF Put, Without

LEMMA NextFinite ==
    ASSUME FiniteRegisters, [Next]_vars
    PROVE  FiniteRegisters'
<1>1. CASE \/ Tick \/ CaptureWarn \/ LeaveCapture \/ CancelEdit
           \/ \E s \in incomes : StartEdit(s)
           \/ \E p \in Plans, core \in BOOLEAN : SavePlan(p, core)
           \/ UNCHANGED vars
    BY <1>1 DEF FiniteRegisters, Tick, CaptureWarn, LeaveCapture, CancelEdit, StartEdit, SavePlan,
                vars
<1>2. CASE \/ \E a \in Amounts, c \in Offered, d \in TypedDates : CaptureSave(a, c, d)
           \/ \E e \in expenses, a \in Amounts, c \in Picks, d \in TypedDates :
                 EditExpense(e, a, c, d)
           \/ \E e \in expenses : DeleteExpense(e)
    <2>1. /\ \/ \E r : expenses' = expenses \cup {r} \/ expenses' = Put(expenses, r)
             \/ \E id : expenses' = Without(expenses, id)
          /\ recurring' = recurring /\ incomes' = incomes /\ events' = events
        BY <1>2 DEF CaptureSave, EditExpense, DeleteExpense
    <2>2. IsFiniteSet(expenses')
        BY <2>1, PutFinite DEF FiniteRegisters
    <2> QED
        BY <2>1, <2>2 DEF FiniteRegisters
<1>3. CASE \/ \E a \in Amounts, c \in Picks \cap Categories, d \in DaysOfMonth :
                 AddRecurring(a, c, d)
           \/ \E t \in recurring : EndRecurring(t) \/ RemoveRecurring(t)
    BY <1>3, PutFinite DEF FiniteRegisters, AddRecurring, EndRecurring, RemoveRecurring
<1>4. CASE \/ \E a \in Amounts, p \in Payments : AddIncome(a, p) \/ SaveEdit(a, p)
           \/ \E s \in incomes : EndIncome(s) \/ RemoveIncome(s)
    BY <1>4, PutFinite DEF FiniteRegisters, AddIncome, SaveEdit, EndIncome, RemoveIncome
<1>5. CASE \/ \E a \in Amounts, d \in EventDates : AddEvent(a, d)
           \/ \E v \in events : RemoveEvent(v)
    BY <1>5, PutFinite DEF FiniteRegisters, AddEvent, RemoveEvent
<1> QED
    BY <1>1, <1>2, <1>3, <1>4, <1>5 DEF Next

\* The templates.
LEMMA NextTemplates ==
    ASSUME TypeOK, TemplatesKnown, [Next]_vars
    PROVE  TemplatesKnown'
<1>c. /\ day \in 1..Len(Days) /\ UpTo(Current, Current')
      /\ ids \in Nat /\ ids' \in Nat /\ ids <= ids' /\ ids <= MaxNew
    BY ClockAdvances
<1>m. Current \in Month /\ Current' \in Month
    BY <1>c, ClockAdvances, DaysAscend DEF Current, Today
<1>e. \A t \in recurring : t.endedAt # NoMonth => UpTo(t.endedAt, Current')
    <2> SUFFICES ASSUME NEW t \in recurring, t.endedAt # NoMonth
                 PROVE  UpTo(t.endedAt, Current')
        OBVIOUS
    <2>1. t.endedAt \in Month /\ UpTo(t.endedAt, Current)
        BY DEF TypeOK, Template, TemplatesKnown, Month
    <2> QED
        BY <1>c, <1>m, <2>1, MonthsTransitive
<1>1. CASE recurring' \subseteq recurring
    BY <1>1, <1>c, <1>e DEF TemplatesKnown
<1>2. ASSUME NEW a \in Amounts, NEW c \in Picks \cap Categories, NEW d \in DaysOfMonth,
             AddRecurring(a, c, d)
      PROVE  TemplatesKnown'
    <2> DEFINE r == [id |-> ids', amount |-> a, category |-> c, day |-> d,
                     active |-> TRUE, endedAt |-> NoMonth, created |-> Today]
    <2>1. recurring' = Put(recurring, r) /\ ids' = ids + 1 /\ r.id = ids' /\ r.endedAt = NoMonth
        BY <1>2 DEF AddRecurring
    <2>2. ids' <= MaxNew
        BY <1>2, <1>c, LedgerAssumption DEF AddRecurring
    <2> HIDE DEF r
    <2>3. \A t \in recurring' : t = r \/ t \in recurring
        BY <2>1 DEF Put
    <2>4. \A t \in recurring : t.id # r.id /\ (t.id \in 1..ids' \/ t.id > MaxNew)
        BY <1>c, <2>1, <2>2, LedgerAssumption DEF TemplatesKnown
    <2> QED
        BY <1>c, <1>e, <2>1, <2>3, <2>4 DEF TemplatesKnown
<1>3. ASSUME NEW t \in recurring, EndRecurring(t)
      PROVE  TemplatesKnown'
    <2>1. t \in Template
        BY DEF TypeOK
    <2>2. Ended(t).id = t.id /\ Ended(t).endedAt = Current
        BY <2>1 DEF Ended, Template
    <2>3. recurring' = Put(recurring, Ended(t)) /\ ids' = ids
        BY <1>3 DEF EndRecurring
    <2>4. \A u \in recurring' : u = Ended(t) \/ (u \in recurring /\ u.id # t.id)
        BY <2>2, <2>3 DEF Put
    <2> QED
        BY <1>c, <1>e, <2>2, <2>3, <2>4 DEF TemplatesKnown
<1>4. CASE \E t \in recurring : RemoveRecurring(t)
    BY <1>1, <1>4 DEF RemoveRecurring, Without
<1>5. CASE recurring' = recurring
    BY <1>1, <1>5
<1> QED
    BY <1>2, <1>3, <1>4, <1>5 DEF Next, vars, Tick, CaptureWarn, LeaveCapture, CancelEdit,
           CaptureSave, EditExpense, DeleteExpense, AddIncome, SaveEdit,
           StartEdit, EndIncome, RemoveIncome, AddEvent, RemoveEvent, SavePlan

\* The sources, the form, and the one-off income.
LEMMA NextTimely ==
    ASSUME TypeOK, Timely, [Next]_vars
    PROVE  Timely'
<1>c. /\ day \in 1..Len(Days) /\ day' \in 1..Len(Days)
      /\ DateUpTo(Today, Today') /\ UpTo(Current, Current')
    BY ClockAdvances
<1>d. /\ Today \in Dates /\ Today' \in Dates /\ Days[1] \in Dates
      /\ DateUpTo(Days[1], Today) /\ DateUpTo(Today, Today)
    BY <1>c, DaysTyped, CurrentMonth DEF Today
<1>m. /\ Current \in Month /\ Current' \in Month
      /\ NextMonth(Current) \in Month /\ NextMonth(Current') \in Month
      /\ UpTo(NextMonth(Current), NextMonth(Current'))
    <2>1. Current \in Month /\ Current' \in Month
        BY <1>c, DaysAscend DEF Current, Today
    <2> QED
        BY <1>c, <2>1, MonthsOrdered, NextMonths
<1>w. ASSUME NEW s \in Source, Within(s, Today)
      PROVE  Within(s, Today')
    <2>1. s.created \in Dates /\ (s.endedAt # NoDate => s.endedAt \in Dates)
        BY DEF Source
    <2>2. DateUpTo(s.created, Today')
        BY <1>c, <1>d, <1>w, <2>1, DatesOrdered DEF Within
    <2>3. s.endedAt # NoDate => DateUpTo(s.endedAt, Today')
        BY <1>c, <1>d, <1>w, <2>1, DatesOrdered DEF Within
    <2> QED
        BY <1>w, <2>2, <2>3 DEF Within
<1>s. /\ \A s \in incomes : s \in Source /\ Within(s, Today')
      /\ editing # NoSource => /\ editing \in Source
                               /\ Within(editing, Today) /\ Within(editing, Today')
    BY <1>w DEF Timely, TypeOK
<1>v. \A v \in events : UpTo(Ym(v.date), NextMonth(Current'))
    <2> SUFFICES ASSUME NEW v \in events PROVE UpTo(Ym(v.date), NextMonth(Current'))
        OBVIOUS
    <2>1. v.date \in Dates
        BY DEF TypeOK, Event
    <2>2. Ym(v.date) \in Month /\ UpTo(Ym(v.date), NextMonth(Current))
        BY <2>1, MonthOfDate DEF Timely
    <2> QED
        BY <1>m, <2>2, MonthsTransitive
<1>1. ASSUME \A s \in incomes' : Within(s, Today'), editing' # NoSource => Within(editing', Today'),
             \A v \in events' : UpTo(Ym(v.date), NextMonth(Current'))
      PROVE  Timely'
    BY <1>1 DEF Timely, Within
<1>2. CASE incomes' \subseteq incomes /\ events' \subseteq events
           /\ (editing' \in {editing, NoSource} \cup incomes)
    BY <1>2, <1>s, <1>v, <1>1
<1>3. ASSUME NEW a \in Amounts, NEW p \in Payments, AddIncome(a, p)
      PROVE  Timely'
    <2> DEFINE r == [id |-> ids', amount |-> a, frequency |-> p.frequency,
                     payWeekday |-> p.payWeekday, active |-> TRUE, endedAt |-> NoDate,
                     created |-> Today]
    <2>1. /\ incomes' = Put(incomes, r) /\ editing' = editing /\ events' = events
          /\ r.created = Today /\ r.endedAt = NoDate
        BY <1>3 DEF AddIncome
    <2> HIDE DEF r
    <2>2. Within(r, Today')
        BY <1>c, <1>d, <2>1 DEF Within
    <2>3. \A s \in incomes' : s = r \/ s \in incomes
        BY <2>1 DEF Put
    <2> QED
        BY <1>1, <1>s, <1>v, <2>1, <2>2, <2>3
<1>4. ASSUME NEW a \in Amounts, NEW p \in Payments, SaveEdit(a, p)
      PROVE  Timely'
    <2> DEFINE r == Edited(a, p)
    <2>1. editing # NoSource /\ editing \in Source
        BY <1>4, <1>s DEF SaveEdit
    <2>2. /\ incomes' = Put(incomes, r) /\ editing' = NoSource /\ events' = events
          /\ r.created = editing.created /\ r.endedAt = editing.endedAt
        BY <1>4, <2>1 DEF SaveEdit, Edited, Source
    <2> HIDE DEF r
    <2>3. Within(r, Today')
        BY <1>s, <2>1, <2>2 DEF Within
    <2>4. \A s \in incomes' : s = r \/ s \in incomes
        BY <2>2 DEF Put
    <2> QED
        BY <1>1, <1>s, <1>v, <2>2, <2>3, <2>4
<1>5. ASSUME NEW s \in incomes, EndIncome(s)
      PROVE  Timely'
    <2> DEFINE r == [s EXCEPT !.active = FALSE, !.endedAt = Today]
    <2>1. s \in Source
        BY <1>s
    <2>2. /\ incomes' = Put(incomes, r) /\ editing' = editing /\ events' = events
          /\ r.created = s.created /\ r.endedAt = Today /\ Today' = Today
        BY <1>5, <2>1 DEF EndIncome, Source, Today
    <2> HIDE DEF r
    <2>3. Within(r, Today')
        BY <1>d, <1>s, <2>2 DEF Within
    <2>4. \A u \in incomes' : u = r \/ u \in incomes
        BY <2>2 DEF Put
    <2> QED
        BY <1>1, <1>s, <1>v, <2>2, <2>3, <2>4
<1>6. ASSUME NEW a \in Amounts, NEW d \in EventDates, AddEvent(a, d)
      PROVE  Timely'
    <2> DEFINE r == [id |-> ids', amount |-> a, date |-> d]
    <2>1. /\ events' = Put(events, r) /\ editing' = editing /\ incomes' = incomes
          /\ r.date = d /\ Current' = Current
        BY <1>6 DEF AddEvent, Current, Today
    <2> HIDE DEF r
    <2>2. UpTo(Ym(d), NextMonth(Current))
        <3>1. CASE d = Tomorrow
            BY <1>c, <3>1, CurrentMonth
        <3>2. CASE d # Tomorrow
            <4>1. PICK i \in 1..day : d = Days[i]
                BY <3>2 DEF EventDates
            <4>2. UpTo(Ym(d), Current) /\ Ym(d) \in Month
                BY <1>c, <4>1, DaysAscend DEF Current, Today
            <4> QED
                BY <1>c, <4>2, CurrentMonth, MonthsTransitive
        <3> QED
            BY <3>1, <3>2
    <2>3. \A v \in events' : v = r \/ v \in events
        BY <2>1 DEF Put
    <2> QED
        BY <1>1, <1>s, <1>v, <2>1, <2>2, <2>3
<1>7. CASE \/ Tick \/ CaptureWarn \/ LeaveCapture \/ CancelEdit
           \/ \E s \in incomes : StartEdit(s) \/ RemoveIncome(s)
           \/ \E v \in events : RemoveEvent(v)
           \/ UNCHANGED <<incomes, events, editing>>
    BY <1>2, <1>7 DEF Tick, CaptureWarn, LeaveCapture, CancelEdit, StartEdit, RemoveIncome,
                      RemoveEvent, Without
<1> QED
    BY <1>3, <1>4, <1>5, <1>6, <1>7 DEF Next, vars, CaptureSave, EditExpense, DeleteExpense,
           AddRecurring, EndRecurring, RemoveRecurring, SavePlan

LEMMA InitFigures == Init => FiguresInv
<1> SUFFICES ASSUME Init PROVE FiguresInv
    OBVIOUS
<1>1. SourceInv
    BY InitSources
<1>2. FiniteRegisters
    BY OldAssumption, FS_EmptySet DEF Init, FiniteRegisters
<1>3. TemplatesKnown
    BY OldAssumption DEF Init, TemplatesKnown, Current, Today
<1>4. Timely
    BY DEF Init, Timely
<1> QED
    BY <1>1, <1>2, <1>3, <1>4 DEF FiguresInv

\* The invariant the figures rely on.
THEOREM RegistersSound == Spec => []FiguresInv
<1>1. FiguresInv /\ [Next]_vars => FiguresInv'
    BY NextTyped, NextSources, NextFinite, NextTemplates, NextTimely DEF FiguresInv, SourceInv
<1> QED
    BY <1>1, InitFigures, PTL DEF Spec

-----------------------------------------------------------------------------
(* The rows of the recurring expenses.                                       *)

\* The row of a month is of that month, though the month may not have the day.
LEMMA RowOfMonth ==
    ASSUME NEW t \in Template, NEW k \in Month
    PROVE  /\ SyntheticRow(t, k).amount \in Nat
           /\ SyntheticRow(t, k).category \in Categories \cup Legacy
           /\ SyntheticRow(t, k).date \in Dates /\ Ym(SyntheticRow(t, k).date) = k
           /\ SyntheticRow(t, k).id = <<t.id, k>> /\ SyntheticRow(t, k).amount = t.amount
<1>1. k = <<k[1], k[2]>> /\ k[1] \in Nat /\ k[2] \in 1..12
    BY MonthsOrdered
<1>2. LastDay(k) \in 28..31
    BY DEF LastDay
<1>3. t.day \in 1..31 /\ t.amount \in 1..MaxAmount /\ t.category \in Categories \cup Legacy
    BY DEF Template
<1> DEFINE d == IF t.day > LastDay(k) THEN LastDay(k) ELSE t.day
<1>4. d \in 1..31 /\ ~(d > LastDay(k))
    BY <1>2, <1>3
<1>5. SyntheticRow(t, k).date = <<k[1], k[2], d>>
    BY DEF SyntheticRow, ResolveDay
<1> HIDE DEF d
<1>6. SyntheticRow(t, k).date \in Dates
    BY <1>1, <1>4, <1>5 DEF Dates
<1>7. Ym(SyntheticRow(t, k).date) = k
    BY <1>1, <1>4, <1>5 DEF Ym
<1>8. /\ SyntheticRow(t, k).amount \in Nat /\ SyntheticRow(t, k).category \in Categories \cup Legacy
      /\ SyntheticRow(t, k).id = <<t.id, k>> /\ SyntheticRow(t, k).amount = t.amount
    BY <1>3, LedgerAssumption DEF SyntheticRow
<1> QED
    BY <1>6, <1>7, <1>8

\* A template is due in a month from its creation to its end.
Due(t, k) ==
    Visible(t) /\ UpTo(Ym(t.created), k) /\ (t.active \/ UpTo(k, t.endedAt))

LEMMA DueMonths ==
    ASSUME NEW t \in Template, Visible(t), NEW through \in Month
    PROVE  /\ MonthSpan(Ym(t.created), LastMonth(t, through)) =
                 {k \in Month : Due(t, k) /\ UpTo(k, through)}
           /\ IsFiniteSet(MonthSpan(Ym(t.created), LastMonth(t, through)))
           /\ Ym(t.created) \in Month /\ (t.active \/ t.endedAt \in Month)
<1>1. Ym(t.created) \in Month
    BY MonthOfDate DEF Template
<1>2. t.active \/ t.endedAt \in Month
    BY DEF Visible, Template, Month
<1>3. /\ LastMonth(t, through) \in Month
      /\ \A k \in Month : UpTo(k, LastMonth(t, through)) <=>
            UpTo(k, through) /\ (t.active \/ UpTo(k, t.endedAt))
    <2>1. CASE t.active
        BY <2>1 DEF LastMonth
    <2>2. CASE ~t.active
        <3> DEFINE e == t.endedAt
        <3>1. e \in Month /\ LastMonth(t, through) = MinMonth(through, e)
            BY <1>2, <2>2 DEF LastMonth
        <3> HIDE DEF e
        <3>2. CASE Before(through, e)
            <4>1. LastMonth(t, through) = through
                BY <3>1, <3>2 DEF MinMonth
            <4>2. \A k \in Month : UpTo(k, through) => UpTo(k, e)
                BY <3>1, <3>2, MonthsTransitive DEF UpTo
            <4> QED
                BY <2>2, <4>1, <4>2 DEF e
        <3>3. CASE ~Before(through, e)
            <4>1. LastMonth(t, through) = e
                BY <3>1, <3>3 DEF MinMonth
            <4>2. UpTo(e, through)
                BY <3>1, <3>3, MonthsOrdered
            <4>3. \A k \in Month : UpTo(k, e) => UpTo(k, through)
                BY <3>1, <4>2, MonthsTransitive
            <4> QED
                BY <2>2, <3>1, <4>1, <4>3 DEF e
        <3> QED
            BY <3>2, <3>3
    <2> QED
        BY <2>1, <2>2
<1>4. /\ MonthSpan(Ym(t.created), LastMonth(t, through)) =
            {k \in Month : UpTo(Ym(t.created), k) /\ UpTo(k, LastMonth(t, through))}
      /\ IsFiniteSet(MonthSpan(Ym(t.created), LastMonth(t, through)))
    BY <1>1, <1>3, SpanHolds
<1> QED
    BY <1>1, <1>2, <1>3, <1>4 DEF Due

\* The rows are those of the months a template is due in.
LEMMA RowsAre ==
    ASSUME NEW T \in SUBSET Template, NEW through \in Month
    PROVE  /\ \A e : e \in ExpandRecurring(T, through) <=>
                 \E t \in T, k \in Month : /\ Due(t, k) /\ UpTo(k, through)
                                           /\ e = SyntheticRow(t, k)
           /\ \A t \in T : Visible(t) => \A e : e \in RowsOf(t, through) <=>
                 \E k \in Month : Due(t, k) /\ UpTo(k, through) /\ e = SyntheticRow(t, k)
           /\ IsFiniteSet(T) => IsFiniteSet(ExpandRecurring(T, through))
<1> DEFINE V == {u \in T : Visible(u)}
<1>1. ASSUME NEW t \in V
      PROVE  /\ \A e : e \in RowsOf(t, through) <=>
                    \E k \in Month : Due(t, k) /\ UpTo(k, through) /\ e = SyntheticRow(t, k)
             /\ IsFiniteSet(RowsOf(t, through))
    <2> DEFINE S == MonthSpan(Ym(t.created), LastMonth(t, through))
               row == [k \in S |-> SyntheticRow(t, k)]
    <2>1. S = {k \in Month : Due(t, k) /\ UpTo(k, through)} /\ IsFiniteSet(S)
        BY DueMonths
    <2>2. RowsOf(t, through) = {SyntheticRow(t, k) : k \in S}
        BY DEF RowsOf
    <2>3. RowsOf(t, through) = {row[k] : k \in S}
        BY <2>2
    <2>4. IsFiniteSet(RowsOf(t, through))
        <3> HIDE DEF S, row
        <3> QED
            BY <2>1, <2>3, ImageFinite
    <2>5. \A e : e \in RowsOf(t, through) <=>
                    \E k \in Month : Due(t, k) /\ UpTo(k, through) /\ e = SyntheticRow(t, k)
        <3> HIDE DEF S
        <3> QED
            BY <2>1, <2>2
    <2> QED
        BY <2>4, <2>5
<1>2. ExpandRecurring(T, through) = UNION {RowsOf(t, through) : t \in V}
    BY DEF ExpandRecurring
<1>3. \A e : e \in ExpandRecurring(T, through) <=> \E t \in V : e \in RowsOf(t, through)
    BY <1>2
<1>4. \A t, k : Due(t, k) => Visible(t)
    BY DEF Due
<1>5. ASSUME IsFiniteSet(T)
      PROVE  IsFiniteSet(ExpandRecurring(T, through))
    <2> DEFINE rows == [t \in V |-> RowsOf(t, through)]
               R == {rows[t] : t \in V}
    <2>1. IsFiniteSet(V)
        BY <1>5, FS_Subset
    <2>2. IsFiniteSet(R)
        <3> HIDE DEF rows, V
        <3> QED
            BY <2>1, ImageFinite
    <2>3. \A r \in R : IsFiniteSet(r)
        BY <1>1
    <2>4. ExpandRecurring(T, through) = UNION R
        BY <1>2
    <2> HIDE DEF R
    <2> QED
        BY <2>2, <2>3, <2>4, FS_UNION
<1> QED
    BY <1>1, <1>3, <1>4, <1>5

\* The row of every month a visible template is due in, and no other.
THEOREM MonthlyRows == Spec => []OneRowAMonth
<1>1. ASSUME TypeOK, TemplatesKnown
      PROVE  OneRowAMonth
    <2> SUFFICES ASSUME NEW t \in recurring, Visible(t)
                 PROVE  LET first == Ym(t.created)
                            last  == IF t.active THEN Current ELSE t.endedAt
                        IN  /\ MonthsWalked(first, last) = MonthSpan(first, last)
                            /\ \A k \in Months :
                                  Cardinality({r \in RowsOf(t, Current) : Ym(r.date) = k}) =
                                      IF UpTo(first, k) /\ UpTo(k, last) THEN 1 ELSE 0
        BY DEF OneRowAMonth
    <2> DEFINE first == Ym(t.created)
               last  == IF t.active THEN Current ELSE t.endedAt
    <2>1. t \in Template /\ Current \in Month
        BY <1>1, CurrentMonth DEF TypeOK
    <2>2. first \in Month /\ (t.active \/ t.endedAt \in Month)
        BY <2>1, DueMonths
    <2>3. last \in Month
        BY <2>1, <2>2
    <2>4. MonthsWalked(first, last) = MonthSpan(first, last)
        <3> HIDE DEF first, last
        <3> QED
            BY <2>2, <2>3, WalkIsSpan
    <2>5. UpTo(last, Current)
        <3>1. ~t.active => t.endedAt # NoMonth
            BY DEF Visible
        <3>2. ~t.active => UpTo(t.endedAt, Current)
            BY <1>1, <3>1 DEF TemplatesKnown
        <3> QED
            BY <3>2 DEF UpTo
    <2>6. ASSUME NEW k \in Months
          PROVE  Cardinality({r \in RowsOf(t, Current) : Ym(r.date) = k}) =
                    IF UpTo(first, k) /\ UpTo(k, last) THEN 1 ELSE 0
        <3> DEFINE rows == {r \in RowsOf(t, Current) : Ym(r.date) = k}
        <3>1. k \in Month
            BY LedgerAssumption DEF Month
        <3>2. Due(t, k) /\ UpTo(k, Current) <=> UpTo(first, k) /\ UpTo(k, last)
            BY <2>1, <2>3, <2>5, <3>1, MonthsTransitive DEF Due
        <3>3. \A r : r \in RowsOf(t, Current) <=>
                    \E j \in Month : Due(t, j) /\ UpTo(j, Current) /\ r = SyntheticRow(t, j)
            <4>1. recurring \in SUBSET Template
                BY <1>1 DEF TypeOK
            <4> QED
                BY <2>1, <4>1, RowsAre
        <3>4. \A r : r \in rows <=> (Due(t, k) /\ UpTo(k, Current) /\ r = SyntheticRow(t, k))
            BY <2>1, <3>1, <3>3, RowOfMonth
        <3>5. CASE UpTo(first, k) /\ UpTo(k, last)
            <4>1. rows = {SyntheticRow(t, k)}
                BY <3>2, <3>4, <3>5
            <4> HIDE DEF rows
            <4>2. Cardinality(rows) = 1
                BY <4>1, FS_Singleton
            <4> QED
                BY <3>5, <4>2 DEF rows
        <3>6. CASE ~(UpTo(first, k) /\ UpTo(k, last))
            <4>1. rows = {}
                BY <3>2, <3>4, <3>6
            <4> HIDE DEF rows
            <4>2. Cardinality(rows) = 0
                BY <4>1, FS_EmptySet
            <4> QED
                BY <3>6, <4>2 DEF rows
        <3> QED
            BY <3>5, <3>6
    <2> QED
        BY <2>4, <2>6
<1>2. FiguresInv => OneRowAMonth
    BY <1>1 DEF FiguresInv, SourceInv
<1> QED
    BY <1>2, RegistersSound, PTL

-----------------------------------------------------------------------------
(* What a month holds.                                                       *)

\* The expenses of a month, and a row of each template that is due.
OwnItems(E, k) == {e \in E : Ym(e.date) = k}
RowItems(T, k) == {SyntheticRow(t, k) : t \in {u \in T : Due(u, k)}}

\* They are the items of the month.
LEMMA ItemsOfMonth ==
    ASSUME NEW E \in SUBSET Expense, NEW T \in SUBSET Template, NEW k \in Month,
           NEW through \in Month, UpTo(k, through)
    PROVE  /\ MonthlyExpenses(E, ExpandRecurring(T, through), k) =
                 OwnItems(E, k) \cup RowItems(T, k)
           /\ MonthlyExpenses(E, ExpandRecurring(T, through), k) =
                 MonthlyExpenses(E, ExpandRecurring(T, k), k)
           /\ \A e \in MonthlyExpenses(E, ExpandRecurring(T, through), k) :
                 /\ e.amount \in Nat /\ e.category \in Categories \cup Legacy
                 /\ e.date \in Dates /\ Ym(e.date) = k
           /\ IsFiniteSet(E) /\ IsFiniteSet(T) =>
                 IsFiniteSet(MonthlyExpenses(E, ExpandRecurring(T, through), k))
<1> DEFINE own == OwnItems(E, k)
           rows == RowItems(T, k)
<1>1. ASSUME NEW l \in Month, UpTo(k, l)
      PROVE  MonthlyExpenses(E, ExpandRecurring(T, l), k) = own \cup rows
    <2>1. \A e : e \in ExpandRecurring(T, l) <=>
              \E t \in T, j \in Month : Due(t, j) /\ UpTo(j, l) /\ e = SyntheticRow(t, j)
        BY RowsAre
    <2>2. \A t \in T, j \in Month : Ym(SyntheticRow(t, j).date) = j
        BY RowOfMonth
    <2>3. \A e : (e \in ExpandRecurring(T, l) /\ Ym(e.date) = k) <=> e \in rows
        BY <1>1, <2>1, <2>2 DEF RowItems
    <2> QED
        BY <2>3 DEF MonthlyExpenses, OwnItems
<1>2. UpTo(k, k)
    BY DEF UpTo
<1>3. \A e \in own : /\ e.amount \in Nat /\ e.category \in Categories \cup Legacy
                     /\ e.date \in Dates /\ Ym(e.date) = k
    BY LedgerAssumption DEF Expense, OwnItems
<1>4. \A e \in rows : /\ e.amount \in Nat /\ e.category \in Categories \cup Legacy
                      /\ e.date \in Dates /\ Ym(e.date) = k
    BY RowOfMonth DEF RowItems
<1>5. ASSUME IsFiniteSet(E), IsFiniteSet(T)
      PROVE  IsFiniteSet(MonthlyExpenses(E, ExpandRecurring(T, through), k))
    <2>1. IsFiniteSet(E \cup ExpandRecurring(T, through))
        BY <1>5, RowsAre, FS_Union
    <2> QED
        BY <2>1, FS_Subset DEF MonthlyExpenses
<1> HIDE DEF own, rows
<1>6. MonthlyExpenses(E, ExpandRecurring(T, through), k) = own \cup rows
    BY <1>1
<1>7. MonthlyExpenses(E, ExpandRecurring(T, k), k) = own \cup rows
    BY <1>1, <1>2
<1>8. \A e \in own \cup rows : /\ e.amount \in Nat /\ e.category \in Categories \cup Legacy
                               /\ e.date \in Dates /\ Ym(e.date) = k
    BY <1>3, <1>4
<1> QED
    BY <1>5, <1>6, <1>7, <1>8 DEF own, rows

\* What a source pays in a month, and when it pays nothing.
LEMMA SourcePays ==
    ASSUME NEW s \in Source, NEW k \in Month
    PROVE  /\ SourceAmountInMonth(s, k) \in Nat
           /\ SourceAmountInMonth(s, k) # 0 =>
                 UpTo(Ym(s.created), k) /\ UpTo(k, SourceEnd(s, k))
           /\ Ym(s.created) \in Month /\ SourceEnd(s, k) \in Month
<1>1. /\ s.amount \in 1..MaxAmount /\ s.created \in Dates
      /\ s.endedAt = NoDate \/ s.endedAt \in Dates
    BY DEF Source
<1>2. s.amount \in Nat
    BY <1>1, LedgerAssumption
<1>3. Ym(s.created) \in Month /\ SourceEnd(s, k) \in Month
    BY <1>1, MonthOfDate DEF SourceEnd
<1>4. /\ Before(k, Ym(s.created)) <=> ~UpTo(Ym(s.created), k)
      /\ Before(SourceEnd(s, k), k) <=> ~UpTo(k, SourceEnd(s, k))
    BY <1>3, MonthsOrdered
<1> DEFINE n == CountWeekdays(k, PayWeekday(s))
<1>5. n \in Nat
    <2> DEFINE ds == {d \in 1..LastDay(k) : WeekdayOf(<<k[1], k[2], d>>) = PayWeekday(s)}
    <2>1. LastDay(k) \in Nat
        BY DEF LastDay
    <2>2. ds \in SUBSET Nat /\ \A d \in ds : d <= LastDay(k)
        BY <2>1
    <2> HIDE DEF ds
    <2>3. IsFiniteSet(ds)
        BY <2>1, <2>2, FS_BoundedSetOfNaturals
    <2>4. Cardinality(ds) \in Nat
        BY <2>3, FS_CardinalityType
    <2> QED
        BY <2>4 DEF CountWeekdays, ds
<1> HIDE DEF n
<1>6. n * s.amount \in Nat
    BY <1>2, <1>5
<1>7. SourceAmountInMonth(s, k) =
        IF Before(k, Ym(s.created)) \/ Before(SourceEnd(s, k), k) THEN 0
        ELSE IF s.frequency = "monthly" THEN s.amount
        ELSE IF s.frequency = "weekly" THEN n * s.amount
        ELSE IF Pays(s, k) THEN s.amount ELSE 0
    BY DEF SourceAmountInMonth, n
<1>8. SourceAmountInMonth(s, k) \in {0, s.amount, n * s.amount}
    BY <1>7
<1>9. SourceAmountInMonth(s, k) \in Nat
    BY <1>2, <1>6, <1>8
<1> QED
    BY <1>3, <1>4, <1>7, <1>9

\* What a register of sources pays in a month.
Paid(S, k) == SumOf([s \in S |-> SourceAmountInMonth(s, k)], S)

LEMMA IncomeOfMonth ==
    ASSUME NEW S \in SUBSET Source, IsFiniteSet(S), NEW E \in SUBSET Event, IsFiniteSet(E),
           NEW k \in Month
    PROVE  /\ MonthIncome(S, k, E) = Paid(S, k) + MonthTotal({v \in E : Ym(v.date) = k})
           /\ MonthIncome(S, k, E) \in Nat
           /\ Paid(S, k) \in Nat /\ MonthTotal({v \in E : Ym(v.date) = k}) \in Nat
<1> DEFINE f == [s \in S |-> SourceAmountInMonth(s, k)]
           due == {v \in E : Ym(v.date) = k}
<1>1. \A s \in S : f[s] \in Nat
    BY SourcePays
<1>2. SumOf(f, S) \in Nat
    <2> HIDE DEF f
    <2> QED
        BY <1>1, SumNatural
<1>3. IsFiniteSet(due) /\ \A v \in due : v.amount \in Nat
    BY FS_Subset, LedgerAssumption DEF Event
<1>4. MonthTotal(due) \in Nat
    <2> HIDE DEF due
    <2> QED
        BY <1>3, TotalNatural
<1>5. MonthIncome(S, k, E) = SumOf(f, S) + MonthTotal(due)
    BY IncomeIsSum
<1> HIDE DEF f, due
<1>6. SumOf(f, S) + MonthTotal(due) \in Nat
    BY <1>2, <1>4
<1> QED
    BY <1>2, <1>4, <1>5, <1>6 DEF Paid, f, due

\* A source that pays nothing in a month may come, and one may take another's place that
\* pays the same.
LEMMA PaidSame ==
    ASSUME NEW S \in SUBSET Source, IsFiniteSet(S), NEW u \in Source, NEW k \in Month
    PROVE  /\ u \notin S /\ SourceAmountInMonth(u, k) = 0 => Paid(S \cup {u}, k) = Paid(S, k)
           /\ \A s \in S :
                 u \notin S \ {s} /\ SourceAmountInMonth(u, k) = SourceAmountInMonth(s, k) =>
                    Paid((S \ {s}) \cup {u}, k) = Paid(S, k)
<1> DEFINE f == [s \in S \cup {u} |-> SourceAmountInMonth(s, k)]
<1>1. \A s \in S \cup {u} : f[s] \in Nat /\ f[s] \in Int
    BY SourcePays
<1>2. ASSUME NEW T \in SUBSET (S \cup {u})
      PROVE  IsFiniteSet(T) /\ Paid(T, k) = SumOf(f, T) /\ SumOf(f, T) \in Int
    <2> DEFINE g == [s \in T |-> SourceAmountInMonth(s, k)]
    <2>1. IsFiniteSet(S \cup {u})
        BY FS_AddElement
    <2>2. IsFiniteSet(T)
        BY <2>1, FS_Subset
    <2>3. \A s \in T : g[s] = f[s] /\ f[s] \in Int
        BY <1>1
    <2>4. SumOf(g, T) = SumOf(f, T) /\ SumOf(f, T) \in Int
        <3> HIDE DEF f, g
        <3> QED
            BY <2>2, <2>3, SumSame, SumTyped
    <2> QED
        BY <2>2, <2>4 DEF Paid
<1>3. ASSUME NEW T \in SUBSET (S \cup {u}), NEW s \in T
      PROVE  Paid(T, k) = f[s] + Paid(T \ {s}, k) /\ Paid(T \ {s}, k) \in Int
    <2>1. T \ {s} \in SUBSET (S \cup {u})
        OBVIOUS
    <2>2. IsFiniteSet(T) /\ \A x \in T : f[x] \in Int
        BY <1>1, <1>2
    <2> HIDE DEF f
    <2>3. SumOf(f, T) = f[s] + SumOf(f, T \ {s})
        BY <2>2, SumRemove
    <2> QED
        BY <1>2, <2>1, <2>3
<1>4. ASSUME u \notin S, SourceAmountInMonth(u, k) = 0
      PROVE  Paid(S \cup {u}, k) = Paid(S, k)
    <2>1. (S \cup {u}) \ {u} = S /\ f[u] = 0
        BY <1>4
    <2>2. Paid(S \cup {u}, k) = f[u] + Paid((S \cup {u}) \ {u}, k)
          /\ Paid((S \cup {u}) \ {u}, k) \in Int
        BY <1>3
    <2> HIDE DEF f
    <2> QED
        BY <2>1, <2>2
<1>5. ASSUME NEW s \in S, u \notin S \ {s}, SourceAmountInMonth(u, k) = SourceAmountInMonth(s, k)
      PROVE  Paid((S \ {s}) \cup {u}, k) = Paid(S, k)
    <2> DEFINE T == (S \ {s}) \cup {u}
    <2>1. T \ {u} = S \ {s} /\ f[u] = f[s]
        BY <1>5
    <2>2. T \in SUBSET (S \cup {u}) /\ u \in T /\ S \in SUBSET (S \cup {u})
        OBVIOUS
    <2> HIDE DEF T, f
    <2>3. Paid(T, k) = f[u] + Paid(T \ {u}, k)
        BY <1>3, <2>2
    <2>4. Paid(S, k) = f[s] + Paid(S \ {s}, k)
        BY <1>3, <2>2
    <2> QED
        BY <2>1, <2>3, <2>4 DEF T
<1> QED
    BY <1>4, <1>5

\* As the properties have it.
LEMMA ItemsSplit ==
    ASSUME NEW E \in SUBSET Expense, NEW T \in SUBSET Template, NEW k \in Month
    PROVE  MonthlyExpenses(E, ExpandRecurring(T, k), k) = OwnItems(E, k) \cup RowItems(T, k)
<1>1. UpTo(k, k)
    BY DEF UpTo
<1> QED
    BY <1>1, ItemsOfMonth, Z3T(40)

-----------------------------------------------------------------------------
(* The history of a month.                                                   *)

ItemsKept(k) ==
    \/ Items(k)' = Items(k)
    \/ {e \in expenses : Ym(e.date) = k} # {e \in expenses' : Ym(e.date) = k}
    \/ Dropped(recurring, recurring') \/ Begun(recurring, recurring', k)
IncomeKept(k) ==
    \/ Income(k)' = Income(k)
    \/ {v \in events : Ym(v.date) = k} # {v \in events' : Ym(v.date) = k}
    \/ Dropped(incomes, incomes') \/ Begun(incomes, incomes', k) \/ Reworked

\* Ending a template takes no row from the months up to the current one.
LEMMA EndedStillDue ==
    ASSUME TypeOK, NEW t \in recurring, t.active, NEW k \in Month, UpTo(k, Current)
    PROVE  /\ Ended(t) \in Template
           /\ Due(Ended(t), k) <=> Due(t, k)
           /\ SyntheticRow(Ended(t), k) = SyntheticRow(t, k)
<1>1. t \in Template /\ Current \in Month
    BY CurrentMonth DEF TypeOK
<1>2. Current # NoMonth
    <2>1. Current[2] \in 1..12
        BY <1>1, MonthsOrdered
    <2> QED
        BY <2>1 DEF NoMonth
<1>3. /\ Ended(t) \in Template /\ Ended(t).active = FALSE /\ Ended(t).endedAt = Current
      /\ Ended(t).created = t.created /\ Ended(t).id = t.id /\ Ended(t).amount = t.amount
      /\ Ended(t).category = t.category /\ Ended(t).day = t.day
    BY <1>1 DEF Ended, Template, Month
<1>4. Due(Ended(t), k) <=> Due(t, k)
    BY <1>2, <1>3 DEF Due, Visible
<1> QED
    BY <1>3, <1>4 DEF SyntheticRow

\* The items of a month.
LEMMA NextItems ==
    ASSUME FiguresInv, TypeOK', [Next]_vars, NEW k \in Month, UpTo(k, Current)
    PROVE  ItemsKept(k)
<1> SUFFICES ASSUME {e \in expenses : Ym(e.date) = k} = {e \in expenses' : Ym(e.date) = k},
                    ~Dropped(recurring, recurring'), ~Begun(recurring, recurring', k)
             PROVE  Items(k)' = Items(k)
    BY DEF ItemsKept
<1> DEFINE own == OwnItems(expenses, k)
           rows(T) == RowItems(T, k)
<1>0. UpTo(k, k)
    BY DEF UpTo
<1>1. Items(k) = own \cup rows(recurring)
    <2>1. expenses \in SUBSET Expense /\ recurring \in SUBSET Template
        BY DEF FiguresInv, SourceInv, TypeOK
    <2>2. MonthlyExpenses(expenses, ExpandRecurring(recurring, k), k) = own \cup rows(recurring)
        BY <2>1, ItemsSplit
    <2> QED
        BY <2>2 DEF Items
<1>2. Items(k)' = own \cup rows(recurring')
    <2>1. expenses' \in SUBSET Expense /\ recurring' \in SUBSET Template
        BY DEF TypeOK
    <2>2. MonthlyExpenses(expenses', ExpandRecurring(recurring', k), k)
            = OwnItems(expenses', k) \cup rows(recurring')
        BY <2>1, ItemsSplit
    <2> QED
        BY <2>2 DEF Items, OwnItems
<1>t. /\ TypeOK /\ TemplatesKnown /\ \A t \in recurring : t \in Template
      /\ ids \in Nat /\ ids <= MaxNew /\ UpTo(Current, Current')
    BY ClockAdvances DEF FiguresInv, SourceInv, TypeOK
<1> HIDE DEF own
<1>3. CASE recurring' = recurring
    BY <1>1, <1>2, <1>3
<1>4. ASSUME NEW a \in Amounts, NEW c \in Picks \cap Categories, NEW d \in DaysOfMonth,
             AddRecurring(a, c, d)
      PROVE  rows(recurring') = rows(recurring)
    <2> DEFINE r == [id |-> ids', amount |-> a, category |-> c, day |-> d,
                     active |-> TRUE, endedAt |-> NoMonth, created |-> Today]
    <2>1. /\ recurring' = Put(recurring, r) /\ ids' = ids + 1 /\ ids' <= MaxNew
          /\ r.id = ids' /\ r.created = Today
        BY <1>4, <1>t, LedgerAssumption DEF AddRecurring
    <2> HIDE DEF r
    <2>2. \A t \in recurring : t.id # r.id
        BY <1>t, <2>1, LedgerAssumption DEF TemplatesKnown
    <2>3. recurring' = recurring \cup {r}
        BY <2>1, <2>2 DEF Put
    <2>4. ~UpTo(Ym(r.created), k)
        BY <2>2, <2>3 DEF Begun
    <2>5. ~Due(r, k)
        BY <2>4 DEF Due
    <2> QED
        BY <2>3, <2>5 DEF RowItems
<1>5. ASSUME NEW t \in recurring, EndRecurring(t)
      PROVE  rows(recurring') = rows(recurring)
    <2>1. /\ recurring' = Put(recurring, Ended(t)) /\ t.active
          /\ Ended(t).id = t.id
        BY <1>5, <1>t DEF EndRecurring, Ended, Template
    <2>2. recurring' = (recurring \ {t}) \cup {Ended(t)}
        BY <1>t, <2>1 DEF Put, TemplatesKnown
    <2>3. Due(Ended(t), k) <=> Due(t, k)
        BY <1>t, <2>1, EndedStillDue
    <2>4. SyntheticRow(Ended(t), k) = SyntheticRow(t, k)
        BY <1>t, <2>1, EndedStillDue
    <2>5. \A e : e \in rows(recurring') <=> e \in rows(recurring)
        BY <2>2, <2>3, <2>4 DEF RowItems
    <2> HIDE DEF rows
    <2> QED
        BY <2>5
<1>6. ASSUME NEW t \in recurring, RemoveRecurring(t)
      PROVE  FALSE
    BY <1>6 DEF RemoveRecurring, Without, Dropped
<1> QED
    BY <1>1, <1>2, <1>3, <1>4, <1>5, <1>6 DEF
        Next, vars, Tick, CaptureWarn, LeaveCapture, CancelEdit,
           CaptureSave, EditExpense, DeleteExpense, AddIncome, SaveEdit,
           StartEdit, EndIncome, RemoveIncome, AddEvent, RemoveEvent, SavePlan

\* The sources of a month.
LEMMA NextPaid ==
    ASSUME FiguresInv, TypeOK', [Next]_vars, NEW k \in Month, UpTo(k, Current),
           ~Dropped(incomes, incomes'), ~Begun(incomes, incomes', k), ~Reworked
    PROVE  Paid(incomes', k) = Paid(incomes, k)
<1>t. /\ incomes \in SUBSET Source /\ IsFiniteSet(incomes) /\ incomes' \in SUBSET Source
      /\ Numbered /\ KnowsEnd /\ \A s \in incomes : s \in Source
      /\ editing = NoSource \/ editing \in Source
      /\ ids \in Nat /\ Current \in Month
    BY ClockAdvances, CurrentMonth DEF FiguresInv, SourceInv, FiniteRegisters, TypeOK
<1>n. ASSUME NEW r \in Source, incomes' = incomes \cup {r}, \A s \in incomes : s.id # r.id
      PROVE  Paid(incomes', k) = Paid(incomes, k)
    <2>1. r \notin incomes /\ ~UpTo(Ym(r.created), k)
        BY <1>n DEF Begun
    <2>2. SourceAmountInMonth(r, k) = 0
        BY <2>1, SourcePays
    <2> QED
        BY <1>n, <1>t, <2>1, <2>2, PaidSame
<1>1. CASE incomes' = incomes
    BY <1>1
<1>2. ASSUME NEW a \in Amounts, NEW p \in Payments, AddIncome(a, p)
      PROVE  Paid(incomes', k) = Paid(incomes, k)
    <2> DEFINE r == [id |-> ids', amount |-> a, frequency |-> p.frequency,
                     payWeekday |-> p.payWeekday, active |-> TRUE, endedAt |-> NoDate,
                     created |-> Today]
    <2>1. incomes' = Put(incomes, r) /\ ids' = ids + 1 /\ r.id = ids'
        BY <1>2 DEF AddIncome
    <2> HIDE DEF r
    <2>2. \A s \in incomes : s.id # r.id
        BY <1>t, <2>1 DEF Numbered
    <2>3. incomes' = incomes \cup {r} /\ r \in Source
        BY <1>t, <2>1, <2>2 DEF Put
    <2> QED
        BY <1>n, <2>2, <2>3
<1>3. ASSUME NEW a \in Amounts, NEW p \in Payments, SaveEdit(a, p)
      PROVE  Paid(incomes', k) = Paid(incomes, k)
    <2> DEFINE r == Edited(a, p)
    <2>1. editing \in Source
        BY <1>3, <1>t DEF SaveEdit
    <2>2. /\ incomes' = Put(incomes, r) /\ r.id = editing.id /\ r.active = editing.active
        BY <1>3, <2>1 DEF SaveEdit, Edited, Source
    <2> HIDE DEF r
    <2>3. r \in incomes' /\ r \in Source
        BY <1>t, <2>2 DEF Put
    <2>4. CASE \E s \in incomes : s.id = r.id
        <3> PICK s \in incomes : s.id = r.id
            BY <2>4
        <3>1. r.active \/ ~s.active
            BY <1>t, <2>2 DEF KnowsEnd
        <3>2. s = r
            BY <2>3, <3>1 DEF Reworked
        <3>3. incomes' = incomes
            BY <1>t, <2>2, <3>2 DEF Put, Numbered
        <3> QED
            BY <3>3
    <2>5. CASE \A s \in incomes : s.id # r.id
        <3>1. incomes' = incomes \cup {r}
            BY <2>2, <2>5 DEF Put
        <3> QED
            BY <1>n, <2>3, <2>5, <3>1
    <2> QED
        BY <2>4, <2>5
<1>4. ASSUME NEW s \in incomes, EndIncome(s)
      PROVE  Paid(incomes', k) = Paid(incomes, k)
    <2> DEFINE r == [s EXCEPT !.active = FALSE, !.endedAt = Today]
    <2>1. s \in Source
        BY <1>t
    <2>2. /\ incomes' = Put(incomes, r) /\ s.active /\ r.id = s.id /\ r.active = FALSE
          /\ r.endedAt = Today /\ r.created = s.created /\ r.amount = s.amount
          /\ r.frequency = s.frequency /\ r.payWeekday = s.payWeekday
        BY <1>4, <2>1 DEF EndIncome, Source
    <2> HIDE DEF r
    <2>3. incomes' = (incomes \ {s}) \cup {r} /\ r \notin incomes \ {s}
        BY <1>t, <2>2 DEF Put, Numbered
    <2>4. r \in Source
        BY <1>t, <2>3
    <2>5. SourceAmountInMonth(r, k) = SourceAmountInMonth(s, k)
        <3>1. Today # NoDate
            <4>1. Today \in Dates
                BY CurrentMonth DEF FiguresInv, SourceInv, TypeOK
            <4>2. Today[2] \in 1..12
                BY <4>1, DateParts
            <4> QED
                BY <4>2 DEF NoDate
        <3>2. SourceEnd(r, k) = Current /\ SourceEnd(s, k) = k
            BY <2>2, <3>1 DEF SourceEnd, Current
        <3>3. ~Before(Current, k) /\ ~Before(k, k)
            BY <1>t, MonthsOrdered DEF UpTo
        <3>4. PayWeekday(r) = PayWeekday(s) /\ (Pays(r, k) <=> Pays(s, k))
            BY <2>2 DEF PayWeekday, Pays
        <3> QED
            BY <2>2, <3>2, <3>3, <3>4 DEF SourceAmountInMonth
    <2> QED
        BY <1>t, <2>3, <2>4, <2>5, PaidSame
<1>5. ASSUME NEW s \in incomes, RemoveIncome(s)
      PROVE  FALSE
    BY <1>5 DEF RemoveIncome, Without, Dropped
<1> QED
    BY <1>1, <1>2, <1>3, <1>4, <1>5 DEF
        Next, vars, Tick, CaptureWarn, LeaveCapture, CancelEdit,
           CaptureSave, EditExpense, DeleteExpense, AddRecurring, EndRecurring, RemoveRecurring,
           StartEdit, AddEvent, RemoveEvent, SavePlan

LEMMA NextIncome ==
    ASSUME FiguresInv, FiguresInv', [Next]_vars, NEW k \in Month, UpTo(k, Current)
    PROVE  IncomeKept(k)
<1> SUFFICES ASSUME {v \in events : Ym(v.date) = k} = {v \in events' : Ym(v.date) = k},
                    ~Dropped(incomes, incomes'), ~Begun(incomes, incomes', k), ~Reworked
             PROVE  Income(k)' = Income(k)
    BY DEF IncomeKept
<1>1. /\ incomes \in SUBSET Source /\ IsFiniteSet(incomes)
      /\ events \in SUBSET Event /\ IsFiniteSet(events)
      /\ incomes' \in SUBSET Source /\ IsFiniteSet(incomes')
      /\ events' \in SUBSET Event /\ IsFiniteSet(events') /\ TypeOK'
    BY DEF FiguresInv, SourceInv, FiniteRegisters, TypeOK
<1>2. Paid(incomes', k) = Paid(incomes, k)
    BY <1>1, NextPaid
<1>3. Income(k) = Paid(incomes, k) + MonthTotal({v \in events : Ym(v.date) = k})
    BY <1>1, IncomeOfMonth DEF Income
<1>4. Income(k)' = Paid(incomes', k) + MonthTotal({v \in events' : Ym(v.date) = k})
    BY <1>1, IncomeOfMonth DEF Income
<1> QED
    BY <1>2, <1>3, <1>4

\* The history of a month up to the current one changes only where the user touches it.
THEOREM HistoryStays == Spec => HistoryKept
<1>1. FiguresInv /\ FiguresInv' /\ [Next]_vars => \A k \in Months : UpTo(k, Current) => HistoryOf(k)
    <2> SUFFICES ASSUME FiguresInv, FiguresInv', [Next]_vars, NEW k \in Months, UpTo(k, Current)
                 PROVE  HistoryOf(k)
        OBVIOUS
    <2>1. k \in Month /\ TypeOK'
        BY LedgerAssumption DEF Month, FiguresInv, SourceInv
    <2>2. ItemsKept(k) /\ IncomeKept(k)
        BY <2>1, NextItems, NextIncome
    <2> QED
        BY <2>2 DEF HistoryOf, ItemsKept, IncomeKept
<1> QED
    BY <1>1, RegistersSound, PTL DEF Spec, HistoryKept

-----------------------------------------------------------------------------
(* The series of months.                                                     *)

\* Every row there is by now, expense or recurring.
Rows == expenses \cup ExpandRecurring(recurring, Current)

LEMMA RowsHold ==
    ASSUME FiguresInv
    PROVE  /\ IsFiniteSet(Rows) /\ Current \in Month
           /\ \A e \in Rows : /\ e.amount \in Nat /\ e.category \in Categories \cup Legacy
                              /\ e.date \in Dates /\ Ym(e.date) \in Month
                              /\ UpTo(Ym(e.date), Current)
           /\ \A k \in Month : UpTo(k, Current) =>
                 /\ OwnItems(Rows, k) = Items(k)
                 /\ MonthlyExpenses(expenses, ExpandRecurring(recurring, Current), k) = Items(k)
<1>1. /\ expenses \in SUBSET Expense /\ recurring \in SUBSET Template
      /\ IsFiniteSet(expenses) /\ IsFiniteSet(recurring) /\ Current \in Month
      /\ Today \in Dates /\ Today[3] <= LastDay(<<Today[1], Today[2]>>)
      /\ \A e \in expenses : DateUpTo(e.date, Today)
    BY CurrentMonth DEF FiguresInv, SourceInv, TypeOK, FiniteRegisters
<1>2. IsFiniteSet(Rows)
    BY <1>1, RowsAre, FS_Union DEF Rows
<1>3. ASSUME NEW e \in expenses
      PROVE  /\ e.amount \in Nat /\ e.category \in Categories \cup Legacy
             /\ e.date \in Dates /\ Ym(e.date) \in Month /\ UpTo(Ym(e.date), Current)
    <2>1. e.amount \in Nat /\ e.category \in Categories \cup Legacy /\ e.date \in Dates
        BY <1>1, LedgerAssumption DEF Expense
    <2>2. Ym(e.date) \in Month /\ UpTo(Ym(e.date), Ym(Today))
        BY <1>1, <2>1, MonthOfDate
    <2> QED
        BY <2>1, <2>2 DEF Current
<1>4. ASSUME NEW e \in ExpandRecurring(recurring, Current)
      PROVE  /\ e.amount \in Nat /\ e.category \in Categories \cup Legacy
             /\ e.date \in Dates /\ Ym(e.date) \in Month /\ UpTo(Ym(e.date), Current)
    <2>1. PICK t \in recurring, k \in Month : UpTo(k, Current) /\ e = SyntheticRow(t, k)
        BY <1>1, RowsAre
    <2> QED
        BY <1>1, <2>1, RowOfMonth
<1>5. ASSUME NEW k \in Month, UpTo(k, Current)
      PROVE  /\ OwnItems(Rows, k) = Items(k)
             /\ MonthlyExpenses(expenses, ExpandRecurring(recurring, Current), k) = Items(k)
    <2>1. MonthlyExpenses(expenses, ExpandRecurring(recurring, Current), k)
            = MonthlyExpenses(expenses, ExpandRecurring(recurring, k), k)
        BY <1>1, <1>5, ItemsOfMonth
    <2>2. OwnItems(Rows, k) = MonthlyExpenses(expenses, ExpandRecurring(recurring, Current), k)
        BY DEF OwnItems, Rows, MonthlyExpenses
    <2> QED
        BY <2>1, <2>2 DEF Items
<1> QED
    BY <1>1, <1>2, <1>3, <1>4, <1>5 DEF Rows

\* The months a source pays in by now.
LEMMA SourceMonths ==
    ASSUME FiguresInv, NEW s \in incomes
    PROVE  /\ s \in Source /\ Ym(s.created) \in Month /\ SourceEnd(s, Current) \in Month
           /\ UpTo(SourceEnd(s, Current), Current)
           /\ UpTo(Ym(Days[1]), Ym(s.created))
           /\ \A k \in Month : UpTo(k, Current) /\ SourceAmountInMonth(s, k) # 0 =>
                 k \in MonthSpan(Ym(s.created), SourceEnd(s, Current))
<1>1. /\ s \in Source /\ Within(s, Today) /\ Current \in Month /\ Today \in Dates
      /\ Today[3] <= LastDay(<<Today[1], Today[2]>>) /\ Days[1] \in Dates
      /\ Ym(Days[1]) \in Month /\ Current = Ym(Today)
    BY CurrentMonth DEF FiguresInv, SourceInv, TypeOK, Timely, Current
<1>2. s.created \in Dates /\ (s.endedAt # NoDate => s.endedAt \in Dates)
    BY <1>1 DEF Source
<1>3. Ym(s.created) \in Month /\ UpTo(Ym(s.created), Current)
    BY <1>1, <1>2, MonthOfDate DEF Within
<1>4. SourceEnd(s, Current) \in Month
    BY <1>1, SourcePays
<1>5. s.endedAt # NoDate => UpTo(Ym(s.endedAt), Current)
    BY <1>1, <1>2, MonthOfDate DEF Within
<1>6. UpTo(SourceEnd(s, Current), Current)
    BY <1>3, <1>5 DEF SourceEnd, UpTo
<1>7. UpTo(Ym(Days[1]), Ym(s.created))
    <2>1. Days[1][3] <= LastDay(<<Days[1][1], Days[1][2]>>)
        BY LedgerAssumption
    <2> DEFINE a == Days[1]
               b == s.created
    <2>2. /\ a[1] \in Nat /\ a[2] \in 1..12 /\ a[3] \in Nat
          /\ b[1] \in Nat /\ b[2] \in 1..12 /\ b[3] \in Nat
        BY <1>1, <1>2, DateParts
    <2>3. Ym(a) = <<a[1], a[2]>> /\ DateUpTo(a, b)
        BY <1>1, <2>1, MonthOfDate DEF Within
    <2> HIDE DEF a, b
    <2>4. UpTo(<<a[1], a[2]>>, <<b[1], b[2]>>)
        BY <2>2, <2>3 DEF DateUpTo, UpTo, Before
    <2>5. <<b[1], b[2]>> \in Month /\ <<a[1], a[2]>> \in Month
        BY <2>2 DEF Month
    <2>6. UpTo(<<b[1], b[2]>>, Ym(b)) /\ Ym(b) \in Month
        <3> DEFINE l == <<b[1], b[2]>>
        <3>1. Ym(b) = l \/ Ym(b) = NextMonth(l)
            BY DEF Ym
        <3>2. l \in Month
            BY <2>5
        <3> HIDE DEF l
        <3>3. UpTo(l, Ym(b)) /\ Ym(b) \in Month
            BY <3>1, <3>2, MonthsOrdered DEF UpTo
        <3> QED
            BY <3>3 DEF l
    <2>7. UpTo(Ym(a), Ym(b))
        BY <2>3, <2>4, <2>5, <2>6, MonthsTransitive
    <2> QED
        BY <2>7 DEF a, b
<1>8. ASSUME NEW k \in Month, UpTo(k, Current), SourceAmountInMonth(s, k) # 0
      PROVE  k \in MonthSpan(Ym(s.created), SourceEnd(s, Current))
    <2>1. UpTo(Ym(s.created), k) /\ UpTo(k, SourceEnd(s, k))
        BY <1>1, <1>8, SourcePays
    <2>2. UpTo(k, SourceEnd(s, Current))
        BY <1>8, <2>1 DEF SourceEnd
    <2> QED
        BY <1>3, <1>4, <2>1, <2>2, SpanHolds
<1> QED
    BY <1>1, <1>3, <1>4, <1>6, <1>7, <1>8

\* The series has the months with rows, with sources and with one-off income, and in each
\* its spend, its income and what is left.
LEMMA SeriesHolds ==
    ASSUME FiguresInv
    PROVE  /\ IsFiniteSet(DOMAIN Series) /\ DOMAIN Series \subseteq Month
           /\ \A e \in Rows : Ym(e.date) \in DOMAIN Series
           /\ \A s \in incomes :
                 MonthSpan(Ym(s.created), SourceEnd(s, Current)) \subseteq DOMAIN Series
           /\ \A v \in events : Ym(v.date) \in DOMAIN Series /\ Ym(v.date) \in Month
           /\ \A k \in DOMAIN Series :
                 /\ UpTo(k, Current) \/ \E v \in events : k = Ym(v.date)
                 /\ UpTo(k, NextMonth(Current))
                 /\ Series[k].spend = MonthTotal(OwnItems(Rows, k))
                 /\ Series[k].net = Income(k) - MonthTotal(OwnItems(Rows, k))
<1> DEFINE Y(S) == {Ym(e.date) : e \in S}
           spans == {MonthSpan(Ym(s.created), SourceEnd(s, Current)) : s \in incomes}
<1>1. DOMAIN Series = Y(Rows) \cup Y(events) \cup UNION spans
    BY DEF Series, MonthlyFigures, FigureMonths, Rows
<1>2. \A k \in DOMAIN Series :
          /\ Series[k].spend = MonthTotal(OwnItems(Rows, k))
          /\ Series[k].net = Income(k) - MonthTotal(OwnItems(Rows, k))
    BY DEF Series, MonthlyFigures, Rows, OwnItems, Income
<1>3. /\ IsFiniteSet(incomes) /\ IsFiniteSet(events) /\ events \in SUBSET Event
      /\ Current \in Month /\ NextMonth(Current) \in Month /\ UpTo(Current, NextMonth(Current))
    BY CurrentMonth DEF FiguresInv, SourceInv, TypeOK, FiniteRegisters
<1>4. IsFiniteSet(Rows) /\ \A e \in Rows : Ym(e.date) \in Month /\ UpTo(Ym(e.date), Current)
    BY RowsHold
<1>5. \A v \in events : Ym(v.date) \in Month /\ UpTo(Ym(v.date), NextMonth(Current))
    <2> TAKE v \in events
    <2>1. v.date \in Dates
        BY <1>3 DEF Event
    <2> QED
        BY <2>1, MonthOfDate DEF FiguresInv, Timely
<1>6. \A s \in incomes :
          LET span == MonthSpan(Ym(s.created), SourceEnd(s, Current))
          IN  IsFiniteSet(span) /\ \A k \in span : k \in Month /\ UpTo(k, Current)
    <2> TAKE s \in incomes
    <2> DEFINE first == Ym(s.created)
               last == SourceEnd(s, Current)
    <2>1. first \in Month /\ last \in Month /\ UpTo(last, Current)
        BY SourceMonths
    <2> HIDE DEF first, last
    <2>2. /\ MonthSpan(first, last) = {k \in Month : UpTo(first, k) /\ UpTo(k, last)}
          /\ IsFiniteSet(MonthSpan(first, last))
        BY <2>1, SpanHolds
    <2>3. \A k \in MonthSpan(first, last) : k \in Month /\ UpTo(k, Current)
        BY <1>3, <2>1, <2>2, MonthsTransitive
    <2> QED
        BY <2>2, <2>3 DEF first, last
<1>7. \A S : IsFiniteSet(S) => IsFiniteSet(Y(S))
    <2> SUFFICES ASSUME NEW S, IsFiniteSet(S) PROVE IsFiniteSet(Y(S))
        OBVIOUS
    <2> DEFINE f == [e \in S |-> Ym(e.date)]
    <2>1. Y(S) = {f[e] : e \in S}
        OBVIOUS
    <2> HIDE DEF f
    <2>2. IsFiniteSet({f[e] : e \in S})
        BY ImageFinite
    <2> QED
        BY <2>1, <2>2
<1>8. IsFiniteSet(UNION spans)
    <2> DEFINE f == [s \in incomes |-> MonthSpan(Ym(s.created), SourceEnd(s, Current))]
    <2>1. spans = {f[s] : s \in incomes}
        OBVIOUS
    <2>2. \A span \in spans : IsFiniteSet(span)
        BY <1>6
    <2> HIDE DEF f, spans
    <2>3. IsFiniteSet({f[s] : s \in incomes})
        BY <1>3, ImageFinite
    <2> QED
        BY <2>1, <2>2, <2>3, FS_UNION
<1>9. IsFiniteSet(DOMAIN Series)
    <2>1. IsFiniteSet(Y(Rows)) /\ IsFiniteSet(Y(events))
        BY <1>3, <1>4, <1>7
    <2> HIDE DEF Y, spans
    <2>2. IsFiniteSet(Y(Rows) \cup Y(events))
        BY <2>1, FS_Union
    <2>3. IsFiniteSet((Y(Rows) \cup Y(events)) \cup UNION spans)
        BY <1>8, <2>2, FS_Union
    <2> QED
        BY <1>1, <2>3
<1>10. \A k \in DOMAIN Series :
          /\ k \in Month /\ UpTo(k, NextMonth(Current))
          /\ UpTo(k, Current) \/ \E v \in events : k = Ym(v.date)
    <2> SUFFICES ASSUME NEW k \in DOMAIN Series
                 PROVE  /\ k \in Month /\ UpTo(k, NextMonth(Current))
                        /\ UpTo(k, Current) \/ \E v \in events : k = Ym(v.date)
        OBVIOUS
    <2>1. CASE k \in Y(events)
        BY <1>5, <2>1
    <2>2. CASE k \in Y(Rows) \cup UNION spans
        <3>1. k \in Month /\ UpTo(k, Current)
            BY <1>4, <1>6, <2>2
        <3> QED
            BY <1>3, <3>1, MonthsTransitive
    <2> QED
        BY <1>1, <2>1, <2>2
<1>11. /\ \A e \in Rows : Ym(e.date) \in DOMAIN Series
       /\ \A s \in incomes : MonthSpan(Ym(s.created), SourceEnd(s, Current)) \subseteq DOMAIN Series
       /\ \A v \in events : Ym(v.date) \in DOMAIN Series
    BY <1>1
<1> QED
    BY <1>2, <1>5, <1>9, <1>10, <1>11

\* Income of a month comes from an event of the month or a source that pays in it.
LEMMA IncomeFrom ==
    ASSUME FiguresInv, NEW k \in Month, Income(k) # 0
    PROVE  \/ \E v \in events : Ym(v.date) = k
           \/ \E s \in incomes : SourceAmountInMonth(s, k) # 0
<1>1. /\ incomes \in SUBSET Source /\ IsFiniteSet(incomes)
      /\ events \in SUBSET Event /\ IsFiniteSet(events)
    BY DEF FiguresInv, SourceInv, FiniteRegisters, TypeOK
<1> DEFINE due == {v \in events : Ym(v.date) = k}
           f == [s \in incomes |-> SourceAmountInMonth(s, k)]
<1>2. Income(k) = Paid(incomes, k) + MonthTotal(due)
    BY <1>1, IncomeOfMonth DEF Income
<1>3. CASE due # {}
    BY <1>3
<1>4. CASE due = {}
    <2>1. MonthTotal(due) = 0
        <3>1. IsFiniteSet(due) /\ \A v \in due : f[v] = v.amount
            BY <1>4, FS_EmptySet
        <3>2. MonthTotal(due) = SumOf(f, due) /\ SumOf(f, due) = 0
            <4> HIDE DEF due, f
            <4> QED
                BY <1>4, <3>1, TotalIsSum, SumPick
        <3> QED
            BY <3>2
    <2>2. Paid(incomes, k) # 0
        BY <1>2, <2>1
    <2>3. PICK s \in incomes : f[s] # 0
        <3> SUFFICES ASSUME \A s \in incomes : f[s] = 0 PROVE FALSE
            OBVIOUS
        <3>1. SumOf(f, incomes) = 0
            <4> HIDE DEF f
            <4> QED
                BY <1>1, SumZero
        <3> QED
            BY <2>2, <3>1 DEF Paid
    <2> QED
        BY <2>3
<1> QED
    BY <1>3, <1>4

\* A month with income, up to the current one, is in the series.
LEMMA IncomeInSeries ==
    ASSUME FiguresInv, NEW k \in Month, UpTo(k, Current), Income(k) # 0
    PROVE  k \in DOMAIN Series
<1>1. CASE \E v \in events : Ym(v.date) = k
    BY <1>1, SeriesHolds
<1>2. CASE \E s \in incomes : SourceAmountInMonth(s, k) # 0
    <2>1. PICK s \in incomes : SourceAmountInMonth(s, k) # 0
        BY <1>2
    <2>2. k \in MonthSpan(Ym(s.created), SourceEnd(s, Current))
        BY <2>1, SourceMonths
    <2> QED
        BY <2>2, SeriesHolds
<1> QED
    BY <1>1, <1>2, IncomeFrom

\* A month with items is offered by the browser and by the dashboard.
LEMMA ItemsOffered ==
    ASSUME FiguresInv, NEW k \in Month, UpTo(k, Current), Items(k) # {}
    PROVE  k \in BrowserMonths(expenses, recurring, Current) /\ k \in DOMAIN Series
<1>1. PICK e : e \in Items(k)
    OBVIOUS
<1>2. e \in Rows /\ Ym(e.date) = k
    <2>1. e \in OwnItems(Rows, k)
        BY <1>1, RowsHold
    <2> QED
        BY <2>1 DEF OwnItems
<1>3. k \in DOMAIN Series
    BY <1>2, SeriesHolds
<1>4. CASE e \in expenses
    BY <1>2, <1>3, <1>4 DEF BrowserMonths
<1>5. CASE e \in ExpandRecurring(recurring, Current)
    <2>1. recurring \in SUBSET Template /\ Current \in Month
        BY RowsHold DEF FiguresInv, SourceInv, TypeOK
    <2>2. PICK t \in recurring, j \in Month :
             Due(t, j) /\ UpTo(j, Current) /\ e = SyntheticRow(t, j)
        <3>1. \A r : r \in ExpandRecurring(recurring, Current) <=>
                 \E t \in recurring, j \in Month :
                    Due(t, j) /\ UpTo(j, Current) /\ r = SyntheticRow(t, j)
            BY <2>1, RowsAre
        <3> QED
            BY <1>5, <3>1
    <2>3. j = k
        BY <1>2, <2>1, <2>2, RowOfMonth
    <2> DEFINE first == Ym(t.created)
               last == IF t.active THEN Current
                       ELSE IF t.endedAt # NoMonth THEN t.endedAt ELSE Ym(t.created)
    <2>4. Visible(t) /\ UpTo(first, k) /\ (t.active \/ UpTo(k, t.endedAt))
        BY <2>2, <2>3 DEF Due
    <2>5. first \in Month /\ (t.active \/ t.endedAt \in Month)
        BY <2>1, <2>4, DueMonths
    <2>6. t.active \/ t.endedAt # NoMonth
        BY <2>4 DEF Visible
    <2>7. last \in Month /\ UpTo(k, last)
        BY <2>1, <2>4, <2>5, <2>6
    <2>8. k \in MonthSpan(first, last)
        <3> HIDE DEF first, last
        <3> QED
            BY <2>4, <2>5, <2>7, SpanHolds
    <2>9. MonthSpan(first, last) \subseteq BrowserMonths(expenses, recurring, Current)
        BY DEF BrowserMonths
    <2> QED
        BY <1>3, <2>8, <2>9
<1> QED
    BY <1>2, <1>3, <1>4, <1>5 DEF Rows

\* Whatever has been recorded can be looked at.
THEOREM EverythingReachable == Spec => []MonthsReachable
<1>1. FiguresInv => MonthsReachable
    <2> SUFFICES ASSUME FiguresInv, NEW k \in Months, UpTo(k, Current)
                 PROVE  /\ Items(k) # {} => k \in BrowserMonths(expenses, recurring, Current)
                        /\ Items(k) # {} \/ Income(k) # 0 => k \in DashboardMonths(Series, Current)
        BY DEF MonthsReachable
    <2>1. k \in Month
        BY LedgerAssumption DEF Month
    <2> QED
        BY <2>1, ItemsOffered, IncomeInSeries DEF DashboardMonths
<1> QED
    BY <1>1, RegistersSound, PTL

-----------------------------------------------------------------------------
(* The views of a month.                                                     *)

LEMMA FewFinite ==
    ASSUME NEW a, NEW b, NEW c, NEW d, NEW e
    PROVE  IsFiniteSet({a, b, c, d, e})
<1>1. IsFiniteSet({a})
    BY FS_Singleton
<1>2. IsFiniteSet({a} \cup {b})
    BY <1>1, FS_AddElement
<1>3. IsFiniteSet(({a} \cup {b}) \cup {c})
    BY <1>2, FS_AddElement
<1>4. IsFiniteSet((({a} \cup {b}) \cup {c}) \cup {d})
    BY <1>3, FS_AddElement
<1>5. IsFiniteSet(((({a} \cup {b}) \cup {c}) \cup {d}) \cup {e})
    BY <1>4, FS_AddElement
<1>6. ((({a} \cup {b}) \cup {c}) \cup {d}) \cup {e} = {a, b, c, d, e}
    OBVIOUS
<1> QED
    BY <1>5, <1>6

\* The taxonomy is finite, and every category, old ones too, has a bucket.
LEMMA TaxonomyHolds ==
    /\ IsFiniteSet(Buckets) /\ IsFiniteSet(Categories)
    /\ \A c \in Categories \cup Legacy : BucketFor(c) \in Buckets
<1>1. Buckets = {"Fixed", "Everyday", "Social", "Lifestyle"}
    BY DEF Buckets, BucketOf
<1>2. IsFiniteSet(Buckets)
    <2>1. Buckets = {"Fixed", "Everyday", "Social", "Lifestyle", "Fixed"}
        BY <1>1
    <2> QED
        BY <2>1, FewFinite
<1>3. IsFiniteSet(Categories)
    <2>1. IsFiniteSet(BucketOf.Fixed)
        <3>1. BucketOf.Fixed = {"Rent", "Bills", "Insurance", "Rent", "Rent"}
            BY DEF BucketOf
        <3>2. IsFiniteSet({"Rent", "Bills", "Insurance", "Rent", "Rent"})
            BY FewFinite
        <3> QED
            BY <3>1, <3>2
    <2>2. IsFiniteSet(BucketOf.Everyday)
        <3>1. BucketOf.Everyday =
                 {"Groceries", "Transport & Travel", "Health", "Personal care", "Pets"}
            BY DEF BucketOf
        <3>2. IsFiniteSet({"Groceries", "Transport & Travel", "Health", "Personal care", "Pets"})
            BY FewFinite
        <3> QED
            BY <3>1, <3>2
    <2>3. IsFiniteSet(BucketOf.Social)
        <3>1. BucketOf.Social = {"Restaurants & drinks", "Entertainment & culture", "Gifts",
                                 "Family & kids", "Gifts"}
            BY DEF BucketOf
        <3>2. IsFiniteSet({"Restaurants & drinks", "Entertainment & culture", "Gifts",
                            "Family & kids", "Gifts"})
            BY FewFinite
        <3> QED
            BY <3>1, <3>2
    <2>4. IsFiniteSet(BucketOf.Lifestyle)
        <3>1. BucketOf.Lifestyle = {"Shopping & clothes", "Subscriptions", "Education & books",
                                    "Miscellaneous", "Subscriptions"}
            BY DEF BucketOf
        <3>2. IsFiniteSet({"Shopping & clothes", "Subscriptions", "Education & books",
                            "Miscellaneous", "Subscriptions"})
            BY FewFinite
        <3> QED
            BY <3>1, <3>2
    <2>5. \A b \in Buckets : IsFiniteSet(BucketOf[b])
        BY <1>1, <2>1, <2>2, <2>3, <2>4
    <2>6. IsFiniteSet({BucketOf[b] : b \in Buckets})
        BY <1>2, ImageFinite
    <2> QED
        BY <2>5, <2>6, FS_UNION DEF Categories
<1>4. ASSUME NEW c \in Categories \cup Legacy
      PROVE  BucketFor(c) \in Buckets
    <2>1. \E b \in Buckets : c \in BucketOf[b] \cup LegacyOf[b]
        BY DEF Categories, Legacy
    <2> QED
        BY <2>1 DEF BucketFor
<1> QED
    BY <1>2, <1>3, <1>4

\* The items of a month up to the current one.
LEMMA ItemsHold ==
    ASSUME FiguresInv, NEW k \in Month
    PROVE  /\ IsFiniteSet(Items(k)) /\ MonthTotal(Items(k)) \in Nat
           /\ \A e \in Items(k) : e.amount \in Nat /\ e.category \in Categories \cup Legacy
<1>1. /\ expenses \in SUBSET Expense /\ recurring \in SUBSET Template
      /\ IsFiniteSet(expenses) /\ IsFiniteSet(recurring)
    BY DEF FiguresInv, SourceInv, TypeOK, FiniteRegisters
<1>2. UpTo(k, k)
    BY DEF UpTo
<1>3. /\ IsFiniteSet(Items(k))
      /\ \A e \in Items(k) : e.amount \in Nat /\ e.category \in Categories \cup Legacy
    BY <1>1, <1>2, ItemsOfMonth DEF Items
<1> QED
    BY <1>3, TotalNatural

\* The rows by category.
LEMMA CategoriesAgree ==
    ASSUME FiguresInv, NEW k \in Month
    PROVE  LET byCat == ByCategory(Items(k))
               ofCat(c) == byCat[c]
           IN  MapThenSumSet(ofCat, DOMAIN byCat) = MonthTotal(Items(k))
<1> DEFINE items == Items(k)
           byCat == ByCategory(items)
           ofCat(c) == byCat[c]
           K == DOMAIN byCat
           m == [e \in items |-> e.category]
<1>1. IsFiniteSet(items) /\ \A e \in items : e.amount \in Nat
    BY ItemsHold
<1>2. K = Categories \cup {m[e] : e \in items}
    BY DEF ByCategory
<1>3. IsFiniteSet(K)
    <2> HIDE DEF m, items, K
    <2>1. IsFiniteSet({m[e] : e \in items})
        BY <1>1, ImageFinite
    <2> QED
        BY <1>2, <2>1, TaxonomyHolds, FS_Union
<1>4. \A c \in K : byCat[c] = MonthTotal(Grouped(m, items, {c}))
    <2>1. \A c : Grouped(m, items, {c}) = {e \in items : e.category \in {c}}
        BY DEF Grouped
    <2> QED
        BY <2>1 DEF ByCategory, Sum
<1>5. Grouped(m, items, K) = items
    BY <1>2 DEF Grouped
<1>6. MapThenSumSet(ofCat, K) = SumOf(byCat, K)
    BY DEF MapThenSumSet, MapThenFoldSet, SumOf, Sums, Pick
<1>7. SumOf(byCat, K) = MonthTotal(Grouped(m, items, K))
    <2> HIDE DEF items, byCat, K, m
    <2> QED
        BY <1>1, <1>3, <1>4, TotalGroups
<1> QED
    BY <1>5, <1>6, <1>7

\* The days of the heatmap.
LEMMA DaysAgree ==
    ASSUME FiguresInv, NEW k \in Month, UpTo(k, Current)
    PROVE  LET daily == DailyTotals(expenses, recurring, Current)
               ofDay(d) == daily[d]
           IN  MapThenSumSet(ofDay, {d \in DOMAIN daily : Ym(d) = k}) = MonthTotal(Items(k))
<1> DEFINE daily == DailyTotals(expenses, recurring, Current)
           ofDay(d) == daily[d]
           K == {d \in DOMAIN daily : Ym(d) = k}
           m == [e \in Rows |-> e.date]
<1>1. IsFiniteSet(Rows) /\ (\A e \in Rows : e.amount \in Nat) /\ OwnItems(Rows, k) = Items(k)
    BY RowsHold
<1>2. /\ DOMAIN daily = {m[e] : e \in Rows}
      /\ \A d \in DOMAIN daily : daily[d] = MonthTotal({e \in Rows : e.date = d})
    BY DEF DailyTotals, Rows
<1>3. IsFiniteSet(K)
    <2>1. IsFiniteSet(DOMAIN daily)
        <3> HIDE DEF m, daily
        <3> QED
            BY <1>1, <1>2, ImageFinite
    <2> QED
        BY <2>1, FS_Subset
<1>4. \A d \in K : daily[d] = MonthTotal(Grouped(m, Rows, {d}))
    <2>1. \A d : Grouped(m, Rows, {d}) = {e \in Rows : e.date = d}
        BY DEF Grouped
    <2> HIDE DEF m, daily
    <2> QED
        BY <1>2, <2>1
<1>5. Grouped(m, Rows, K) = Items(k)
    <2>1. \A e \in Rows : m[e] \in K <=> Ym(e.date) = k
        BY <1>2
    <2> HIDE DEF m, K
    <2> QED
        BY <1>1, <2>1 DEF Grouped, OwnItems
<1>6. MapThenSumSet(ofDay, K) = SumOf(daily, K)
    <2> HIDE DEF K
    <2> QED
        BY DEF MapThenSumSet, MapThenFoldSet, SumOf, Sums, Pick
<1>7. SumOf(daily, K) = MonthTotal(Grouped(m, Rows, K))
    <2> HIDE DEF daily, K, m
    <2> QED
        BY <1>1, <1>3, <1>4, TotalGroups
<1> QED
    BY <1>5, <1>6, <1>7

\* The buckets of the category trend.
LEMMA BucketsAgree ==
    ASSUME FiguresInv, NEW k \in Month, UpTo(k, Current)
    PROVE  LET trends == CategoryTrends(expenses, recurring, Current, 12)
               ofBucket(b) == trends[k][b]
           IN  k \in DOMAIN trends => MapThenSumSet(ofBucket, Buckets) = MonthTotal(Items(k))
<1> DEFINE trends == CategoryTrends(expenses, recurring, Current, 12)
           ofBucket(b) == trends[k][b]
           items == Items(k)
           m == [e \in items |-> BucketFor(e.category)]
<1> SUFFICES ASSUME k \in DOMAIN trends
             PROVE  MapThenSumSet(ofBucket, Buckets) = MonthTotal(items)
    OBVIOUS
<1>1. /\ IsFiniteSet(items) /\ \A e \in items : e.amount \in Nat
      /\ \A e \in items : e.category \in Categories \cup Legacy
    BY ItemsHold
<1>2. MonthlyExpenses(expenses, ExpandRecurring(recurring, Current), k) = items
    BY RowsHold
<1>3. \A b \in Buckets : trends[k][b] = MonthTotal({e \in items : BucketFor(e.category) = b})
    <2> HIDE DEF items
    <2> QED
        BY <1>2 DEF CategoryTrends
<1>4. \A b \in Buckets : trends[k][b] = MonthTotal(Grouped(m, items, {b}))
    <2>1. \A b : Grouped(m, items, {b}) = {e \in items : BucketFor(e.category) = b}
        BY DEF Grouped
    <2> HIDE DEF m, items, trends
    <2> QED
        BY <1>3, <2>1
<1>5. Grouped(m, items, Buckets) = items
    BY <1>1, TaxonomyHolds DEF Grouped
<1> DEFINE own == trends[k]
<1>6. MapThenSumSet(ofBucket, Buckets) = SumOf(own, Buckets)
    BY DEF MapThenSumSet, MapThenFoldSet, SumOf, Sums, Pick
<1>7. SumOf(own, Buckets) = MonthTotal(Grouped(m, items, Buckets))
    <2>1. \A b \in Buckets : own[b] = MonthTotal(Grouped(m, items, {b}))
        BY <1>4
    <2> HIDE DEF own, items, m
    <2> QED
        BY <1>1, <2>1, TaxonomyHolds, TotalGroups
<1> QED
    BY <1>5, <1>6, <1>7

\* The rows the browser lists, and the series.
LEMMA RowsAndSeriesAgree ==
    ASSUME FiguresInv, NEW k \in Month, UpTo(k, Current)
    PROVE  /\ MonthTotal(BrowseExpenses(expenses, recurring, k, Categories \cup Legacy))
                 = MonthTotal(Items(k))
           /\ IF k \in DOMAIN Series THEN Series[k].spend = MonthTotal(Items(k))
              ELSE MonthTotal(Items(k)) = 0
<1>1. BrowseExpenses(expenses, recurring, k, Categories \cup Legacy) = Items(k)
    BY ItemsHold DEF BrowseExpenses, Items
<1>2. k \in DOMAIN Series => Series[k].spend = MonthTotal(Items(k))
    BY SeriesHolds, RowsHold
<1>3. ASSUME k \notin DOMAIN Series
      PROVE  MonthTotal(Items(k)) = 0
    <2> DEFINE f == [e \in {} |-> 0]
    <2>1. Items(k) = {}
        BY <1>3, ItemsOffered
    <2>2. IsFiniteSet({}) /\ \A e \in {} : f[e] = e.amount
        BY FS_EmptySet
    <2> HIDE DEF f
    <2>3. MonthTotal({}) = SumOf(f, {}) /\ SumOf(f, {}) = 0
        BY <2>2, TotalIsSum, SumPick
    <2> QED
        BY <2>1, <2>3
<1> QED
    BY <1>1, <1>2, <1>3

\* All views agree on what was spent in a month.
THEOREM ViewsTellTheSame == Spec => []ViewsAgree
<1>1. FiguresInv => ViewsAgree
    <2> SUFFICES ASSUME FiguresInv PROVE ViewsAgree
        OBVIOUS
    <2>1. \A k \in Months : k \in Month
        BY LedgerAssumption DEF Month
    <2>2. \A k \in {j \in Months : UpTo(j, Current)} :
             LET byCat == ByCategory(Items(k))
                 ofCat(c) == byCat[c]
             IN  MapThenSumSet(ofCat, DOMAIN byCat) = MonthTotal(Items(k))
        BY <2>1, CategoriesAgree
    <2>3. \A k \in {j \in Months : UpTo(j, Current)} :
             LET daily == DailyTotals(expenses, recurring, Current)
                 ofDay(d) == daily[d]
             IN  MapThenSumSet(ofDay, {d \in DOMAIN daily : Ym(d) = k}) = MonthTotal(Items(k))
        BY <2>1, DaysAgree
    <2>4. \A k \in {j \in Months : UpTo(j, Current)} :
             LET trends == CategoryTrends(expenses, recurring, Current, 12)
                 ofBucket(b) == trends[k][b]
             IN  k \in DOMAIN trends =>
                    MapThenSumSet(ofBucket, Buckets) = MonthTotal(Items(k))
        BY <2>1, BucketsAgree
    <2>5. \A k \in {j \in Months : UpTo(j, Current)} :
             /\ MonthTotal(BrowseExpenses(expenses, recurring, k, Categories \cup Legacy))
                   = MonthTotal(Items(k))
             /\ IF k \in DOMAIN Series THEN Series[k].spend = MonthTotal(Items(k))
                ELSE MonthTotal(Items(k)) = 0
        BY <2>1, RowsAndSeriesAgree
    <2> QED
        BY <2>2, <2>3, <2>4, <2>5 DEF ViewsAgree
<1> QED
    BY <1>1, RegistersSound, PTL

-----------------------------------------------------------------------------
(* The flows of a month.                                                     *)

Groups == DOMAIN FlowGroups
GroupFor(c) == IF \E g \in Groups : c \in FlowGroups[g]
               THEN CHOOSE g \in Groups : c \in FlowGroups[g] ELSE "other"

\* No two groups of the flow chart share a category, and those the plan has, too, hold
\* the same in the plan's table.
LEMMA GroupsHold ==
    /\ IsFiniteSet(Groups) /\ "other" \notin Groups /\ "saved" \notin Groups
    /\ \A c : \A g \in Groups : c \in FlowGroups[g] <=> GroupFor(c) = g
    /\ \A b \in PlanFields : b \in Groups /\ PlanBuckets[b] = FlowGroups[b]
<1>1. Groups = {"rent", "bills", "insurance", "groceries", "goingOut", "shopping", "subscriptions"}
    BY DEF Groups, FlowGroups
<1>2. IsFiniteSet(Groups)
    <2>1. IsFiniteSet({"rent", "bills", "insurance", "groceries", "goingOut"})
        BY FewFinite
    <2>2. IsFiniteSet({"shopping", "subscriptions", "rent", "rent", "rent"})
        BY FewFinite
    <2>3. Groups = {"rent", "bills", "insurance", "groceries", "goingOut"}
                     \cup {"shopping", "subscriptions", "rent", "rent", "rent"}
        BY <1>1
    <2> QED
        BY <2>1, <2>2, <2>3, FS_Union
<1>7. /\ FlowGroups["rent"] = {"Rent"} /\ FlowGroups["bills"] = {"Bills"}
      /\ FlowGroups["insurance"] = {"Insurance"} /\ FlowGroups["groceries"] = {"Groceries", "Food"}
      /\ FlowGroups["goingOut"] = {"Restaurants & drinks", "Entertainment & culture",
                                   "Entertainment & Subscriptions"}
      /\ FlowGroups["shopping"] = {"Shopping & clothes", "Shopping"}
      /\ FlowGroups["subscriptions"] = {"Subscriptions"}
    BY DEF FlowGroups
<1>3. ASSUME NEW g \in Groups, NEW h \in Groups, NEW c, c \in FlowGroups[g], c \in FlowGroups[h]
      PROVE  g = h
    <2>1. CASE g = "rent"
        BY <1>1, <1>3, <1>7, <2>1
    <2>2. CASE g = "bills"
        BY <1>1, <1>3, <1>7, <2>2
    <2>3. CASE g = "insurance"
        BY <1>1, <1>3, <1>7, <2>3
    <2>4. CASE g = "groceries"
        BY <1>1, <1>3, <1>7, <2>4
    <2>5. CASE g = "goingOut"
        BY <1>1, <1>3, <1>7, <2>5
    <2>6. CASE g = "shopping"
        BY <1>1, <1>3, <1>7, <2>6
    <2>7. CASE g = "subscriptions"
        BY <1>1, <1>3, <1>7, <2>7
    <2> QED
        BY <1>1, <2>1, <2>2, <2>3, <2>4, <2>5, <2>6, <2>7
<1>4. "other" \notin Groups /\ "saved" \notin Groups
    BY <1>1
<1>5. ASSUME NEW c, NEW g \in Groups
      PROVE  c \in FlowGroups[g] <=> GroupFor(c) = g
    <2>1. CASE \E h \in Groups : c \in FlowGroups[h]
        <3>1. GroupFor(c) \in Groups /\ c \in FlowGroups[GroupFor(c)]
            BY <2>1 DEF GroupFor
        <3> QED
            BY <1>3, <3>1
    <2>2. CASE ~\E h \in Groups : c \in FlowGroups[h]
        BY <1>4, <2>2 DEF GroupFor
    <2> QED
        BY <2>1, <2>2
<1>6. \A b \in PlanFields : b \in Groups /\ PlanBuckets[b] = FlowGroups[b]
    <2>1. PlanFields = {"rent", "bills", "groceries", "goingOut", "shopping", "subscriptions"}
        BY DEF PlanFields, PlanBuckets
    <2>2. /\ PlanBuckets["rent"] = {"Rent"} /\ PlanBuckets["bills"] = {"Bills"}
          /\ PlanBuckets["groceries"] = {"Groceries", "Food"}
          /\ PlanBuckets["goingOut"] = {"Restaurants & drinks", "Entertainment & culture",
                                        "Entertainment & Subscriptions"}
          /\ PlanBuckets["shopping"] = {"Shopping & clothes", "Shopping"}
          /\ PlanBuckets["subscriptions"] = {"Subscriptions"}
        BY DEF PlanBuckets
    <2> QED
        BY <1>1, <1>7, <2>1, <2>2
<1> QED
    BY <1>2, <1>4, <1>5, <1>6

\* The groups and Other make up the total, and what is shown of a month's flows is the
\* larger of what came in and what was spent.
LEMMA FlowsAre ==
    ASSUME NEW items, IsFiniteSet(items), \A e \in items : e.amount \in Nat,
           NEW income \in Nat
    PROVE  LET flows == MonthFlows(items, income)
               shown(n) == IF n \in DOMAIN flows THEN flows[n] ELSE 0
               total == MonthTotal(items)
           IN  /\ MapThenSumSet(shown, DOMAIN flows) = IF income > total THEN income ELSE total
               /\ \A g \in Groups : shown(g) = Sum(items, FlowGroups[g])
               /\ shown("saved") = IF income > total THEN income - total ELSE 0
<1> DEFINE total == MonthTotal(items)
           h == [g \in Groups |-> Sum(items, FlowGroups[g])]
           m == [e \in items |-> GroupFor(e.category)]
           other == MonthTotal(Grouped(m, items, {"other"}))
           All == Groups \cup {"other"}
           w == [n \in All |-> IF n = "other" THEN other ELSE h[n]]
           v == [n \in All \cup {"saved"} |->
                    IF n = "other" THEN total - SumOf(h, Groups)
                    ELSE IF n = "saved" THEN income - total ELSE h[n]]
           nodes == {n \in All \cup {"saved"} : v[n] > 0}
           up == [n \in All \cup {"saved"} |-> IF v[n] > 0 THEN v[n] ELSE 0]
           flows == MonthFlows(items, income)
           shown(n) == IF n \in DOMAIN flows THEN flows[n] ELSE 0
<1>1. /\ IsFiniteSet(Groups) /\ "other" \notin Groups /\ "saved" \notin Groups
      /\ IsFiniteSet(All) /\ IsFiniteSet(All \cup {"saved"})
    <2>1. IsFiniteSet(Groups) /\ "other" \notin Groups /\ "saved" \notin Groups
        BY GroupsHold
    <2>2. IsFiniteSet(All)
        BY <2>1, FS_AddElement
    <2> QED
        BY <2>1, <2>2, FS_AddElement
<1>2. \A L : IsFiniteSet(Grouped(m, items, L)) /\ MonthTotal(Grouped(m, items, L)) \in Nat
    <2> TAKE L
    <2>1. Grouped(m, items, L) \subseteq items
        BY DEF Grouped
    <2>2. IsFiniteSet(Grouped(m, items, L))
        BY <2>1, FS_Subset
    <2> QED
        BY <2>1, <2>2, TotalNatural
<1>3. total \in Nat /\ other \in Nat
    BY <1>2, TotalNatural
<1>4. \A g \in Groups : h[g] = MonthTotal(Grouped(m, items, {g}))
    <2> TAKE g \in Groups
    <2>1. Grouped(m, items, {g}) = {e \in items : e.category \in FlowGroups[g]}
        BY GroupsHold DEF Grouped
    <2> QED
        BY <2>1 DEF Sum
<1>5. \A e \in items : m[e] \in All
    BY DEF GroupFor
<1>6. Grouped(m, items, All) = items
    BY <1>5 DEF Grouped
<1>7. SumOf(w, All) = total
    <2>1. \A n \in All : w[n] = MonthTotal(Grouped(m, items, {n}))
        BY <1>1, <1>4
    <2> HIDE DEF w, h, m, All, total
    <2>2. SumOf(w, All) = MonthTotal(Grouped(m, items, All))
        BY <1>1, <2>1, TotalGroups
    <2> QED
        BY <1>6, <2>2 DEF total
<1>8. SumOf(w, All) = SumOf(h, Groups) + other /\ SumOf(h, Groups) \in Int
    <2>0. \A g \in Groups : h[g] \in Int
        <3> HIDE DEF h, m
        <3> TAKE g \in Groups
        <3>1. MonthTotal(Grouped(m, items, {g})) \in Nat
            BY <1>2
        <3>2. h[g] = MonthTotal(Grouped(m, items, {g}))
            BY <1>4
        <3> QED
            BY <3>1, <3>2
    <2>1. \A n \in All : w[n] \in Int
        <3> HIDE DEF h, other
        <3> QED
            BY <1>1, <1>3, <2>0
    <2>2. w["other"] = other /\ "other" \in All
        OBVIOUS
    <2>3. \A n \in Groups : w[n] = h[n] /\ h[n] \in Int
        <3> HIDE DEF h, other
        <3> QED
            BY <1>1, <2>0
    <2>4. All \ {"other"} = Groups
        BY <1>1
    <2> HIDE DEF w, All, h, other
    <2>5. SumOf(w, All) = w["other"] + SumOf(w, Groups)
        BY <1>1, <2>1, <2>2, <2>4, SumRemove
    <2>6. SumOf(w, Groups) = SumOf(h, Groups) /\ SumOf(h, Groups) \in Int
        BY <1>1, <2>3, SumSame, SumTyped
    <2> QED
        BY <1>3, <2>2, <2>5, <2>6
<1>9. /\ \A n \in All : v[n] = w[n] /\ v[n] \in Nat
      /\ v["saved"] = income - total
      /\ \A g \in Groups : v[g] = h[g]
    <2>1. total - SumOf(h, Groups) = other
        BY <1>3, <1>7, <1>8
    <2>2. \A g \in Groups : h[g] \in Nat
        BY <1>2, <1>4
    <2> HIDE DEF h, total, other
    <2> QED
        BY <1>1, <1>3, <2>1, <2>2
<1>10. flows = [n \in nodes |-> v[n]]
    <2> DEFINE grouped(g) == Sum(items, FlowGroups[g])
               value(n) == CASE n = "other" -> total - MapThenSumSet(grouped, Groups)
                             [] n = "saved" -> income - total
                             [] OTHER       -> grouped(n)
    <2>1. MapThenSumSet(grouped, Groups) = SumOf(h, Groups)
        <3>1. ASSUME NEW g
              PROVE  [s \in SUBSET Groups |->
                         IF s = {} THEN 0 ELSE h[Pick(s)] + g[s \ {Pick(s)}]]
                   = [s \in SUBSET Groups |->
                         IF s = {} THEN 0 ELSE grouped(Pick(s)) + g[s \ {Pick(s)}]]
            BY DEF Pick
        <3>2. SumOf(h, Groups) =
                (CHOOSE g : g = [s \in SUBSET Groups |->
                    IF s = {} THEN 0 ELSE grouped(Pick(s)) + g[s \ {Pick(s)}]])[Groups]
            BY <3>1 DEF SumOf, Sums
        <3> QED
            BY <3>2 DEF MapThenSumSet, MapThenFoldSet, Pick
    <2>2. \A n \in All \cup {"saved"} : value(n) = v[n]
        BY <1>1, <2>1
    <2>3. flows = [n \in {j \in Groups \cup {"other", "saved"} : value(j) > 0} |-> value(n)]
        BY DEF MonthFlows, Groups
    <2>4. Groups \cup {"other", "saved"} = All \cup {"saved"}
        OBVIOUS
    <2> HIDE DEF value, All, v, flows
    <2> QED
        BY <2>2, <2>3, <2>4
<1>11. \A n \in All \cup {"saved"} : shown(n) = up[n]
    <2> HIDE DEF flows, v, All
    <2> QED
        BY <1>10
<1>12. DOMAIN flows = nodes
    BY <1>10
<1>13. MapThenSumSet(shown, nodes) = SumOf(up, nodes)
    <2>1. ASSUME NEW g
          PROVE  [s \in SUBSET nodes |-> IF s = {} THEN 0 ELSE up[Pick(s)] + g[s \ {Pick(s)}]]
               = [s \in SUBSET nodes |-> IF s = {} THEN 0 ELSE shown(Pick(s)) + g[s \ {Pick(s)}]]
        <3> HIDE DEF up, flows
        <3>1. nodes \subseteq All \cup {"saved"}
            OBVIOUS
        <3> HIDE DEF nodes, All
        <3> QED
            BY <1>11, <3>1 DEF Pick
    <2>2. SumOf(up, nodes) =
            (CHOOSE g : g = [s \in SUBSET nodes |->
                IF s = {} THEN 0 ELSE shown(Pick(s)) + g[s \ {Pick(s)}]])[nodes]
        <3> HIDE DEF up, nodes, flows
        <3> QED
            BY <2>1 DEF SumOf, Sums
    <2> HIDE DEF nodes, flows, up
    <2> QED
        BY <2>2 DEF MapThenSumSet, MapThenFoldSet, Pick
<1> DEFINE saved == IF income > total THEN income - total ELSE 0
<1>14. /\ \A n \in All : up[n] = w[n] /\ w[n] \in Int
       /\ up["saved"] = saved /\ saved \in Int
       /\ \A n \in nodes : up[n] \in Int
       /\ \A n \in (All \cup {"saved"}) \ nodes : up[n] = 0
    <2>1. \A n \in All \cup {"saved"} : v[n] \in Int
        <3>1. v["saved"] \in Int
            <4> HIDE DEF v, total
            <4> QED
                BY <1>3, <1>9
        <3> HIDE DEF v, w, h, All
        <3> QED
            BY <1>9, <3>1
    <2> HIDE DEF v, w, total
    <2> QED
        BY <1>3, <1>9, <2>1
<1>15. SumOf(up, nodes) = total + saved
    <2>1. nodes \subseteq All \cup {"saved"} /\ "saved" \notin All
        BY <1>1
    <2>2. (All \cup {"saved"}) \ {"saved"} = All /\ "saved" \in All \cup {"saved"}
        BY <2>1
    <2>3. \A n \in All \cup {"saved"} : up[n] \in Int
        BY <1>14
    <2> HIDE DEF nodes, up, w, All, total, saved
    <2>4. SumOf(up, All \cup {"saved"}) = SumOf(up, nodes)
        BY <1>1, <1>14, <2>1, SumSupport
    <2>5. SumOf(up, All \cup {"saved"}) = up["saved"] + SumOf(up, All)
        BY <1>1, <2>2, <2>3, SumRemove
    <2>6. SumOf(up, All) = SumOf(w, All)
        BY <1>1, <1>14, SumSame
    <2> QED
        BY <1>3, <1>7, <1>14, <2>4, <2>5, <2>6
<1>16. MapThenSumSet(shown, DOMAIN flows) = IF income > total THEN income ELSE total
    <2>1. MapThenSumSet(shown, DOMAIN flows) = total + saved
        BY <1>12, <1>13, <1>15
    <2> DEFINE X == MapThenSumSet(shown, DOMAIN flows)
    <2>2. X = total + saved
        BY <2>1
    <2>3. X = IF income > total THEN income ELSE total
        <3> HIDE DEF total, X
        <3> QED
            BY <1>3, <2>2
    <2> QED
        BY <2>3
<1>17. \A g \in Groups : shown(g) = Sum(items, FlowGroups[g])
    <2>1. \A g \in Groups : shown(g) = up[g] /\ up[g] = w[g] /\ w[g] = h[g]
        BY <1>1, <1>11, <1>14
    <2> HIDE DEF flows, up, w
    <2> QED
        BY <2>1
<1>18. shown("saved") = saved
    BY <1>11, <1>14
<1> HIDE DEF total, flows
<1> QED
    BY <1>16, <1>17, <1>18 DEF total, flows

\* The buckets of the plan show what the flow chart shows, and so does the saved bar.
LEMMA PlanAgrees ==
    ASSUME NEW items, NEW expected, NEW income \in Nat, NEW total \in Nat
    PROVE  /\ \A b \in PlanFields :
                 CompareBuckets(items, expected)[b].actual = Sum(items, FlowGroups[b])
           /\ SavedThisMonth(income, total).saved = IF income > total THEN income - total ELSE 0
<1>1. \A b \in PlanFields : CompareBuckets(items, expected)[b].actual = Sum(items, PlanBuckets[b])
    BY DEF CompareBuckets
<1>2. SavedThisMonth(income, total).saved = IF income > total THEN income - total ELSE 0
    BY DEF SavedThisMonth
<1> QED
    BY <1>1, <1>2, GroupsHold

\* For every month, also one to come: the chart of its flows is balanced, and agrees with
\* the comparison with the plan.
THEOREM FlowsAddUp == Spec => []FlowsBalance
<1>1. FiguresInv => FlowsBalance
    <2> SUFFICES ASSUME FiguresInv, NEW k \in Months
                 PROVE  LET total == MonthTotal(Items(k))
                            flows == MonthFlows(Items(k), Income(k))
                            rows  == CompareBuckets(Items(k), plan.expected)
                            shown(n) == IF n \in DOMAIN flows THEN flows[n] ELSE 0
                        IN  /\ MapThenSumSet(shown, DOMAIN flows) =
                                  IF Income(k) > total THEN Income(k) ELSE total
                            /\ \A b \in PlanFields : rows[b].actual = shown(b)
                            /\ SavedThisMonth(Income(k), total).saved = shown("saved")
        BY DEF FlowsBalance
    <2> DEFINE items == Items(k)
               income == Income(k)
               total == MonthTotal(items)
               flows == MonthFlows(items, income)
               shown(n) == IF n \in DOMAIN flows THEN flows[n] ELSE 0
    <2>1. k \in Month
        BY LedgerAssumption DEF Month
    <2>2. IsFiniteSet(items) /\ total \in Nat /\ \A e \in items : e.amount \in Nat
        BY <2>1, ItemsHold
    <2>3. income \in Nat
        BY <2>1, IncomeOfMonth DEF Income, FiguresInv, SourceInv, TypeOK, FiniteRegisters
    <2> HIDE DEF items, income
    <2>4. /\ MapThenSumSet(shown, DOMAIN flows) = IF income > total THEN income ELSE total
          /\ \A g \in Groups : shown(g) = Sum(items, FlowGroups[g])
          /\ shown("saved") = IF income > total THEN income - total ELSE 0
        BY <2>2, <2>3, FlowsAre
    <2> HIDE DEF total, flows
    <2>5. /\ \A b \in PlanFields :
                CompareBuckets(items, plan.expected)[b].actual = Sum(items, FlowGroups[b])
          /\ SavedThisMonth(income, total).saved = IF income > total THEN income - total ELSE 0
        BY <2>2, <2>3, PlanAgrees
    <2>6. \A b \in PlanFields : CompareBuckets(items, plan.expected)[b].actual = shown(b)
        BY <2>4, <2>5, GroupsHold
    <2> QED
        BY <2>4, <2>5, <2>6 DEF items, income, total, flows
<1> QED
    BY <1>1, RegistersSound, PTL

-----------------------------------------------------------------------------
(* The balance.                                                              *)

\* A finite set of months has a latest one.
LEMMA LatestIs ==
    ASSUME NEW D, IsFiniteSet(D), D \subseteq Month, D # {}
    PROVE  Latest(D) \in D /\ \A j \in D : UpTo(j, Latest(D))
<1> DEFINE P == {s \in SUBSET D : s # {} => \E k \in s : \A j \in s : UpTo(j, k)}
<1>1. ASSUME NEW s \in SUBSET D, \A u \in SUBSET s : u # s => u \in P
      PROVE  s \in P
    <2> SUFFICES ASSUME s # {} PROVE \E k \in s : \A j \in s : UpTo(j, k)
        OBVIOUS
    <2>1. PICK a \in s : TRUE
        OBVIOUS
    <2> DEFINE u == s \ {a}
    <2>2. u \in SUBSET s /\ u # s
        BY <2>1
    <2>3. u \in P
        BY <1>1, <2>2
    <2>4. CASE u = {}
        <3>1. \A j \in s : UpTo(j, a)
            BY <2>4 DEF UpTo
        <3> QED
            BY <2>1, <3>1
    <2>5. CASE u # {}
        <3>1. PICK k \in u : \A j \in u : UpTo(j, k)
            BY <2>3, <2>5
        <3>2. a \in Month /\ k \in Month /\ u \subseteq Month
            BY <2>1, <3>1
        <3>3. CASE UpTo(a, k)
            <4>1. \A j \in s : UpTo(j, k)
                BY <3>1, <3>3
            <4> QED
                BY <3>1, <4>1
        <3>4. CASE ~UpTo(a, k)
            <4>1. UpTo(k, a) /\ UpTo(a, a)
                BY <3>2, <3>4, MonthsOrdered DEF UpTo
            <4>2. \A j \in u : UpTo(j, a)
                BY <3>1, <3>2, <4>1, MonthsTransitive
            <4> QED
                BY <2>1, <4>1, <4>2
        <3> QED
            BY <3>3, <3>4
    <2> QED
        BY <2>4, <2>5
<1>2. D \in P
    <2> HIDE DEF P
    <2> QED
        BY <1>1, SetInduction
<1> QED
    BY <1>2 DEF Latest

\* The window that is as long as the history is all of it.
LEMMA WholeWindow ==
    ASSUME NEW D, IsFiniteSet(D), D \subseteq Month
    PROVE  LastMonths(D, Cardinality(D)) = D
<1>1. ASSUME NEW k \in D
      PROVE  Cardinality({j \in D : Before(k, j)}) < Cardinality(D)
    <2> DEFINE T == {j \in D : Before(k, j)}
    <2>1. k \notin T /\ T \in SUBSET D
        BY DEF Before, Month
    <2> HIDE DEF T
    <2>2. IsFiniteSet(T) /\ Cardinality(T) <= Cardinality(D) /\ Cardinality(T) # Cardinality(D)
        BY <2>1, FS_Subset
    <2>3. Cardinality(T) \in Nat /\ Cardinality(D) \in Nat
        BY <2>2, FS_CardinalityType
    <2>4. Cardinality(T) < Cardinality(D)
        BY <2>2, <2>3
    <2> QED
        BY <2>4 DEF T
<1> QED
    BY <1>1 DEF LastMonths

\* Where the series has money in: the months since the model's first, and the months
\* of one-off income.
Past == MonthSpan(Ym(Days[1]), Current) \cup {Ym(v.date) : v \in events}

LEMMA PastHolds ==
    ASSUME FiguresInv
    PROVE  /\ IsFiniteSet(Past) /\ Past \subseteq Month
           /\ \A k \in Past \ DOMAIN Series : Income(k) = 0
           /\ \A k \in DOMAIN Series \ Past : Income(k) = 0
<1> DEFINE first == Ym(Days[1])
<1>1. /\ first \in Month /\ Current \in Month /\ IsFiniteSet(events)
    BY CurrentMonth DEF FiguresInv, SourceInv, TypeOK, FiniteRegisters
<1> HIDE DEF first
<1>2. /\ MonthSpan(first, Current) = {k \in Month : UpTo(first, k) /\ UpTo(k, Current)}
      /\ IsFiniteSet(MonthSpan(first, Current))
    BY <1>1, SpanHolds
<1>3. Past = MonthSpan(first, Current) \cup {Ym(v.date) : v \in events}
    BY DEF Past, first
<1>4. IsFiniteSet(Past) /\ Past \subseteq Month
    <2> DEFINE f == [v \in events |-> Ym(v.date)]
               E == {f[v] : v \in events}
    <2>1. IsFiniteSet(E)
        <3> HIDE DEF f
        <3> QED
            BY <1>1, ImageFinite
    <2>2. E = {Ym(v.date) : v \in events} /\ E \subseteq Month
        BY SeriesHolds
    <2> HIDE DEF E
    <2> QED
        BY <1>2, <1>3, <2>1, <2>2, FS_Union
<1>5. ASSUME NEW k \in Past, k \notin DOMAIN Series
      PROVE  Income(k) = 0
    <2>1. \A v \in events : Ym(v.date) \in DOMAIN Series
        BY SeriesHolds
    <2>2. k \in Month /\ UpTo(k, Current)
        BY <1>2, <1>3, <1>5, <2>1
    <2> QED
        BY <1>5, <2>2, IncomeInSeries
<1>6. ASSUME NEW k \in DOMAIN Series, k \notin Past
      PROVE  Income(k) = 0
    <2>1. k \in Month /\ \A v \in events : Ym(v.date) # k
        BY <1>3, <1>6, SeriesHolds
    <2>2. UpTo(k, Current)
        BY <2>1, SeriesHolds
    <2>3. ASSUME NEW s \in incomes, SourceAmountInMonth(s, k) # 0
          PROVE  FALSE
        <3>1. /\ s \in Source /\ Ym(s.created) \in Month
              /\ UpTo(first, Ym(s.created))
            BY SourceMonths DEF first
        <3>2. UpTo(Ym(s.created), k)
            BY <2>1, <2>3, <3>1, SourcePays
        <3>3. UpTo(first, k)
            BY <1>1, <2>1, <3>1, <3>2, MonthsTransitive
        <3> QED
            BY <1>2, <1>3, <1>6, <2>1, <2>2, <3>3
    <2> QED
        BY <2>1, <2>3, IncomeFrom
<1> QED
    BY <1>4, <1>5, <1>6

\* What the months of the series add up to: all that was received, less all that was spent.
LEMMA NetOfAll ==
    ASSUME FiguresInv
    PROVE  /\ MapThenSumSet(Income, Past) \in Int /\ MonthTotal(Rows) \in Int
           /\ NetOver(Series, DOMAIN Series) = MapThenSumSet(Income, Past) - MonthTotal(Rows)
<1> DEFINE D == DOMAIN Series
           net == [k \in D |-> Series[k].net]
           income == [k \in D \cup Past |-> Income(k)]
           spend == [k \in D |-> MonthTotal(OwnItems(Rows, k))]
           m == [e \in Rows |-> Ym(e.date)]
<1>1. /\ IsFiniteSet(D) /\ D \subseteq Month
      /\ \A k \in D : net[k] = Income(k) - MonthTotal(OwnItems(Rows, k))
    BY SeriesHolds
<1>2. /\ IsFiniteSet(Rows) /\ \A e \in Rows : e.amount \in Nat
    BY RowsHold
<1>3. \A k \in Month : Income(k) \in Nat
    BY IncomeOfMonth DEF Income, FiguresInv, SourceInv, TypeOK, FiniteRegisters
<1>4. \A k : MonthTotal(OwnItems(Rows, k)) \in Nat
    <2> TAKE k
    <2>1. OwnItems(Rows, k) \in SUBSET Rows
        BY DEF OwnItems
    <2>2. IsFiniteSet(OwnItems(Rows, k))
        BY <1>2, <2>1, FS_Subset
    <2> QED
        BY <1>2, <2>1, <2>2, TotalNatural
<1>5. NetOver(Series, D) = SumOf(net, D)
    BY NetIsSum
<1>6. SumOf(net, D) = SumOf(income, D) - SumOf(spend, D)
    <2>1. ASSUME NEW k \in D
          PROVE  income[k] \in Int /\ spend[k] \in Int /\ net[k] = income[k] - spend[k]
        <3>1. income[k] = Income(k) /\ spend[k] = MonthTotal(OwnItems(Rows, k))
            OBVIOUS
        <3>2. Income(k) \in Nat /\ MonthTotal(OwnItems(Rows, k)) \in Nat
            BY <1>1, <1>3, <1>4
        <3>3. net[k] = Income(k) - MonthTotal(OwnItems(Rows, k))
            BY <1>1
        <3> HIDE DEF net, income, spend, D
        <3> QED
            BY <3>1, <3>2, <3>3
    <2> HIDE DEF net, income, spend, D
    <2> QED
        BY <1>1, <2>1, SumMinus
<1>7. SumOf(spend, D) = MonthTotal(Rows)
    <2>1. \A k \in D : spend[k] = MonthTotal(Grouped(m, Rows, {k}))
        <3>1. \A k : Grouped(m, Rows, {k}) = OwnItems(Rows, k)
            BY DEF Grouped, OwnItems
        <3> HIDE DEF m, D
        <3> QED
            BY <3>1
    <2>2. Grouped(m, Rows, D) = Rows
        BY SeriesHolds DEF Grouped
    <2> HIDE DEF spend, m, D
    <2>3. SumOf(spend, D) = MonthTotal(Grouped(m, Rows, D))
        BY <1>1, <1>2, <2>1, TotalGroups
    <2> QED
        BY <2>2, <2>3
<1>8. SumOf(income, D) = SumOf(income, Past)
    <2>1. IsFiniteSet(D \cup Past) /\ IsFiniteSet(Past) /\ Past \subseteq Month
        <3> HIDE DEF D
        <3> QED
            BY <1>1, PastHolds, FS_Union
    <2>2. \A k \in D \cup Past : income[k] = Income(k) /\ income[k] \in Int
        <3> HIDE DEF D
        <3> QED
            BY <1>1, <1>3, <2>1
    <2>3. /\ \A k \in (D \cup Past) \ D : income[k] = 0
          /\ \A k \in (D \cup Past) \ Past : income[k] = 0
        <3> HIDE DEF income
        <3> QED
            BY <2>2, PastHolds
    <2> HIDE DEF income, D
    <2>4. SumOf(income, D \cup Past) = SumOf(income, D)
        BY <2>1, <2>2, <2>3, SumSupport
    <2>5. SumOf(income, D \cup Past) = SumOf(income, Past)
        BY <2>1, <2>2, <2>3, SumSupport
    <2> QED
        BY <2>4, <2>5
<1>9. MapThenSumSet(Income, Past) = SumOf(income, Past)
    <2>1. ASSUME NEW g
          PROVE  [s \in SUBSET Past |-> IF s = {} THEN 0 ELSE income[Pick(s)] + g[s \ {Pick(s)}]]
               = [s \in SUBSET Past |-> IF s = {} THEN 0 ELSE Income(Pick(s)) + g[s \ {Pick(s)}]]
        <3> HIDE DEF D
        <3> QED
            BY DEF Pick
    <2> HIDE DEF income, D
    <2>2. SumOf(income, Past) =
            (CHOOSE g : g = [s \in SUBSET Past |->
                IF s = {} THEN 0 ELSE Income(Pick(s)) + g[s \ {Pick(s)}]])[Past]
        BY <2>1 DEF SumOf, Sums
    <2> QED
        BY <2>2 DEF MapThenSumSet, MapThenFoldSet, Pick
<1>10. SumOf(income, Past) \in Int
    <2>1. IsFiniteSet(Past) /\ \A k \in Past : income[k] \in Int
        <3> HIDE DEF D
        <3> QED
            BY <1>3, PastHolds
    <2> HIDE DEF income
    <2> QED
        BY <2>1, SumTyped
<1>11. MonthTotal(Rows) \in Nat
    BY <1>2, TotalNatural
<1> HIDE DEF D, net, income, spend
<1> QED
    BY <1>5, <1>6, <1>7, <1>8, <1>9, <1>10, <1>11 DEF D

\* The balance line ends at what there is, and the benchmark of a month after all others
\* is the average of the last three.
THEOREM BalanceAddsUp == Spec => []BalanceConserved
<1>1. FiguresInv => BalanceConserved
    <2> SUFFICES ASSUME FiguresInv PROVE BalanceConserved
        OBVIOUS
    <2> DEFINE D == DOMAIN Series
               figures == [k \in LastMonths(D, Cardinality(D)) |-> Series[k]]
               line == TrendLine(Series, plan.start, Cardinality(D))
               next == NextMonth(NextMonth(Current))
               last == Latest(D)
    <2>1. /\ IsFiniteSet(D) /\ D \subseteq Month
          /\ \A k \in D : UpTo(k, NextMonth(Current))
        BY SeriesHolds
    <2>2. LastMonths(D, Cardinality(D)) = D
        <3> HIDE DEF D
        <3> QED
            BY <2>1, WholeWindow
    <2>3. DOMAIN line = D /\ figures = [k \in D |-> Series[k]]
        BY <2>2 DEF TrendLine, CumulativeNet
    <2>4. ASSUME D # {}
          PROVE  line[last] = plan.start + MapThenSumSet(Income, Past) - MonthTotal(Rows)
        <3>1. last \in D /\ \A j \in D : UpTo(j, last)
            <4> HIDE DEF D
            <4> QED
                BY <2>1, <2>4, LatestIs
        <3>2. line[last] = plan.start + NetOver(figures, {j \in D : UpTo(j, last)})
            BY <2>2, <2>3, <3>1 DEF TrendLine, CumulativeNet
        <3>3. {j \in D : UpTo(j, last)} = D
            BY <3>1
        <3>4. NetOver(figures, D) = NetOver(Series, D)
            <4>1. [k \in D |-> figures[k].net] = [k \in D |-> Series[k].net]
                BY <2>3
            <4> QED
                BY <4>1, NetIsSum
        <3> HIDE DEF line, last, D, figures
        <3>5. line[last] = plan.start + (MapThenSumSet(Income, Past) - MonthTotal(Rows))
            BY <3>2, <3>3, <3>4, NetOfAll DEF D
        <3> DEFINE I == MapThenSumSet(Income, Past)
        <3>6. I \in Int /\ MonthTotal(Rows) \in Int
            BY NetOfAll
        <3>7. plan.start \in Int
            BY LedgerAssumption DEF FiguresInv, SourceInv, TypeOK
        <3> HIDE DEF I
        <3> QED
            BY <3>5, <3>6, <3>7 DEF I
    <2>5. ExpectedSpend(Series, next) =
             [sum    |-> WindowAverages(Series, 3).avgSpend,
              months |-> WindowAverages(Series, 3).months]
        <3>1. Current \in Month /\ NextMonth(Current) \in Month
            BY CurrentMonth DEF FiguresInv, SourceInv, TypeOK
        <3>2. \A k \in D : Before(k, next)
            BY <2>1, <3>1, NextMonths
        <3>3. {k \in D : Before(k, next)} = D
            BY <3>2
        <3> QED
            BY <3>3 DEF ExpectedSpend, WindowAverages
    <2> HIDE DEF line, D
    <2> QED
        BY <2>3, <2>4, <2>5 DEF BalanceConserved, Past, Rows, line, D
<1> QED
    BY <1>1, RegistersSound, PTL

-----------------------------------------------------------------------------
(* Payments in a year.                                                       *)

\* So many times an amount holds the amount so many times.
LEMMA TimesHeld ==
    ASSUME NEW n \in Nat, NEW a \in Nat, a > 0
    PROVE  (n * a) \div a = n
OBVIOUS

\* In a month of length L that begins after the day numbered B, so many days have the
\* number w modulo 7.
LEMMA WeekdaysIn ==
    ASSUME NEW B \in Int, NEW w \in 0..6, NEW L \in 28..31
    PROVE  Cardinality({d \in 1..L : (B + d) % 7 = w}) = (B + L - w) \div 7 - (B - w) \div 7
<1> DEFINE first == ((w - B - 1) % 7) + 1
           four == {first, first + 7, first + 14, first + 21}
<1>1. first \in 1..7
    OBVIOUS
<1>2. (B + first) % 7 = w
    OBVIOUS
<1> HIDE DEF first
<1>3. \A d \in 1..31 : (B + d) % 7 = w <=> d \in four \cup {first + 28}
    BY <1>1, <1>2
<1>4. IsFiniteSet(four) /\ Cardinality(four) = 4
    <2> DEFINE a == first
               b == first + 7
               c == first + 14
               e == first + 21
    <2>1. a # b /\ a # c /\ a # e /\ b # c /\ b # e /\ c # e
        BY <1>1
    <2> HIDE DEF a, b, c, e
    <2>2. IsFiniteSet({a}) /\ Cardinality({a}) = 1
        BY FS_Singleton
    <2>3. IsFiniteSet({a} \cup {b}) /\ Cardinality({a} \cup {b}) = 2
        BY <2>1, <2>2, FS_AddElement
    <2>4. IsFiniteSet(({a} \cup {b}) \cup {c}) /\ Cardinality(({a} \cup {b}) \cup {c}) = 3
        BY <2>1, <2>3, FS_AddElement
    <2>5. /\ IsFiniteSet((({a} \cup {b}) \cup {c}) \cup {e})
          /\ Cardinality((({a} \cup {b}) \cup {c}) \cup {e}) = 4
        BY <2>1, <2>4, FS_AddElement
    <2>6. (({a} \cup {b}) \cup {c}) \cup {e} = {a, b, c, e}
        OBVIOUS
    <2> QED
        BY <2>5, <2>6 DEF a, b, c, e
<1>5. CASE first + 28 <= L
    <2>1. {d \in 1..L : (B + d) % 7 = w} = four \cup {first + 28}
        BY <1>1, <1>3, <1>5
    <2>2. first + 28 \notin four
        BY <1>1
    <2>3. Cardinality(four \cup {first + 28}) = 5
        <3> HIDE DEF four
        <3> QED
            BY <1>4, <2>2, FS_AddElement
    <2>4. (B + L - w) \div 7 - (B - w) \div 7 = 5
        BY <1>1, <1>2, <1>5
    <2> QED
        BY <2>1, <2>3, <2>4
<1>6. CASE ~(first + 28 <= L)
    <2>1. {d \in 1..L : (B + d) % 7 = w} = four
        BY <1>1, <1>3, <1>6
    <2>2. (B + L - w) \div 7 - (B - w) \div 7 = 4
        BY <1>1, <1>2, <1>6
    <2> QED
        BY <1>4, <2>1, <2>2
<1> QED
    BY <1>5, <1>6

\* What a function of a month gains from each month of a span to the next is, added up,
\* what it gains from the span's first to the month after its last.
LEMMA Telescope ==
    ASSUME NEW f, NEW G, \A k \in Month : G[k] \in Int,
           NEW a \in Month, NEW b \in Month, UpTo(a, b),
           \A k \in MonthSpan(a, b) : f[k] = G[NextMonth(k)] - G[k]
    PROVE  SumOf(f, MonthSpan(a, b)) = G[NextMonth(b)] - G[a]
<1> DEFINE end == NextMonth(b)
           all == MonthSpan(a, b)
           P == {s \in SUBSET all :
                    \A k \in Month : s = MonthSpan(k, b) /\ UpTo(k, end) =>
                       SumOf(f, s) = G[end] - G[k]}
<1>1. end \in Month /\ UpTo(a, end)
    BY MonthsOrdered, NextMonths DEF UpTo
<1>2. \A k \in Month : MonthSpan(k, b) = {j \in Month : UpTo(k, j) /\ UpTo(j, b)}
                       /\ IsFiniteSet(MonthSpan(k, b))
    BY SpanHolds
<1>3. ASSUME NEW s \in SUBSET all, \A u \in SUBSET s : u # s => u \in P
      PROVE  s \in P
    <2> SUFFICES ASSUME NEW k \in Month, s = MonthSpan(k, b), UpTo(k, end)
                 PROVE  SumOf(f, s) = G[end] - G[k]
        OBVIOUS
    <2>1. CASE UpTo(k, b)
        <3> DEFINE n == NextMonth(k)
                   rest == MonthSpan(n, b)
        <3>1. n \in Month /\ UpTo(n, end)
            BY <2>1, MonthsOrdered, NextMonths
        <3>2. \A j \in Month : UpTo(k, j) <=> (k = j \/ UpTo(n, j))
            BY MonthsOrdered DEF UpTo
        <3>3. ~UpTo(n, k)
            BY MonthsOrdered
        <3>4. k \in s /\ k \notin rest /\ s \ {k} = rest
            BY <1>2, <2>1, <3>1, <3>2, <3>3
        <3>5. SumOf(f, rest) = G[end] - G[n]
            <4>1. rest \in P
                BY <1>3, <3>4
            <4> QED
                BY <3>1, <4>1
        <3>6. f[k] = G[n] - G[k]
            BY <3>4
        <3>7. SumOf(f, s) = f[k] + SumOf(f, rest)
            <4>1. \A j \in s : f[j] \in Int
                <5> TAKE j \in s
                <5>1. j \in Month /\ NextMonth(j) \in Month
                    BY <1>2, MonthsOrdered
                <5>2. f[j] = G[NextMonth(j)] - G[j]
                    OBVIOUS
                <5> QED
                    BY <5>1, <5>2
            <4>2. IsFiniteSet(s)
                BY <1>2
            <4> HIDE DEF rest
            <4> QED
                BY <3>4, <4>1, <4>2, SumRemove
        <3>8. G[n] \in Int /\ G[k] \in Int /\ G[end] \in Int
            BY <1>1, <3>1
        <3> QED
            BY <3>5, <3>6, <3>7, <3>8
    <2>2. CASE ~UpTo(k, b)
        <3>1. k = end
            <4>1. Before(b, k)
                BY <2>2, MonthsOrdered
            <4>2. UpTo(end, k)
                BY <4>1, MonthsOrdered
            <4> QED
                BY <1>1, <4>2, MonthsOrdered
        <3>2. s = {}
            <4>1. \A j \in Month : UpTo(k, j) /\ UpTo(j, b) => UpTo(k, b)
                BY MonthsTransitive
            <4> QED
                BY <1>2, <2>2, <4>1
        <3>3. SumOf(f, s) = 0
            BY <3>2, FS_EmptySet, SumPick
        <3>4. G[end] \in Int
            BY <1>1
        <3> QED
            BY <3>1, <3>3, <3>4
    <2> QED
        BY <2>1, <2>2
<1>4. IsFiniteSet(all)
    BY <1>2
<1>5. all \in P
    <2> HIDE DEF P, all
    <2> QED
        BY <1>3, <1>4, SetInduction
<1> QED
    BY <1>1, <1>5

\* Twelve months from one on.
YearEnd(k) == IF k[2] = 1 THEN <<k[1], 12>> ELSE <<k[1] + 1, k[2] - 1>>

LEMMA AfterAYear ==
    ASSUME NEW k \in Month
    PROVE  /\ YearEnd(k) \in Month /\ UpTo(k, YearEnd(k))
           /\ NextMonth(YearEnd(k)) = <<k[1] + 1, k[2]>>
           /\ <<k[1] + 1, k[2]>> \in Month
<1>1. k = <<k[1], k[2]>> /\ k[1] \in Nat /\ k[2] \in 1..12
    BY DEF Month
<1>2. CASE k[2] = 1
    BY <1>1, <1>2 DEF YearEnd, Month, UpTo, Before, NextMonth
<1>3. CASE k[2] # 1
    <2>1. k[2] - 1 \in 1..11 /\ (k[2] - 1) \div 12 = 0 /\ (k[2] - 1) % 12 = k[2] - 1
        BY <1>1, <1>3
    <2> QED
        BY <1>1, <1>3, <2>1 DEF YearEnd, Month, UpTo, Before, NextMonth
<1> QED
    BY <1>2, <1>3

\* The month after one is one further from any other.
LEMMA OneFurther ==
    ASSUME NEW a \in Month, NEW k \in Month
    PROVE  /\ MonthDiff(a, k) \in Int
           /\ MonthDiff(a, NextMonth(k)) = MonthDiff(a, k) + 1
           /\ MonthDiff(a, <<k[1] + 1, k[2]>>) = MonthDiff(a, k) + 12
<1>1. /\ a[1] \in Nat /\ a[2] \in 1..12 /\ k[1] \in Nat /\ k[2] \in 1..12
    BY DEF Month
<1>2. /\ NextMonth(k)[1] = k[1] + k[2] \div 12
      /\ NextMonth(k)[2] = (k[2] % 12) + 1
    BY DEF NextMonth
<1>3. 12 * (k[2] \div 12) + (k[2] % 12) = k[2]
    BY <1>1
<1> QED
    BY <1>1, <1>2, <1>3 DEF MonthDiff

\* The days of a year before its months, but for the leap day.
Elapsed == <<0, 31, 59, 90, 120, 151, 181, 212, 243, 273, 304, 334, 365>>
LeapDay(y) == IF Leap(y) THEN 1 ELSE 0
\* The days up to the end of a year, from the first of January of year 1.
YearsUpTo(y) == 365 * y + y \div 4 - y \div 100 + y \div 400

\* The number of the day before a month.
Base(k) ==
    YearsUpTo(k[1] - 1) + Elapsed[k[2]] + (IF k[2] > 2 THEN LeapDay(k[1]) ELSE 0)

LEMMA MonthLengths ==
    ASSUME NEW y \in Nat, NEW m \in 1..12
    PROVE  /\ LastDay(<<y, m>>) \in 28..31
           /\ Elapsed[m + 1] + (IF m + 1 > 2 THEN LeapDay(y) ELSE 0) =
                 Elapsed[m] + (IF m > 2 THEN LeapDay(y) ELSE 0) + LastDay(<<y, m>>)
<1>1. LastDay(<<y, m>>) = IF m = 2 THEN 28 + LeapDay(y)
                          ELSE IF m \in {4, 6, 9, 11} THEN 30 ELSE 31
    BY DEF LastDay, LeapDay
<1>2. LeapDay(y) \in {0, 1}
    BY DEF LeapDay
<1>3. \/ m = 1 \/ m = 2 \/ m = 3 \/ m = 4 \/ m = 5 \/ m = 6 \/ m = 7
      \/ m = 8 \/ m = 9 \/ m = 10 \/ m = 11 \/ m = 12
    OBVIOUS
<1>4. /\ Elapsed[1] = 0 /\ Elapsed[2] = 31 /\ Elapsed[3] = 59 /\ Elapsed[4] = 90
      /\ Elapsed[5] = 120 /\ Elapsed[6] = 151 /\ Elapsed[7] = 181 /\ Elapsed[8] = 212
      /\ Elapsed[9] = 243 /\ Elapsed[10] = 273 /\ Elapsed[11] = 304 /\ Elapsed[12] = 334
      /\ Elapsed[13] = 365
    BY DEF Elapsed
<1> QED
    BY <1>1, <1>2, <1>3, <1>4

\* The days of a year before a month, added up month by month.
LEMMA DaysBefore ==
    ASSUME NEW y \in Nat, NEW f, \A j \in 1..12 : f[j] = LastDay(<<y, j>>)
    PROVE  \A m \in 1..12 :
              SumOf(f, 1..(m - 1)) = Elapsed[m] + (IF m > 2 THEN LeapDay(y) ELSE 0)
<1> DEFINE E(m) == Elapsed[m] + (IF m > 2 THEN LeapDay(y) ELSE 0)
           Good(m) == SumOf(f, 1..(m - 1)) = E(m)
<1>1. Good(1)
    <2>1. 1..(1 - 1) = {} /\ E(1) = 0
        BY DEF Elapsed
    <2>2. SumOf(f, {}) = 0
        BY FS_EmptySet, SumPick
    <2> HIDE DEF E
    <2> QED
        BY <2>1, <2>2
<1>2. ASSUME NEW m \in 1..11, Good(m)
      PROVE  Good(m + 1)
    <2>1. E(m + 1) = E(m) + f[m]
        BY MonthLengths
    <2>2. m \in 1..m /\ (1..m) \ {m} = 1..(m - 1) /\ (m + 1) - 1 = m
        OBVIOUS
    <2>3. IsFiniteSet(1..m) /\ \A j \in 1..m : f[j] \in Int
        <3>1. IsFiniteSet(1..m)
            BY FS_Interval
        <3>2. \A j \in 1..12 : LastDay(<<y, j>>) \in 28..31
            BY MonthLengths
        <3>3. \A j \in 1..m : j \in 1..12
            OBVIOUS
        <3>4. \A j \in 1..m : f[j] \in 28..31
            BY <3>2, <3>3
        <3> QED
            BY <3>1, <3>4
    <2>4. SumOf(f, 1..m) = f[m] + SumOf(f, 1..(m - 1))
        <3> DEFINE S == 1..m
        <3>1. S \ {m} = 1..(m - 1)
            BY <2>2
        <3>2. SumOf(f, S) = f[m] + SumOf(f, S \ {m})
            <4>1. m \in S /\ IsFiniteSet(S) /\ \A j \in S : f[j] \in Int
                BY <2>2, <2>3
            <4> HIDE DEF S
            <4> QED
                BY <4>1, SumRemove
        <3> HIDE DEF S
        <3> QED
            BY <3>1, <3>2 DEF S
    <2>5. E(m) \in Int /\ f[m] \in Int
        <3>1. f[m] \in Int /\ LeapDay(y) \in Int
            BY <2>2, <2>3 DEF LeapDay
        <3>2. Elapsed[m] \in Int
            BY DEF Elapsed
        <3> QED
            BY <3>1, <3>2
    <2> HIDE DEF E
    <2> QED
        BY <1>2, <2>1, <2>2, <2>4, <2>5
<1> HIDE DEF Good
<1>3. Good(1) /\ Good(2) /\ Good(3) /\ Good(4) /\ Good(5) /\ Good(6)
    <2>1. Good(2)
        BY <1>1, <1>2
    <2>2. Good(3)
        BY <1>2, <2>1
    <2>3. Good(4)
        BY <1>2, <2>2
    <2>4. Good(5)
        BY <1>2, <2>3
    <2>5. Good(6)
        BY <1>2, <2>4
    <2> QED
        BY <1>1, <2>1, <2>2, <2>3, <2>4, <2>5
<1>4. Good(7) /\ Good(8) /\ Good(9) /\ Good(10) /\ Good(11) /\ Good(12)
    <2>1. Good(7)
        BY <1>2, <1>3
    <2>2. Good(8)
        BY <1>2, <2>1
    <2>3. Good(9)
        BY <1>2, <2>2
    <2>4. Good(10)
        BY <1>2, <2>3
    <2>5. Good(11)
        BY <1>2, <2>4
    <2>6. Good(12)
        BY <1>2, <2>5
    <2> QED
        BY <2>1, <2>2, <2>3, <2>4, <2>5, <2>6
<1>5. \A m \in 1..12 : Good(m)
    <2> TAKE m \in 1..12
    <2>1. \/ m = 1 \/ m = 2 \/ m = 3 \/ m = 4 \/ m = 5 \/ m = 6 \/ m = 7
          \/ m = 8 \/ m = 9 \/ m = 10 \/ m = 11 \/ m = 12
        OBVIOUS
    <2> QED
        BY <1>3, <1>4, <2>1
<1> QED
    BY <1>5 DEF Good

\* The number of a day is that of the day before its month, and the day of the month.
LEMMA DayNumber ==
    ASSUME NEW y \in Nat, NEW m \in 1..12, NEW d \in Int
    PROVE  DaysUpTo(<<y, m, d>>) = Base(<<y, m>>) + d /\ Base(<<y, m>>) \in Int
<1> DEFINE daysIn(j) == LastDay(<<y, j>>)
           f == [j \in 1..12 |-> daysIn(j)]
           S == 1..(m - 1)
<1>1. MapThenSumSet(daysIn, S) = SumOf(f, S)
    <2>1. ASSUME NEW g
          PROVE  [s \in SUBSET S |-> IF s = {} THEN 0 ELSE f[Pick(s)] + g[s \ {Pick(s)}]]
               = [s \in SUBSET S |-> IF s = {} THEN 0 ELSE daysIn(Pick(s)) + g[s \ {Pick(s)}]]
        <3>1. \A s \in SUBSET S : s # {} => Pick(s) \in 1..12
            <4>1. S \subseteq 1..12
                OBVIOUS
            <4> HIDE DEF S
            <4> QED
                BY <4>1 DEF Pick
        <3> HIDE DEF S
        <3> QED
            BY <3>1
    <2> HIDE DEF f, S
    <2>2. SumOf(f, S) =
            (CHOOSE g : g = [s \in SUBSET S |->
                IF s = {} THEN 0 ELSE daysIn(Pick(s)) + g[s \ {Pick(s)}]])[S]
        BY <2>1 DEF SumOf, Sums
    <2> QED
        BY <2>2 DEF MapThenSumSet, MapThenFoldSet, Pick
<1>2. SumOf(f, S) = Elapsed[m] + (IF m > 2 THEN LeapDay(y) ELSE 0)
    <2>1. \A j \in 1..12 : f[j] = LastDay(<<y, j>>)
        OBVIOUS
    <2> HIDE DEF f
    <2> QED
        BY <2>1, DaysBefore
<1>3. /\ LeapDay(y) \in Int /\ Elapsed[m] \in Int /\ YearsUpTo(y - 1) \in Int
    BY DEF LeapDay, Elapsed, YearsUpTo
<1>4. DaysUpTo(<<y, m, d>>) = YearsUpTo(y - 1) + MapThenSumSet(daysIn, S) + d
    BY DEF DaysUpTo, YearsUpTo
<1> HIDE DEF daysIn, S, f
<1> QED
    BY <1>1, <1>2, <1>3, <1>4 DEF Base

\* A year adds its days.
LEMMA YearDays ==
    ASSUME NEW y \in Nat
    PROVE  /\ YearsUpTo(y) = YearsUpTo(y - 1) + 365 + LeapDay(y)
           /\ YearsUpTo(y) \in Int /\ YearsUpTo(y - 1) \in Int /\ LeapDay(y) \in {0, 1}
<1> DEFINE by(n) == y \div n - (y - 1) \div n
<1>1. /\ by(4) = IF y % 4 = 0 THEN 1 ELSE 0
      /\ by(100) = IF y % 100 = 0 THEN 1 ELSE 0
      /\ by(400) = IF y % 400 = 0 THEN 1 ELSE 0
    OBVIOUS
<1>2. (y % 100 = 0 => y % 4 = 0) /\ (y % 400 = 0 => y % 100 = 0)
    OBVIOUS
<1>3. by(4) - by(100) + by(400) = LeapDay(y)
    <2> HIDE DEF by
    <2> QED
        BY <1>1, <1>2 DEF LeapDay, Leap
<1>4. YearsUpTo(y) - YearsUpTo(y - 1) = 365 + (by(4) - by(100) + by(400))
    BY DEF YearsUpTo
<1>5. YearsUpTo(y) \in Int /\ YearsUpTo(y - 1) \in Int /\ LeapDay(y) \in {0, 1}
    BY DEF YearsUpTo, LeapDay
<1> HIDE DEF by
<1> QED
    BY <1>3, <1>4, <1>5

\* A month ends where the next begins, and a year from a month on has 365 or 366 days.
LEMMA BaseAdvances ==
    ASSUME NEW k \in Month
    PROVE  /\ Base(k) \in Int /\ LastDay(k) \in 28..31
           /\ Base(NextMonth(k)) = Base(k) + LastDay(k)
           /\ Base(<<k[1] + 1, k[2]>>) - Base(k) \in {365, 366}
<1> DEFINE y == k[1]
           m == k[2]
           e(n) == IF n > 2 THEN LeapDay(y) ELSE 0
<1>1. y \in Nat /\ m \in 1..12 /\ k = <<y, m>>
    BY DEF Month
<1> HIDE DEF y, m
<1>2. /\ LastDay(<<y, m>>) \in 28..31
      /\ Elapsed[m + 1] + e(m + 1) = Elapsed[m] + e(m) + LastDay(<<y, m>>)
    BY <1>1, MonthLengths
<1>3. Base(<<y, m>>) = YearsUpTo(y - 1) + Elapsed[m] + e(m) /\ Base(<<y, m>>) \in Int
    <2>1. Base(<<y, m>>) = YearsUpTo(y - 1) + Elapsed[m] + e(m)
        BY DEF Base
    <2>2. Base(<<y, m>>) \in Int
        BY <1>1, DayNumber, 0 \in Int
    <2> QED
        BY <2>1, <2>2
<1>4. /\ YearsUpTo(y) = YearsUpTo(y - 1) + 365 + LeapDay(y)
      /\ YearsUpTo(y) \in Int /\ YearsUpTo(y - 1) \in Int /\ LeapDay(y) \in {0, 1}
      /\ LeapDay(y + 1) \in {0, 1} /\ (y + 1) - 1 = y
    BY <1>1, YearDays
<1>5. Elapsed[m] \in Int /\ Elapsed[m + 1] \in Int /\ Elapsed[1] = 0 /\ Elapsed[13] = 365
    BY <1>1 DEF Elapsed
<1>6. Base(NextMonth(<<y, m>>)) = Base(<<y, m>>) + LastDay(<<y, m>>)
    <2>1. CASE m < 12
        <3>1. NextMonth(<<y, m>>) = <<y, m + 1>>
            BY <1>1, <2>1 DEF NextMonth
        <3>2. Base(<<y, m + 1>>) = YearsUpTo(y - 1) + Elapsed[m + 1] + e(m + 1)
            BY DEF Base
        <3> DEFINE a == YearsUpTo(y - 1)
                   b == Elapsed[m] + e(m)
                   c == Elapsed[m + 1] + e(m + 1)
        <3>3. a \in Int /\ b \in Int /\ c \in Int
            BY <1>4, <1>5
        <3>4. Base(<<y, m + 1>>) = a + c /\ Base(<<y, m>>) = a + b
            BY <1>3, <1>4, <1>5, <3>2
        <3>5. c = b + LastDay(<<y, m>>)
            BY <1>2
        <3> HIDE DEF a, b, c, e
        <3> QED
            BY <1>2, <3>1, <3>3, <3>4, <3>5
    <2>2. CASE m = 12
        <3>1. NextMonth(<<y, m>>) = <<y + 1, 1>>
            BY <1>1, <2>2 DEF NextMonth
        <3>2. Base(<<y + 1, 1>>) = YearsUpTo(y) + Elapsed[1]
            <4>1. Base(<<y + 1, 1>>) = YearsUpTo((y + 1) - 1) + Elapsed[1] + 0
                BY DEF Base
            <4> QED
                BY <1>4, <1>5, <4>1
        <3>3. 365 + LeapDay(y) = Elapsed[m] + e(m) + LastDay(<<y, m>>)
            BY <1>2, <1>5, <2>2
        <3> QED
            BY <1>2, <1>3, <1>4, <1>5, <3>1, <3>2, <3>3
    <2> QED
        BY <1>1, <2>1, <2>2
<1>7. Base(<<y + 1, m>>) - Base(<<y, m>>) \in {365, 366}
    <2>1. Base(<<y + 1, m>>) = YearsUpTo(y) + Elapsed[m] + (IF m > 2 THEN LeapDay(y + 1) ELSE 0)
        <3>1. Base(<<y + 1, m>>) = YearsUpTo((y + 1) - 1) + Elapsed[m]
                                     + (IF m > 2 THEN LeapDay(y + 1) ELSE 0)
            BY DEF Base
        <3> QED
            BY <1>4, <3>1
    <2> QED
        BY <1>1, <1>3, <1>4, <1>5, <2>1
<1> QED
    BY <1>1, <1>2, <1>3, <1>6, <1>7 DEF y, m

\* How often a weekday occurs in a month, as the gain of a function from it to the next.
LEMMA WeekdaysGained ==
    ASSUME NEW k \in Month, NEW w \in 0..6
    PROVE  /\ CountWeekdays(k, w) = (Base(NextMonth(k)) - w) \div 7 - (Base(k) - w) \div 7
           /\ CountWeekdays(k, w) \in Nat \ {0}
<1> DEFINE B == Base(k)
           L == LastDay(k)
<1>1. B \in Int /\ L \in 28..31 /\ Base(NextMonth(k)) = B + L
    BY BaseAdvances
<1>2. \A d \in 1..L : WeekdayOf(<<k[1], k[2], d>>) = (B + d) % 7
    <2> TAKE d \in 1..L
    <2>1. k[1] \in Nat /\ k[2] \in 1..12 /\ k = <<k[1], k[2]>> /\ d \in Int
        BY <1>1 DEF Month
    <2>2. DaysUpTo(<<k[1], k[2], d>>) = B + d
        BY <2>1, DayNumber
    <2> QED
        BY <2>2 DEF WeekdayOf
<1> HIDE DEF B
<1>3. CountWeekdays(k, w) = Cardinality({d \in 1..L : (B + d) % 7 = w})
    <2>1. {d \in 1..L : WeekdayOf(<<k[1], k[2], d>>) = w} = {d \in 1..L : (B + d) % 7 = w}
        BY <1>2
    <2> QED
        BY <2>1 DEF CountWeekdays
<1> HIDE DEF L
<1>4. CountWeekdays(k, w) = (B + L - w) \div 7 - (B - w) \div 7
    BY <1>1, <1>3, WeekdaysIn
<1>5. (B + L - w) \div 7 - (B - w) \div 7 \in Nat \ {0}
    BY <1>1
<1> QED
    BY <1>1, <1>4, <1>5 DEF B

\* How many payments a source makes before a month, up to a number of its own.
Gain(s, k) ==
    LET n == MonthDiff(Ym(s.created), k)
    IN  IF s.frequency = "monthly" THEN n
        ELSE IF s.frequency = "quarterly" THEN (n + 2) \div 3
        ELSE IF s.frequency = "yearly" THEN (n + 11) \div 12
        ELSE (Base(k) - PayWeekday(s)) \div 7

Paying(s, k) == SourceAmountInMonth(s, k) \div s.amount

\* The weekday a source pays on is one.
LEMMA PayWeekdayTyped ==
    ASSUME NEW s \in Source
    PROVE  PayWeekday(s) \in 0..6
<1>1. CASE s.payWeekday = NoWeekday
    <2> DEFINE a == s.created
    <2>1. a[1] \in Nat /\ a[2] \in 1..12 /\ a[3] \in Int /\ a = <<a[1], a[2], a[3]>>
        BY DateParts DEF Source
    <2>2. DaysUpTo(a) \in Int
        <3> HIDE DEF a
        <3>1. DaysUpTo(<<a[1], a[2], a[3]>>) = Base(<<a[1], a[2]>>) + a[3]
              /\ Base(<<a[1], a[2]>>) \in Int
            BY <2>1, DayNumber
        <3> QED
            BY <2>1, <3>1
    <2>3. PayWeekday(s) = DaysUpTo(a) % 7
        BY <1>1 DEF PayWeekday, WeekdayOf
    <2> HIDE DEF a
    <2> QED
        BY <2>2, <2>3
<1>2. CASE s.payWeekday # NoWeekday
    BY <1>2 DEF PayWeekday, Source
<1> QED
    BY <1>1, <1>2

\* While it is active a source pays, in each month since its creation, its amount as
\* often as the count grows.
LEMMA PaysByGain ==
    ASSUME NEW s \in Source, s.active, Ym(s.created) \in Month,
           NEW k \in Month, UpTo(Ym(s.created), k)
    PROVE  /\ Paying(s, k) = Gain(s, NextMonth(k)) - Gain(s, k)
           /\ k = Ym(s.created) => Paying(s, k) > 0
<1> DEFINE first == Ym(s.created)
           n == MonthDiff(first, k)
           a == s.amount
           w == PayWeekday(s)
<1>1. a \in Nat /\ a > 0 /\ s.frequency \in Frequencies
    BY LedgerAssumption DEF Source
<1>2. n \in Int /\ MonthDiff(first, NextMonth(k)) = n + 1 /\ (k = first => n = 0)
    <2>1. first \in Month
        OBVIOUS
    <2> HIDE DEF first
    <2>2. n \in Int /\ MonthDiff(first, NextMonth(k)) = n + 1
        BY <2>1, OneFurther
    <2>3. k = first => n = 0
        BY <2>1 DEF MonthDiff, Month
    <2> QED
        BY <2>2, <2>3
<1>3. ~Before(k, first) /\ ~Before(SourceEnd(s, k), k)
    BY MonthsOrdered DEF SourceEnd, Before, Month
<1>4. ASSUME NEW c \in Nat
      PROVE  (c * a) \div a = c /\ a \div a = 1 /\ 0 \div a = 0
    <2>1. (c * a) \div a = c /\ (1 * a) \div a = 1 /\ (0 * a) \div a = 0
        BY <1>1, TimesHeld
    <2>2. 1 * a = a /\ 0 * a = 0
        BY <1>1
    <2> QED
        BY <2>1, <2>2
<1>5. a \div a = 1 /\ 0 \div a = 0
    BY <1>4
<1>6. CASE s.frequency = "monthly"
    <2>1. Paying(s, k) = 1
        BY <1>3, <1>5, <1>6 DEF Paying, SourceAmountInMonth
    <2>2. Gain(s, NextMonth(k)) = n + 1 /\ Gain(s, k) = n
        BY <1>2, <1>6 DEF Gain
    <2> HIDE DEF n, first
    <2> QED
        BY <1>2, <2>1, <2>2
<1>7. CASE s.frequency = "quarterly"
    <2>1. Paying(s, k) = IF n % 3 = 0 THEN 1 ELSE 0
        BY <1>3, <1>5, <1>7 DEF Paying, SourceAmountInMonth, Pays
    <2>2. Gain(s, NextMonth(k)) = ((n + 1) + 2) \div 3 /\ Gain(s, k) = (n + 2) \div 3
        BY <1>2, <1>7 DEF Gain
    <2>3. ((n + 1) + 2) \div 3 - (n + 2) \div 3 = IF n % 3 = 0 THEN 1 ELSE 0
        <3> HIDE DEF n
        <3> QED
            BY <1>2
    <2>4. k = Ym(s.created) => n % 3 = 0
        BY <1>2
    <2> HIDE DEF n
    <2> QED
        BY <2>1, <2>2, <2>3, <2>4
<1>8. CASE s.frequency = "yearly"
    <2>1. Paying(s, k) = IF n % 12 = 0 THEN 1 ELSE 0
        BY <1>3, <1>5, <1>8 DEF Paying, SourceAmountInMonth, Pays
    <2>2. Gain(s, NextMonth(k)) = ((n + 1) + 11) \div 12 /\ Gain(s, k) = (n + 11) \div 12
        BY <1>2, <1>8 DEF Gain
    <2>3. ((n + 1) + 11) \div 12 - (n + 11) \div 12 = IF n % 12 = 0 THEN 1 ELSE 0
        <3> HIDE DEF n
        <3> QED
            BY <1>2
    <2>4. k = Ym(s.created) => n % 12 = 0
        BY <1>2
    <2> HIDE DEF n
    <2> QED
        BY <2>1, <2>2, <2>3, <2>4
<1>9. CASE s.frequency = "weekly"
    <2>1. w \in 0..6
        BY PayWeekdayTyped
    <2> HIDE DEF w
    <2>2. /\ CountWeekdays(k, w) = (Base(NextMonth(k)) - w) \div 7 - (Base(k) - w) \div 7
          /\ CountWeekdays(k, w) \in Nat \ {0}
        BY <2>1, WeekdaysGained
    <2>3. Paying(s, k) = CountWeekdays(k, w)
        <3>1. SourceAmountInMonth(s, k) = CountWeekdays(k, w) * a
            BY <1>3, <1>9 DEF SourceAmountInMonth, w
        <3>2. (CountWeekdays(k, w) * a) \div a = CountWeekdays(k, w)
            BY <1>4, <2>2
        <3> QED
            BY <3>1, <3>2 DEF Paying
    <2>4. Gain(s, NextMonth(k)) = (Base(NextMonth(k)) - w) \div 7
          /\ Gain(s, k) = (Base(k) - w) \div 7
        BY <1>9 DEF Gain, w
    <2> QED
        BY <2>2, <2>3, <2>4
<1> QED
    BY <1>1, <1>6, <1>7, <1>8, <1>9 DEF Frequencies

\* What the count grows by in a year.
LEMMA GainOfYear ==
    ASSUME NEW s \in Source, Ym(s.created) \in Month, NEW k \in Month
    PROVE  /\ Gain(s, k) \in Int
           /\ Gain(s, <<k[1] + 1, k[2]>>) - Gain(s, k) \in
                 CASE s.frequency = "monthly"   -> {12}
                   [] s.frequency = "quarterly" -> {4}
                   [] s.frequency = "yearly"    -> {1}
                   [] s.frequency = "weekly"    -> {52, 53}
<1> DEFINE first == Ym(s.created)
           n == MonthDiff(first, k)
           later == <<k[1] + 1, k[2]>>
           w == PayWeekday(s)
<1>1. s.frequency \in Frequencies
    BY DEF Source
<1>2. n \in Int /\ MonthDiff(first, later) = n + 12
    <2>1. first \in Month
        OBVIOUS
    <2> HIDE DEF first
    <2> QED
        BY <2>1, OneFurther
<1>3. CASE s.frequency = "monthly"
    <2>1. Gain(s, later) = n + 12 /\ Gain(s, k) = n
        BY <1>2, <1>3 DEF Gain
    <2> HIDE DEF n, first, later
    <2>2. Gain(s, later) - Gain(s, k) = 12 /\ Gain(s, k) \in Int
        BY <1>2, <2>1
    <2> QED
        BY <1>3, <2>2 DEF later
<1>4. CASE s.frequency = "quarterly"
    <2>1. Gain(s, later) = ((n + 12) + 2) \div 3 /\ Gain(s, k) = (n + 2) \div 3
        BY <1>2, <1>4 DEF Gain
    <2> HIDE DEF n, first, later
    <2>2. Gain(s, later) - Gain(s, k) = 4 /\ Gain(s, k) \in Int
        BY <1>2, <2>1
    <2> QED
        BY <1>4, <2>2 DEF later
<1>5. CASE s.frequency = "yearly"
    <2>1. Gain(s, later) = ((n + 12) + 11) \div 12 /\ Gain(s, k) = (n + 11) \div 12
        BY <1>2, <1>5 DEF Gain
    <2> HIDE DEF n, first, later
    <2>2. Gain(s, later) - Gain(s, k) = 1 /\ Gain(s, k) \in Int
        BY <1>2, <2>1
    <2> QED
        BY <1>5, <2>2 DEF later
<1>6. CASE s.frequency = "weekly"
    <2>1. Gain(s, later) = (Base(later) - w) \div 7 /\ Gain(s, k) = (Base(k) - w) \div 7
        BY <1>6 DEF Gain
    <2>2. w \in 0..6 /\ Base(k) \in Int /\ Base(later) - Base(k) \in {365, 366}
        BY BaseAdvances, PayWeekdayTyped
    <2>3. Base(later) \in Int
        <3>1. k[1] + 1 \in Nat /\ k[2] \in 1..12 /\ 0 \in Int
            BY DEF Month
        <3> QED
            BY <3>1, DayNumber
    <2> HIDE DEF w, later
    <2>4. Base(later) = Base(k) + 365 \/ Base(later) = Base(k) + 366
        BY <2>2, <2>3
    <2>5. Gain(s, later) - Gain(s, k) \in {52, 53} /\ Gain(s, k) \in Int
        BY <2>1, <2>2, <2>4
    <2> QED
        BY <1>6, <2>5 DEF later
<1> QED
    BY <1>1, <1>3, <1>4, <1>5, <1>6 DEF Frequencies

\* Every source pays in the month it was created, and in twelve months as often as its
\* frequency says, whatever the day it was created on and the day it pays on.
THEOREM PaysOnTime == Spec => []PaysPerYear
<1>1. FiguresInv => PaysPerYear
    <2> SUFFICES ASSUME FiguresInv, NEW s \in incomes, s.active
                 PROVE  LET first == Ym(s.created)
                            paid(k) == SourceAmountInMonth(s, k) \div s.amount
                        IN  /\ paid(first) > 0
                            /\ \A k \in MonthSpan(first, Current) :
                                  MapThenSumSet(paid, MonthSpan(k, YearEnd(k))) \in
                                      CASE s.frequency = "monthly"   -> {12}
                                        [] s.frequency = "quarterly" -> {4}
                                        [] s.frequency = "yearly"    -> {1}
                                        [] s.frequency = "weekly"    -> {52, 53}
        BY DEF PaysPerYear, YearEnd
    <2> DEFINE first == Ym(s.created)
               paid(k) == SourceAmountInMonth(s, k) \div s.amount
               times == CASE s.frequency = "monthly"   -> {12}
                          [] s.frequency = "quarterly" -> {4}
                          [] s.frequency = "yearly"    -> {1}
                          [] s.frequency = "weekly"    -> {52, 53}
    <2>1. s \in Source /\ first \in Month /\ UpTo(first, first)
        BY SourceMonths DEF UpTo
    <2>2. \A k \in Month : UpTo(first, k) =>
             /\ paid(k) = Gain(s, NextMonth(k)) - Gain(s, k)
             /\ k = first => paid(k) > 0
        BY <2>1, PaysByGain DEF Paying
    <2>3. \A k \in Month : /\ Gain(s, k) \in Int
                           /\ Gain(s, <<k[1] + 1, k[2]>>) - Gain(s, k) \in times
        BY <2>1, GainOfYear
    <2>4. ASSUME NEW k \in MonthSpan(first, Current)
          PROVE  MapThenSumSet(paid, MonthSpan(k, YearEnd(k))) \in times
        <3> DEFINE W == MonthSpan(k, YearEnd(k))
                   f == [j \in W |-> paid(j)]
                   G == [j \in Month |-> Gain(s, j)]
        <3>1. k \in Month /\ UpTo(first, k)
            <4>1. Current \in Month
                BY CurrentMonth DEF FiguresInv, SourceInv, TypeOK
            <4> HIDE DEF first
            <4> QED
                BY <2>1, <4>1, SpanHolds
        <3>2. /\ YearEnd(k) \in Month /\ UpTo(k, YearEnd(k))
              /\ NextMonth(YearEnd(k)) = <<k[1] + 1, k[2]>> /\ <<k[1] + 1, k[2]>> \in Month
            BY <3>1, AfterAYear
        <3>3. \A j \in W : j \in Month /\ UpTo(first, j) /\ NextMonth(j) \in Month
            <4> TAKE j \in W
            <4>1. j \in Month /\ UpTo(k, j)
                BY <3>1, <3>2, SpanHolds
            <4> HIDE DEF first, W
            <4> QED
                BY <2>1, <3>1, <4>1, MonthsTransitive, MonthsOrdered
        <3>4. \A j \in W : f[j] = G[NextMonth(j)] - G[j]
            <4> HIDE DEF paid, W, first
            <4> QED
                BY <2>2, <3>3
        <3>5. SumOf(f, W) = G[<<k[1] + 1, k[2]>>] - G[k]
            <4>1. \A j \in Month : G[j] \in Int
                BY <2>3
            <4> HIDE DEF f, G
            <4>2. SumOf(f, W) = G[NextMonth(YearEnd(k))] - G[k]
                BY <3>1, <3>2, <3>4, <4>1, Telescope
            <4> QED
                BY <3>2, <4>2
        <3>6. SumOf(f, W) \in times
            <4> HIDE DEF f, W, times
            <4> QED
                BY <2>3, <3>1, <3>2, <3>5
        <3>7. MapThenSumSet(paid, W) = SumOf(f, W)
            <4>1. ASSUME NEW g
                  PROVE  [t \in SUBSET W |-> IF t = {} THEN 0 ELSE f[Pick(t)] + g[t \ {Pick(t)}]]
                       = [t \in SUBSET W |-> IF t = {} THEN 0 ELSE paid(Pick(t)) + g[t \ {Pick(t)}]]
                <5> HIDE DEF W, paid
                <5> QED
                    BY DEF Pick
            <4> HIDE DEF f, W
            <4>2. SumOf(f, W) =
                    (CHOOSE g : g = [t \in SUBSET W |->
                        IF t = {} THEN 0 ELSE paid(Pick(t)) + g[t \ {Pick(t)}]])[W]
                BY <4>1 DEF SumOf, Sums
            <4> QED
                BY <4>2 DEF MapThenSumSet, MapThenFoldSet, Pick
        <3> QED
            BY <3>6, <3>7
    <2>5. paid(first) > 0
        BY <2>1, <2>2
    <2> HIDE DEF times
    <2> QED
        BY <2>4, <2>5 DEF times
<1> QED
    BY <1>1, RegistersSound, PTL
=============================================================================
