---------------------------- MODULE SignInProofs ----------------------------
(***************************************************************************)
(* What SignIn guarantees for every number of users, codes, handlers and   *)
(* attempts, and for every bound.  ChosenRowOwned and ChosenRowMatches tie *)
(* a verify in flight to the row it selected; with them TypeOK and         *)
(* SessionsEarned are inductive.  OverrunBounded is inductive by itself:   *)
(* a handler joins Counting(i) only below the cap, and moves one unit from *)
(* Counting(i) to attempts when it leaves.                                 *)
(***************************************************************************)
EXTENDS SignIn, FiniteSetTheorems, SequenceTheorems, TLAPS

\* Marking a row consumed changes that field only.
LEMMA SpentRow ==
  ASSUME NEW r \in Row
  PROVE  /\ Spent(r) \in Row
         /\ Spent(r).consumed
         /\ Spent(r).user = r.user
         /\ Spent(r).code = r.code
         /\ Spent(r).created = r.created
         /\ Spent(r).expires = r.expires
         /\ Spent(r).attempts = r.attempts
BY DEF Spent, Row

\* Counting an attempt adds one to that field only.
LEMMA CountedRow ==
  ASSUME NEW r \in Row
  PROVE  /\ Counted(r) \in Row
         /\ Counted(r).consumed = r.consumed
         /\ Counted(r).user = r.user
         /\ Counted(r).code = r.code
         /\ Counted(r).created = r.created
         /\ Counted(r).expires = r.expires
         /\ Counted(r).attempts = r.attempts + 1
BY DEF Counted, Row

\* A step never shortens the table of codes, and changes a row only by counting
\* an attempt or by consuming it; an untouched table is the common case.
RowsAge ==
    /\ otp' \in Seq(Row)
    /\ Len(otp') >= Len(otp)
    /\ \A i \in RowIds : OnlyAges(otp[i], otp'[i])

\* A row of the table is a row.
LEMMA RowAt ==
  ASSUME TypeOK, NEW i \in RowIds
  PROVE  otp[i] \in Row /\ otp[i].attempts \in Nat
<1>1. otp[i] \in Row
  BY DEF TypeOK, RowIds
<1> QED
  BY <1>1 DEF Row

\* An unchanged table has only aged.
LEMMA SameRows ==
  ASSUME TypeOK, UNCHANGED otp
  PROVE  RowsAge
<1>1. \A i \in RowIds : otp[i] \in Row /\ otp[i].attempts \in Nat
  BY RowAt
<1> QED
  BY <1>1 DEF TypeOK, RowsAge, OnlyAges, RowIds

\* Superseding codes keeps the rows and only consumes.
LEMMA InvalidateRows ==
  ASSUME TypeOK, NEW h \in Handlers, Invalidate(h)
  PROVE  /\ RowsAge
         /\ Len(otp') = Len(otp)
         /\ \A i \in RowIds : otp'[i].attempts = otp[i].attempts
<1> DEFINE u == handler[h].user
<1>1. \A i \in RowIds : otp[i] \in Row /\ otp[i].attempts \in Nat
  BY RowAt
<1>2. otp' = [i \in 1..Len(otp) |-> IF i \in Active(u) THEN Spent(otp[i]) ELSE otp[i]]
  BY DEF Invalidate, Superseded, RowIds
<1>3. \A i \in RowIds : otp'[i] = Spent(otp[i]) \/ otp'[i] = otp[i]
  BY <1>2 DEF RowIds
<1>4. \A i \in RowIds : otp'[i] \in Row
  BY <1>1, <1>3, SpentRow
<1>5. otp' \in Seq(Row) /\ Len(otp') = Len(otp)
  BY <1>2, <1>4 DEF TypeOK, RowIds
<1> QED
  BY <1>1, <1>3, <1>5, SpentRow DEF RowsAge, OnlyAges

\* Inserting a code leaves the rows before it alone.
LEMMA InsertRows ==
  ASSUME TypeOK, NEW h \in Handlers, Insert(h)
  PROVE  /\ RowsAge
         /\ Len(otp') = Len(otp) + 1
         /\ \A i \in RowIds : otp'[i] = otp[i]
         /\ otp'[Len(otp) + 1] = NewRow(handler[h].user, handler[h].code)
<1>1. handler[h] \in Busy
  BY DEF Insert, TypeOK, Idle
<1>2. NewRow(handler[h].user, handler[h].code) \in Row
  BY <1>1, SignInAssumption DEF NewRow, Row, Busy, TypeOK
<1>3. /\ otp' \in Seq(Row)
      /\ Len(otp') = Len(otp) + 1
      /\ \A i \in RowIds : otp'[i] = otp[i]
      /\ otp'[Len(otp) + 1] = NewRow(handler[h].user, handler[h].code)
  BY <1>2, AppendProperties DEF Insert, TypeOK, RowIds
<1>4. \A i \in RowIds : otp[i].attempts \in Nat
  BY RowAt
<1>5. Len(otp) \in Nat
  BY DEF TypeOK
<1> QED
  BY <1>3, <1>4, <1>5 DEF RowsAge, OnlyAges

\* Counting an attempt only ages one row.
LEMMA CountAttemptRows ==
  ASSUME TypeOK, ChosenRowOwned, NEW h \in Handlers, CountAttempt(h)
  PROVE  /\ RowsAge
         /\ Len(otp') = Len(otp)
         /\ handler[h].row \in RowIds
         /\ \A i \in RowIds : otp'[i].attempts =
               IF i = handler[h].row THEN otp[i].attempts + 1 ELSE otp[i].attempts
<1> DEFINE k == handler[h].row
<1>1. k \in RowIds
  BY DEF CountAttempt, ChosenRowOwned, Chosen
<1>2. \A i \in RowIds : otp[i] \in Row /\ otp[i].attempts \in Nat
  BY RowAt
<1>3. Counted(otp[k]) \in Row
  BY <1>1, <1>2, CountedRow
<1>4. otp' = [otp EXCEPT ![k] = Counted(otp[k])]
  BY DEF CountAttempt
<1>5. /\ otp' \in Seq(Row)
      /\ Len(otp') = Len(otp)
      /\ \A i \in RowIds : otp'[i] = IF i = k THEN Counted(otp[k]) ELSE otp[i]
  <2>1. otp \in Seq(Row)
    BY DEF TypeOK
  <2> QED
    BY <1>1, <1>3, <1>4, <2>1, ExceptSeq DEF RowIds
<1>6. Len(otp) \in Nat
  BY DEF TypeOK
<1> QED
  BY <1>1, <1>2, <1>5, <1>6, CountedRow, SMTT(60) DEF RowsAge, OnlyAges

\* Consuming a code only ages one row.
LEMMA ConsumeRows ==
  ASSUME TypeOK, ChosenRowOwned, NEW h \in Handlers, Consume(h)
  PROVE  /\ RowsAge
         /\ Len(otp') = Len(otp)
         /\ handler[h].row \in RowIds
         /\ otp'[handler[h].row].consumed
         /\ \A i \in RowIds : otp'[i].attempts = otp[i].attempts
<1> DEFINE k == handler[h].row
<1>1. k \in RowIds
  BY DEF Consume, ChosenRowOwned, Chosen
<1>2. \A i \in RowIds : otp[i] \in Row /\ otp[i].attempts \in Nat
  BY RowAt
<1>3. Spent(otp[k]) \in Row
  BY <1>1, <1>2, SpentRow
<1>4. otp' = [otp EXCEPT ![k] = Spent(otp[k])]
  BY DEF Consume
<1>5. /\ otp' \in Seq(Row)
      /\ Len(otp') = Len(otp)
      /\ \A i \in RowIds : otp'[i] = IF i = k THEN Spent(otp[k]) ELSE otp[i]
  <2>1. otp \in Seq(Row)
    BY DEF TypeOK
  <2> QED
    BY <1>1, <1>3, <1>4, <2>1, ExceptSeq DEF RowIds
<1>6. Len(otp) \in Nat
  BY DEF TypeOK
<1> QED
  BY <1>1, <1>2, <1>5, <1>6, SpentRow DEF RowsAge, OnlyAges

-----------------------------------------------------------------------------
(* One action of Next at a time. *)

\* Which action a step is: used to split every proof about Next the same way.
LEMMA NextSteps ==
  ASSUME [Next]_vars
  PROVE  \/ \E h \in Handlers, u \in Users, c \in Codes : BeginRequest(h, u, c)
         \/ \E h \in Handlers, u \in Users, c \in Codes : BeginVerify(h, u, c)
         \/ \E h \in Handlers : Invalidate(h)
         \/ \E h \in Handlers : Insert(h)
         \/ \E h \in Handlers : SelectNothing(h)
         \/ \E h \in Handlers : SelectRow(h)
         \/ \E h \in Handlers : CountAttempt(h)
         \/ \E h \in Handlers : Consume(h)
         \/ \E h \in Handlers : Mint(h)
         \/ \E h \in Handlers : Fail(h)
         \/ \E t \in DOMAIN sessions : SignOut(t)
         \/ Tick
         \/ Crash
         \/ UNCHANGED vars
BY DEF Next, Step

\* Only four steps write otp_codes, and each of them lets rows only age.
LEMMA NextRows ==
  ASSUME TypeOK, ChosenRowOwned, [Next]_vars
  PROVE  RowsAge
<1>1. ASSUME NEW h \in Handlers, Invalidate(h) PROVE RowsAge
  BY <1>1, InvalidateRows
<1>2. ASSUME NEW h \in Handlers, Insert(h) PROVE RowsAge
  BY <1>2, InsertRows
<1>3. ASSUME NEW h \in Handlers, CountAttempt(h) PROVE RowsAge
  BY <1>3, CountAttemptRows
<1>4. ASSUME NEW h \in Handlers, Consume(h) PROVE RowsAge
  BY <1>4, ConsumeRows
<1>5. CASE UNCHANGED otp
  BY <1>5, SameRows
<1> QED
  BY <1>1, <1>2, <1>3, <1>4, <1>5, NextSteps
     DEF BeginRequest, BeginVerify, SelectNothing, SelectRow, Mint, Fail, SignOut,
         Tick, Crash, vars

\* The row a select can return is an active row of the user.
LEMMA LatestActive ==
  ASSUME NEW u, NEW i \in Latest(Active(u))
  PROVE  i \in RowIds /\ otp[i].user = u
BY DEF Latest, Active

\* A handler is idle or in a step of a request, also after each step.
LEMMA HandlersTyped ==
  ASSUME TypeOK, [Next]_vars
  PROVE  handler' \in [Handlers -> {Idle} \cup Busy]
<1> USE DEF TypeOK
<1>1. ASSUME NEW h \in Handlers, handler[h].pc # "idle" PROVE handler[h] \in Busy
  BY <1>1 DEF Idle
<1>2. ASSUME NEW h \in Handlers, NEW u \in Users, NEW c \in Codes,
             BeginRequest(h, u, c) \/ BeginVerify(h, u, c)
      PROVE  handler' \in [Handlers -> {Idle} \cup Busy]
  BY <1>2 DEF BeginRequest, BeginVerify, Busy, IssueSteps, VerifySteps
<1>3. ASSUME NEW h \in Handlers,
             Invalidate(h) \/ CountAttempt(h) \/ Consume(h)
      PROVE  handler' \in [Handlers -> {Idle} \cup Busy]
  <2>1. handler[h] \in Busy
    BY <1>1, <1>3 DEF Invalidate, CountAttempt, Consume
  <2>2. \A p \in IssueSteps \cup VerifySteps : [handler[h] EXCEPT !.pc = p] \in Busy
    BY <2>1 DEF Busy
  <2>3. {"insert", "consume", "mint"} \subseteq IssueSteps \cup VerifySteps
    BY DEF IssueSteps, VerifySteps
  <2> QED
    BY <1>3, <2>2, <2>3 DEF Invalidate, CountAttempt, Consume
<1>4. ASSUME NEW h \in Handlers, SelectRow(h)
      PROVE  handler' \in [Handlers -> {Idle} \cup Busy]
  <2>1. handler[h] \in Busy
    BY <1>1, <1>4 DEF SelectRow
  <2>2. PICK i \in Latest(Active(handler[h].user)) :
          handler' = [handler EXCEPT ![h] =
                         IF Capped(otp[i]) \/ Expired(otp[i])
                         THEN Idle
                         ELSE [@ EXCEPT !.pc = "count", !.row = i]]
    BY <1>4 DEF SelectRow
  <2>3. i \in Nat
    BY <2>2, LatestActive DEF RowIds
  <2>4. [handler[h] EXCEPT !.pc = "count", !.row = i] \in Busy
    BY <2>1, <2>3 DEF Busy, IssueSteps, VerifySteps
  <2> QED
    BY <2>2, <2>4
<1>5. ASSUME NEW h \in Handlers,
             Insert(h) \/ SelectNothing(h) \/ Mint(h) \/ Fail(h)
      PROVE  handler' \in [Handlers -> {Idle} \cup Busy]
  BY <1>5 DEF Insert, SelectNothing, Mint, Fail
<1>6. ASSUME NEW t \in DOMAIN sessions, SignOut(t)
      PROVE  handler' \in [Handlers -> {Idle} \cup Busy]
  BY <1>6 DEF SignOut
<1>7. CASE Tick \/ Crash \/ UNCHANGED vars
  BY <1>7 DEF Tick, Crash, vars
<1> QED
  BY <1>2, <1>3, <1>4, <1>5, <1>6, <1>7, NextSteps

\* A token is minted at the end of the history of tokens.
LEMMA MintTokens ==
  ASSUME TypeOK, NEW h \in Handlers, Mint(h)
  PROVE  /\ handler[h] \in Busy
         /\ earned' \in Seq(Nat)
         /\ Len(earned') = Len(earned) + 1
         /\ \A t \in Tokens : earned'[t] = earned[t]
         /\ earned'[NewToken] = handler[h].row
         /\ DOMAIN sessions' = DOMAIN sessions \cup {NewToken}
         /\ sessions'[NewToken] = SessionFor(h)
         /\ \A t \in DOMAIN sessions : sessions'[t] = sessions[t]
<1>1. handler[h] \in Busy
  BY DEF Mint, TypeOK, Idle
<1>2. handler[h].row \in Nat
  BY <1>1 DEF Busy
<1>3. /\ earned' \in Seq(Nat)
      /\ Len(earned') = Len(earned) + 1
      /\ \A t \in Tokens : earned'[t] = earned[t]
      /\ earned'[Len(earned) + 1] = handler[h].row
  BY <1>2, AppendProperties DEF Mint, TypeOK, Tokens
<1>4. NewToken \notin DOMAIN sessions
  BY DEF TypeOK, Tokens, NewToken
<1> QED
  BY <1>1, <1>3, <1>4 DEF Mint, NewToken

-----------------------------------------------------------------------------
(* The inductive invariant. *)

Inv ==
    /\ TypeOK
    /\ ChosenRowOwned
    /\ ChosenRowMatches
    /\ SessionsEarned

\* The tables start empty and every handler idle.
LEMMA InitInv == Init => Inv
<1> SUFFICES ASSUME Init PROVE Inv
  OBVIOUS
<1>1. TypeOK
  BY DEF Init, TypeOK, Tokens
<1>2. \A h \in Handlers : handler[h].pc = "idle"
  BY DEF Init, Idle
<1>3. Tokens = {}
  BY DEF Init, Tokens
<1> QED
  BY <1>1, <1>2, <1>3 DEF Inv, ChosenRowOwned, ChosenRowMatches, Chosen, SessionsEarned

\* Each step keeps the types.
LEMMA NextTypeOK ==
  ASSUME TypeOK, ChosenRowOwned, [Next]_vars
  PROVE  TypeOK'
<1>1. otp' \in Seq(Row)
  BY NextRows DEF RowsAge, OnlyAges
<1>2. handler' \in [Handlers -> {Idle} \cup Busy]
  BY HandlersTyped
<1>3. now' \in Nat /\ faults' \in Nat
  <2>1. now \in Nat /\ faults \in Nat
    BY DEF TypeOK
  <2>2. now' = now \/ now' = now + 1
    BY NextSteps DEF BeginRequest, BeginVerify, Invalidate, Insert, SelectNothing,
       SelectRow, CountAttempt, Consume, Mint, Fail, SignOut, Tick, Crash, vars
  <2>3. faults' = faults \/ faults' = faults + 1
    BY NextSteps DEF BeginRequest, BeginVerify, Invalidate, Insert, SelectNothing,
       SelectRow, CountAttempt, Consume, Mint, Fail, SignOut, Tick, Crash, vars
  <2> QED
    BY <2>1, <2>2, <2>3
<1> DEFINE SessionsTyped ==
             /\ earned' \in Seq(Nat)
             /\ DOMAIN sessions' \subseteq Tokens'
             /\ sessions' \in [DOMAIN sessions' -> Session]
<1>4. SessionsTyped
  <2>1. ASSUME NEW h \in Handlers, Mint(h) PROVE SessionsTyped
    <3>1. SessionFor(h) \in Session
      <4>1. handler[h].user \in Users
        BY <2>1, MintTokens DEF Busy
      <4>2. now + SessionLife \in Nat
        BY SignInAssumption DEF TypeOK
      <4> QED
        BY <4>1, <4>2 DEF SessionFor, Session
    <3>2. DOMAIN sessions' \subseteq Tokens'
      BY <2>1, MintTokens DEF TypeOK, Tokens, NewToken
    <3>3. \A t \in DOMAIN sessions' : sessions'[t] \in Session
      BY <2>1, <3>1, MintTokens DEF TypeOK
    <3>4. sessions' = [t \in DOMAIN sessions' |-> sessions'[t]]
      BY <2>1 DEF Mint
    <3> QED
      BY <2>1, <3>2, <3>3, <3>4, MintTokens
  <2>2. ASSUME NEW t \in DOMAIN sessions, SignOut(t) PROVE SessionsTyped
    BY <2>2 DEF SignOut, TypeOK, Tokens
  <2>3. CASE UNCHANGED <<earned, sessions>>
    BY <2>3 DEF TypeOK, Tokens
  <2> QED
    BY <2>1, <2>2, <2>3, NextSteps DEF BeginRequest, BeginVerify, Invalidate, Insert,
       SelectNothing, SelectRow, CountAttempt, Consume, Fail, Tick, Crash, vars
<1>5. overlapped' \subseteq Users
  <2>1. overlapped \subseteq Users
    BY DEF TypeOK
  <2>2. ASSUME NEW h \in Handlers, NEW u \in Users, NEW c \in Codes,
               BeginRequest(h, u, c) \/ BeginVerify(h, u, c)
        PROVE  overlapped' \subseteq Users
    BY <2>1, <2>2 DEF BeginRequest, BeginVerify, Overlapped
  <2>3. CASE UNCHANGED overlapped
    BY <2>1, <2>3
  <2> QED
    BY <2>2, <2>3, NextSteps DEF Invalidate, Insert, SelectNothing, SelectRow,
       CountAttempt, Consume, Mint, Fail, SignOut, Tick, Crash, vars
<1> QED
  BY <1>1, <1>2, <1>3, <1>4, <1>5 DEF TypeOK

\* How a handler comes to hold a row: it stays as it was, or it took one of the
\* three steps that lead to the next of the steps that hold one.
LEMMA ChosenMoves ==
  ASSUME TypeOK, [Next]_vars, NEW g \in Handlers, handler'[g].pc \in Chosen
  PROVE  \/ handler'[g] = handler[g]
         \/ /\ SelectRow(g)
            /\ handler'[g].pc = "count"
            /\ handler'[g].user = handler[g].user
            /\ handler'[g].row \in Latest(Active(handler[g].user))
            /\ ~Capped(otp[handler'[g].row])
         \/ /\ CountAttempt(g)
            /\ handler'[g] = [handler[g] EXCEPT !.pc = "consume"]
            /\ otp[handler[g].row].code = handler[g].code
         \/ /\ Consume(g)
            /\ handler'[g] = [handler[g] EXCEPT !.pc = "mint"]
<1> DEFINE Goal == \/ handler'[g] = handler[g]
                   \/ /\ SelectRow(g)
                      /\ handler'[g].pc = "count"
                      /\ handler'[g].user = handler[g].user
                      /\ handler'[g].row \in Latest(Active(handler[g].user))
                      /\ ~Capped(otp[handler'[g].row])
                   \/ /\ CountAttempt(g)
                      /\ handler'[g] = [handler[g] EXCEPT !.pc = "consume"]
                      /\ otp[handler[g].row].code = handler[g].code
                   \/ /\ Consume(g)
                      /\ handler'[g] = [handler[g] EXCEPT !.pc = "mint"]
<1> SUFFICES Goal
  OBVIOUS
<1>1. handler \in [Handlers -> {Idle} \cup Busy]
  BY DEF TypeOK
<1>2. \A h \in Handlers : handler[h].pc # "idle" => handler[h] \in Busy
  BY <1>1 DEF Idle
<1>3. Idle.pc \notin Chosen
  BY DEF Idle, Chosen
<1>4. ASSUME NEW h \in Handlers, NEW u \in Users, NEW c \in Codes,
             BeginRequest(h, u, c) \/ BeginVerify(h, u, c)
      PROVE  Goal
  BY <1>1, <1>4 DEF BeginRequest, BeginVerify, Chosen
<1>5. ASSUME NEW h \in Handlers,
             Insert(h) \/ SelectNothing(h) \/ Mint(h) \/ Fail(h) \/ Crash
      PROVE  Goal
  BY <1>1, <1>3, <1>5 DEF Insert, SelectNothing, Mint, Fail, Crash
<1>6. ASSUME NEW h \in Handlers, Invalidate(h)
      PROVE  Goal
  <2>1. handler[h] \in Busy
    BY <1>2, <1>6 DEF Invalidate
  <2> QED
    BY <1>1, <1>6, <2>1 DEF Invalidate, Chosen, Busy
<1>7. ASSUME NEW h \in Handlers, SelectRow(h)
      PROVE  Goal
  <2>1. handler[h] \in Busy
    BY <1>2, <1>7 DEF SelectRow
  <2>2. PICK i \in Latest(Active(handler[h].user)) :
          handler' = [handler EXCEPT ![h] =
                         IF Capped(otp[i]) \/ Expired(otp[i])
                         THEN Idle
                         ELSE [@ EXCEPT !.pc = "count", !.row = i]]
    BY <1>7 DEF SelectRow
  <2>3. CASE g # h
    BY <1>1, <2>2, <2>3
  <2>4. CASE g = h
    <3>1. /\ handler'[g] = [handler[g] EXCEPT !.pc = "count", !.row = i]
          /\ ~Capped(otp[i])
      BY <1>1, <1>3, <2>2, <2>4
    <3>2. handler[g] \in Busy
      BY <2>1, <2>4
    <3>3. /\ handler'[g].pc = "count"
          /\ handler'[g].user = handler[g].user
          /\ handler'[g].row = i
      BY <3>1, <3>2 DEF Busy
    <3> QED
      BY <1>7, <2>2, <2>4, <3>1, <3>3
  <2> QED
    BY <2>3, <2>4
<1>8. ASSUME NEW h \in Handlers, CountAttempt(h)
      PROVE  Goal
  BY <1>1, <1>3, <1>8 DEF CountAttempt
<1>9. ASSUME NEW h \in Handlers, Consume(h)
      PROVE  Goal
  BY <1>1, <1>9 DEF Consume
<1>10. ASSUME NEW t \in DOMAIN sessions, SignOut(t)
       PROVE  Goal
  BY <1>10 DEF SignOut
<1>11. CASE Tick \/ UNCHANGED vars
  BY <1>11 DEF Tick, vars
<1> QED
  BY <1>4, <1>5, <1>6, <1>7, <1>8, <1>9, <1>10, <1>11, NextSteps

\* A row of the table as it is after a step is a row.
LEMMA NextRowAt ==
  ASSUME TypeOK', NEW i \in RowIds'
  PROVE  otp'[i].attempts \in Nat
<1>1. otp'[i] \in Row
  BY DEF TypeOK, RowIds
<1> QED
  BY <1>1 DEF Row

\* Each step keeps a handler's chosen row one of its own user.
LEMMA NextChosenRowOwned ==
  ASSUME TypeOK, ChosenRowOwned, [Next]_vars
  PROVE  ChosenRowOwned'
<1> SUFFICES ASSUME NEW g \in Handlers, handler'[g].pc \in Chosen
             PROVE  /\ handler'[g].row \in RowIds'
                    /\ otp'[handler'[g].row].user = handler'[g].user
  BY DEF ChosenRowOwned
<1>1. RowsAge
  BY NextRows
<1>2. RowIds \subseteq RowIds'
  BY <1>1 DEF RowsAge, OnlyAges, RowIds, TypeOK
<1>3. CASE handler'[g] = handler[g]
  BY <1>1, <1>2, <1>3 DEF RowsAge, OnlyAges, ChosenRowOwned
<1>4. CASE /\ handler'[g].user = handler[g].user
           /\ handler'[g].row \in Latest(Active(handler[g].user))
  <2>1. /\ handler'[g].row \in RowIds
        /\ otp[handler'[g].row].user = handler[g].user
    BY <1>4, LatestActive
  <2> QED
    BY <1>1, <1>2, <1>4, <2>1 DEF RowsAge, OnlyAges
<1> DEFINE Advances(p) == handler'[g] = [handler[g] EXCEPT !.pc = p]
<1>5. ASSUME \/ CountAttempt(g) /\ Advances("consume")
             \/ Consume(g) /\ Advances("mint")
      PROVE  /\ handler'[g].row \in RowIds'
             /\ otp'[handler'[g].row].user = handler'[g].user
  <2>1. handler[g].pc \in Chosen /\ handler[g] \in Busy
    BY <1>5 DEF CountAttempt, Consume, Chosen, TypeOK, Idle
  <2>2. handler'[g].row = handler[g].row /\ handler'[g].user = handler[g].user
    BY <1>5, <2>1 DEF Busy
  <2> QED
    BY <1>1, <1>2, <2>1, <2>2 DEF RowsAge, OnlyAges, ChosenRowOwned
<1> QED
  BY <1>3, <1>4, <1>5, ChosenMoves

\* Each step keeps what a handler past the comparison knows of its row.
LEMMA NextChosenRowMatches ==
  ASSUME TypeOK, ChosenRowOwned, ChosenRowMatches, [Next]_vars
  PROVE  ChosenRowMatches'
<1> DEFINE Matches(g) == /\ handler'[g].pc \in {"consume", "mint"} =>
                               /\ otp'[handler'[g].row].code = handler'[g].code
                               /\ otp'[handler'[g].row].attempts > 0
                         /\ handler'[g].pc = "mint" => otp'[handler'[g].row].consumed
<1> SUFFICES ASSUME NEW g \in Handlers, handler'[g].pc \in {"consume", "mint"}
             PROVE  Matches(g)
  BY DEF ChosenRowMatches
<1>1. RowsAge
  BY NextRows
<1>2. \A i \in RowIds : otp[i].attempts \in Nat
  BY RowAt
<1>3. \A i \in RowIds : otp'[i].attempts \in Nat
  <2>1. \A i \in RowIds' : otp'[i].attempts \in Nat
    BY NextTypeOK, NextRowAt
  <2> QED
    BY <1>1, <2>1 DEF RowsAge, OnlyAges, RowIds, TypeOK
<1>4. CASE handler'[g] = handler[g]
  <2>1. handler[g].row \in RowIds
    BY <1>4 DEF ChosenRowOwned, Chosen
  <2> QED
    BY <1>1, <1>2, <1>3, <1>4, <2>1 DEF RowsAge, OnlyAges, ChosenRowMatches
<1>5. CASE CountAttempt(g) /\ handler'[g] = [handler[g] EXCEPT !.pc = "consume"]
           /\ otp[handler[g].row].code = handler[g].code
  <2>1. /\ handler[g].row \in RowIds
        /\ otp'[handler[g].row].attempts = otp[handler[g].row].attempts + 1
    BY <1>5, CountAttemptRows
  <2>2. handler'[g].row = handler[g].row /\ handler'[g].code = handler[g].code
        /\ handler'[g].pc = "consume"
    <3>1. handler[g] \in Busy
      BY <1>5 DEF CountAttempt, TypeOK, Idle
    <3> QED
      BY <1>5, <3>1 DEF Busy
  <2> QED
    BY <1>1, <1>2, <1>5, <2>1, <2>2 DEF RowsAge, OnlyAges
<1>6. CASE Consume(g) /\ handler'[g] = [handler[g] EXCEPT !.pc = "mint"]
  <2>1. handler[g].row \in RowIds /\ otp'[handler[g].row].consumed
    BY <1>6, ConsumeRows
  <2>2. handler'[g].row = handler[g].row /\ handler'[g].code = handler[g].code
        /\ handler[g].pc = "consume"
    <3>1. handler[g] \in Busy /\ handler[g].pc = "consume"
      BY <1>6 DEF Consume, TypeOK, Idle
    <3> QED
      BY <1>6, <3>1 DEF Busy
  <2> QED
    BY <1>1, <1>2, <1>3, <2>1, <2>2 DEF RowsAge, OnlyAges, ChosenRowMatches
<1> QED
  BY <1>4, <1>5, <1>6, ChosenMoves DEF Chosen

\* Each step keeps every token earned: only Mint adds one, from a consumed row.
LEMMA NextSessionsEarned ==
  ASSUME Inv, [Next]_vars
  PROVE  SessionsEarned'
<1> USE DEF Inv
<1>1. RowsAge
  BY NextRows
<1>2. RowIds \subseteq RowIds'
  BY <1>1 DEF RowsAge, OnlyAges, RowIds, TypeOK
<1>3. \A i \in RowIds : otp[i].attempts \in Nat /\ otp'[i].attempts \in Nat
  <2>1. \A i \in RowIds' : otp'[i].attempts \in Nat
    BY NextTypeOK, NextRowAt
  <2> QED
    BY <1>2, <2>1, RowAt
<1> DEFINE Earned(t) == /\ earned'[t] \in RowIds'
                        /\ otp'[earned'[t]].attempts > 0
                        /\ otp'[earned'[t]].consumed
                        /\ t \in DOMAIN sessions' =>
                              sessions'[t].user = otp'[earned'[t]].user
<1>4. ASSUME NEW t \in Tokens, earned'[t] = earned[t],
             t \in DOMAIN sessions' => t \in DOMAIN sessions /\ sessions'[t] = sessions[t]
      PROVE  Earned(t)
  BY <1>1, <1>2, <1>3, <1>4 DEF SessionsEarned, RowsAge, OnlyAges
<1>5. ASSUME NEW h \in Handlers, Mint(h) PROVE SessionsEarned'
  <2>1. handler[h].row \in RowIds /\ handler[h].pc = "mint"
    BY <1>5 DEF Mint, ChosenRowOwned, Chosen
  <2>2. Earned(NewToken)
    <3>1. sessions'[NewToken].user = handler[h].user
      <4>1. sessions'[NewToken] = SessionFor(h)
        BY <1>5, MintTokens
      <4> QED
        BY <4>1 DEF SessionFor
    <3>2. /\ otp[handler[h].row].attempts > 0
          /\ otp[handler[h].row].consumed
          /\ otp[handler[h].row].user = handler[h].user
      BY <2>1 DEF ChosenRowMatches, ChosenRowOwned, Chosen
    <3>3. otp' = otp /\ earned'[NewToken] = handler[h].row
      BY <1>5, MintTokens DEF Mint
    <3> QED
      BY <1>2, <2>1, <3>1, <3>2, <3>3
  <2>3. \A t \in Tokens : Earned(t)
    <3>1. \A t \in Tokens : /\ earned'[t] = earned[t]
                            /\ t # NewToken
      BY <1>5, MintTokens, SMTT(60) DEF Tokens, NewToken, TypeOK
    <3>2. \A t \in Tokens : t \in DOMAIN sessions' =>
             t \in DOMAIN sessions /\ sessions'[t] = sessions[t]
      BY <1>5, <3>1, MintTokens
    <3> QED
      BY <1>4, <3>1, <3>2
  <2>4. Tokens' = Tokens \cup {NewToken}
    BY <1>5, MintTokens DEF Tokens, NewToken, TypeOK
  <2> QED
    BY <2>2, <2>3, <2>4 DEF SessionsEarned
<1>6. ASSUME NEW t \in DOMAIN sessions, SignOut(t) PROVE SessionsEarned'
  <2>1. \A s \in DOMAIN sessions' : s \in DOMAIN sessions /\ sessions'[s] = sessions[s]
    BY <1>6 DEF SignOut
  <2>2. earned' = earned /\ Tokens' = Tokens
    BY <1>6 DEF SignOut, Tokens
  <2> QED
    BY <1>4, <2>1, <2>2 DEF SessionsEarned
<1>7. CASE UNCHANGED <<earned, sessions>>
  <2>1. Tokens' = Tokens
    BY <1>7 DEF Tokens
  <2> QED
    BY <1>4, <1>7, <2>1 DEF SessionsEarned
<1> QED
  BY <1>5, <1>6, <1>7, NextSteps DEF BeginRequest, BeginVerify, Invalidate, Insert,
     SelectNothing, SelectRow, CountAttempt, Consume, Fail, Tick, Crash, vars

\* Each step keeps the invariant.
LEMMA NextInv == Inv /\ [Next]_vars => Inv'
BY NextTypeOK, NextChosenRowOwned, NextChosenRowMatches, NextSessionsEarned DEF Inv

\* The inductive invariant (types, chosen rows, earned sessions) holds of every
\* reachable state.
THEOREM Invariance == Spec => []Inv
BY InitInv, NextInv, PTL DEF Spec

\* The tables and the handlers keep their types, whatever the interleaving.
THEOREM TypeCorrect == Spec => []TypeOK
BY Invariance, PTL DEF Inv

\* No session without a spent code of the same user (CreateSession runs only on
\* VerifyOK), for any number of concurrent requests, failures and crashes.
THEOREM EverySessionEarned == Spec => []SessionsEarned
BY Invariance, PTL DEF Inv

-----------------------------------------------------------------------------
(* The attempt counter under concurrency. *)

\* The handlers about to count an attempt are finitely many.
LEMMA CountingFinite ==
  ASSUME NEW i
  PROVE  /\ IsFiniteSet(Counting(i))
         /\ Cardinality(Counting(i)) \in Nat
         /\ Cardinality(Counting(i)) <= Cardinality(Handlers)
<1>1. Counting(i) \subseteq Handlers
  BY DEF Counting
<1> QED
  BY <1>1, FS_Subset, FS_CardinalityType, SignInAssumption

\* The same after a step.
LEMMA CountingFiniteNext ==
  ASSUME NEW i
  PROVE  /\ IsFiniteSet(Counting(i)')
         /\ Cardinality(Counting(i)') \in Nat
         /\ Cardinality(Counting(i)') <= Cardinality(Handlers)
<1>1. Counting(i)' \subseteq Handlers
  BY DEF Counting
<1> QED
  BY <1>1, FS_Subset, FS_CardinalityType, SignInAssumption

\* Each step keeps attempts made and attempts about to be counted under the bound.
LEMMA NextOverrunBounded ==
  ASSUME Inv, OverrunBounded, [Next]_vars
  PROVE  OverrunBounded'
<1> USE DEF Inv
<1> DEFINE N == Cardinality(Handlers)
           Bounded(i) == otp'[i].attempts + Cardinality(Counting(i)') < MaxAttempts + N
<1> SUFFICES ASSUME NEW i \in RowIds' PROVE Bounded(i)
  BY DEF OverrunBounded
<1>1. N \in Nat /\ MaxAttempts \in Nat \ {0}
  BY FS_CardinalityType, SignInAssumption
<1>2. Cardinality(Counting(i)') \in Nat /\ Cardinality(Counting(i)') <= N
  BY CountingFiniteNext
<1>3. otp'[i].attempts \in Nat
  BY NextTypeOK, NextRowAt
<1>4. CASE otp'[i].attempts < MaxAttempts
  BY <1>1, <1>2, <1>3, <1>4
<1>5. ASSUME otp'[i].attempts >= MaxAttempts, i \notin RowIds PROVE FALSE
  <2>1. PICK h \in Handlers : Insert(h)
    <3>1. Len(otp') # Len(otp)
      BY <1>5 DEF RowIds
    <3> QED
      BY <3>1, InvalidateRows, CountAttemptRows, ConsumeRows, NextSteps
         DEF BeginRequest, BeginVerify, SelectNothing, SelectRow, Mint, Fail, SignOut,
             Tick, Crash, vars
  <2>2. i = Len(otp) + 1
    BY <1>5, <2>1, InsertRows DEF RowIds, TypeOK
  <2>3. otp'[i].attempts = 0
    <3>1. otp'[i] = NewRow(handler[h].user, handler[h].code)
      BY <2>1, <2>2, InsertRows
    <3> QED
      BY <3>1 DEF NewRow
  <2> QED
    BY <1>1, <1>5, <2>3
<1>6. ASSUME i \in RowIds, otp'[i].attempts >= MaxAttempts PROVE Bounded(i)
  <2>1. otp[i].attempts \in Nat
    BY <1>6, RowAt
  <2>2. /\ IsFiniteSet(Counting(i))
        /\ Cardinality(Counting(i)) \in Nat
        /\ otp[i].attempts + Cardinality(Counting(i)) < MaxAttempts + N
    BY <1>6, CountingFinite DEF OverrunBounded
  <2>3. \A g \in Counting(i)' \ Counting(i) : SelectRow(g) /\ ~Capped(otp[i])
    <3> SUFFICES ASSUME NEW g \in Handlers,
                        handler'[g].pc = "count", handler'[g].row = i, g \notin Counting(i)
                 PROVE  SelectRow(g) /\ ~Capped(otp[i])
      BY DEF Counting
    <3>1. handler'[g].pc \in Chosen /\ handler'[g] # handler[g]
      BY DEF Counting, Chosen
    <3>2. ASSUME CountAttempt(g) \/ Consume(g) PROVE handler[g] \in Busy
      BY <3>2 DEF CountAttempt, Consume, TypeOK, Idle
    <3>3. CASE CountAttempt(g) /\ handler'[g] = [handler[g] EXCEPT !.pc = "consume"]
      BY <3>2, <3>3 DEF Busy
    <3>4. CASE Consume(g) /\ handler'[g] = [handler[g] EXCEPT !.pc = "mint"]
      BY <3>2, <3>4 DEF Busy
    <3> QED
      BY <3>1, <3>3, <3>4, ChosenMoves
  <2>4. ASSUME NEW g \in Handlers, SelectRow(g) PROVE Counting(i)' \subseteq Counting(i)
    <3>1. otp' = otp
      BY <2>4 DEF SelectRow
    <3>2. Capped(otp[i])
      BY <1>6, <3>1 DEF Capped
    <3> QED
      BY <2>3, <3>2
  <2>5. Counting(i)' \subseteq Counting(i)
    BY <2>3, <2>4 DEF Counting
  <2>6. Cardinality(Counting(i)') <= Cardinality(Counting(i))
    BY <2>2, <2>5, FS_Subset
  <2>7. CASE otp'[i].attempts = otp[i].attempts
    BY <1>1, <1>2, <2>1, <2>2, <2>6, <2>7
  <2>8. ASSUME NEW h \in Handlers, CountAttempt(h), handler[h].row = i
        PROVE  Bounded(i)
    <3>1. otp'[i].attempts = otp[i].attempts + 1
      BY <2>8, CountAttemptRows
    <3>2. h \in Counting(i)
      BY <2>8 DEF Counting, CountAttempt
    <3>3. h \notin Counting(i)'
      <4>1. handler[h] \in Busy
        BY <2>8 DEF CountAttempt, TypeOK, Idle
      <4>2. handler'[h] = [handler[h] EXCEPT !.pc = "consume"] \/ handler'[h] = Idle
        BY <2>8 DEF CountAttempt, TypeOK
      <4>3. handler'[h].pc # "count"
        BY <4>1, <4>2 DEF Busy, Idle
      <4> QED
        BY <4>3 DEF Counting
    <3>4. Counting(i)' \subseteq Counting(i) \ {h}
      BY <2>5, <3>3
    <3>5. Cardinality(Counting(i)') <= Cardinality(Counting(i)) - 1
      <4>1. /\ IsFiniteSet(Counting(i) \ {h})
            /\ Cardinality(Counting(i) \ {h}) = Cardinality(Counting(i)) - 1
        BY <2>2, <3>2, FS_RemoveElement
      <4> QED
        BY <3>4, <4>1, FS_Subset
    <3> QED
      BY <1>1, <1>2, <2>1, <2>2, <3>1, <3>5
  <2> QED
    BY <1>6, <2>7, <2>8, InvalidateRows, InsertRows, CountAttemptRows, ConsumeRows, NextSteps
       DEF BeginRequest, BeginVerify, SelectNothing, SelectRow, Mint, Fail, SignOut,
           Tick, Crash, vars
<1> QED
  BY <1>1, <1>3, <1>4, <1>5, <1>6

\* However the requests interleave, maxAttempts is overrun by fewer attempts
\* than there are handlers in flight.
THEOREM AttemptOverrun == Spec => []OverrunBounded
<1>1. Init => OverrunBounded
  BY DEF Init, OverrunBounded, RowIds
<1> QED
  BY <1>1, Invariance, NextOverrunBounded, PTL DEF Spec

\* A code row is never lost, rewritten, re-armed or reactivated.
THEOREM RowsAgeOnly == Spec => RowsOnlyAge
<1>1. Inv /\ [Next]_vars =>
         [Len(otp') >= Len(otp) /\ \A i \in RowIds : OnlyAges(otp[i], otp'[i])]_vars
  BY NextRows DEF RowsAge, Inv
<1> QED
  BY <1>1, Invariance, PTL DEF Spec, RowsOnlyAge

-----------------------------------------------------------------------------
(* Sessions end for good. *)

\* No step makes a token valid again that was minted before.
LEMMA NextSignedOut ==
  ASSUME Inv, [Next]_vars, NEW t \in Tokens, Validates(t)'
  PROVE  Validates(t)
<1> USE DEF Inv
<1>1. now' >= now /\ now' \in Nat /\ now \in Nat
  <2>1. now \in Nat
    BY DEF TypeOK
  <2>2. now' = now \/ now' = now + 1
    BY NextSteps DEF BeginRequest, BeginVerify, Invalidate, Insert, SelectNothing,
       SelectRow, CountAttempt, Consume, Mint, Fail, SignOut, Tick, Crash, vars
  <2> QED
    BY <2>1, <2>2
<1>2. t \in DOMAIN sessions /\ sessions'[t] = sessions[t]
  <2>1. ASSUME NEW h \in Handlers, Mint(h) PROVE <1>2
    <3>1. t # NewToken /\ t \in DOMAIN sessions'
      BY DEF Tokens, NewToken, TypeOK, Validates
    <3> QED
      BY <2>1, <3>1, MintTokens
  <2>2. ASSUME NEW s \in DOMAIN sessions, SignOut(s) PROVE <1>2
    BY <2>2 DEF SignOut, Validates
  <2>3. CASE UNCHANGED sessions
    BY <2>3 DEF Validates
  <2> QED
    BY <2>1, <2>2, <2>3, NextSteps DEF BeginRequest, BeginVerify, Invalidate, Insert,
       SelectNothing, SelectRow, CountAttempt, Consume, Fail, Tick, Crash, vars
<1>3. sessions[t].expires \in Nat
  <2>1. sessions[t] \in Session
    BY <1>2 DEF TypeOK
  <2> QED
    BY <2>1 DEF Session
<1> QED
  BY <1>1, <1>2, <1>3 DEF Validates

\* A session that was signed out or expired is never valid again.
THEOREM SignOutFinal == Spec => SignedOutStaysOut
<1>1. Inv /\ [Next]_vars => [\A t \in Tokens : Validates(t)' => Validates(t)]_vars
  BY NextSignedOut
<1> QED
  BY <1>1, Invariance, PTL DEF Spec, SignedOutStaysOut

-----------------------------------------------------------------------------
(* No code is lost. *)

\* What explains a consumed row goes on explaining it, when tokens and the handlers about
\* to mint or to insert stay.
LEMMA ExplainedStays ==
  ASSUME TypeOK, RowsAge, NEW i \in RowIds, Explained(i),
         \A t \in Tokens : t \in Tokens' /\ earned'[t] = earned[t],
         \A g \in Handlers : handler[g].pc \in {"mint", "insert"} => handler'[g] = handler[g]
  PROVE  Explained(i)'
<1>1. RowIds \subseteq RowIds' /\ \A j \in RowIds : otp'[j].user = otp[j].user
  BY DEF RowsAge, OnlyAges, RowIds, TypeOK
<1>2. CASE \E t \in Tokens : earned[t] = i
  BY <1>2 DEF Explained
<1>3. CASE \E j \in RowIds : j > i /\ otp[j].user = otp[i].user
  BY <1>1, <1>3 DEF Explained
<1>4. CASE \E h \in Handlers : \/ handler[h].pc = "mint" /\ handler[h].row = i
                               \/ handler[h].pc = "insert" /\ handler[h].user = otp[i].user
  <2>1. PICK h \in Handlers : \/ handler[h].pc = "mint" /\ handler[h].row = i
                              \/ handler[h].pc = "insert" /\ handler[h].user = otp[i].user
    BY <1>4
  <2>2. handler'[h] = handler[h]
    BY <2>1
  <2> QED
    BY <1>1, <2>1, <2>2 DEF Explained
<1> QED
  BY <1>2, <1>3, <1>4 DEF Explained

\* Invalidating explains what it consumes by the code it is about to insert.
LEMMA InvalidateExplains ==
  ASSUME TypeOK, NEW h \in Handlers, Invalidate(h),
         \A i \in RowIds : otp[i].consumed => Explained(i)
  PROVE  \A i \in RowIds' : otp'[i].consumed => Explained(i)'
<1>1. RowsAge /\ RowIds' = RowIds /\ Tokens' = Tokens /\ earned' = earned
  BY InvalidateRows DEF RowIds, Tokens, Invalidate
<1>2. handler[h] \in Busy /\ handler[h].pc = "invalidate"
  BY DEF Invalidate, TypeOK, Idle
<1>3. handler'[h].pc = "insert" /\ handler'[h].user = handler[h].user
  BY <1>2 DEF Invalidate, TypeOK, Busy
<1>4. \A g \in Handlers : handler[g].pc \in {"mint", "insert"} => handler'[g] = handler[g]
  BY <1>2 DEF Invalidate, TypeOK
<1> SUFFICES ASSUME NEW i \in RowIds, otp'[i].consumed
             PROVE  Explained(i)'
  BY <1>1
<1>5. CASE i \in Active(handler[h].user)
  <2>1. otp'[i].user = handler'[h].user
    BY <1>1, <1>3, <1>5 DEF Active, RowsAge, OnlyAges
  <2> QED
    BY <1>3, <2>1 DEF Explained
<1>6. CASE i \notin Active(handler[h].user)
  <2>1. otp'[i] = otp[i]
    BY <1>6 DEF Invalidate, Superseded
  <2> QED
    BY <1>1, <1>4, <2>1, ExplainedStays
<1> QED
  BY <1>5, <1>6

\* The inserted code takes the place of the handler that was to insert it.
LEMMA InsertExplains ==
  ASSUME TypeOK, NEW h \in Handlers, Insert(h),
         \A i \in RowIds : otp[i].consumed => Explained(i)
  PROVE  \A i \in RowIds' : otp'[i].consumed => Explained(i)'
<1> DEFINE n == Len(otp) + 1
<1>1. /\ RowsAge /\ Len(otp') = n /\ Len(otp) \in Nat
      /\ \A i \in RowIds : otp'[i] = otp[i]
      /\ otp'[n].user = handler[h].user /\ ~otp'[n].consumed
  <2>1. otp'[n] = NewRow(handler[h].user, handler[h].code)
    BY InsertRows
  <2>2. otp'[n].user = handler[h].user /\ ~otp'[n].consumed
    BY <2>1 DEF NewRow
  <2>3. Len(otp) \in Nat
    BY DEF TypeOK
  <2> QED
    BY <2>2, <2>3, InsertRows
<1>2. /\ Tokens' = Tokens /\ earned' = earned
      /\ \A g \in Handlers : g # h => handler'[g] = handler[g]
  BY DEF Insert, Tokens, TypeOK
<1> HIDE DEF n
<1>3. RowIds' = RowIds \cup {n} /\ \A i \in RowIds : n > i
  BY <1>1 DEF RowIds, n
<1> SUFFICES ASSUME NEW i \in RowIds, otp[i].consumed
             PROVE  Explained(i)'
  BY <1>1, <1>3
<1>4. CASE otp[i].user = handler[h].user
  BY <1>1, <1>3, <1>4 DEF Explained
<1>5. CASE otp[i].user # handler[h].user
  <2>1. Explained(i) /\ handler[h].pc = "insert"
    BY DEF Insert
  <2>2. \/ \E t \in Tokens : earned[t] = i
        \/ \E j \in RowIds : j > i /\ otp[j].user = otp[i].user
        \/ \E g \in Handlers \ {h} : \/ handler[g].pc = "mint" /\ handler[g].row = i
                                     \/ handler[g].pc = "insert" /\ handler[g].user = otp[i].user
    BY <1>5, <2>1 DEF Explained
  <2> QED
    BY <1>1, <1>2, <1>3, <2>2 DEF Explained
<1> QED
  BY <1>4, <1>5

\* Counting and consuming: the consumed row is the one the handler is about to mint from.
LEMMA VerifyExplains ==
  ASSUME TypeOK, ChosenRowOwned, NEW h \in Handlers, CountAttempt(h) \/ Consume(h),
         \A i \in RowIds : otp[i].consumed => Explained(i)
  PROVE  \A i \in RowIds' : otp'[i].consumed => Explained(i)'
<1>1. RowsAge /\ RowIds' = RowIds /\ Tokens' = Tokens /\ earned' = earned
  BY CountAttemptRows, ConsumeRows DEF RowIds, Tokens, CountAttempt, Consume
<1>2. handler[h] \in Busy /\ handler[h].pc \in {"count", "consume"}
  BY DEF CountAttempt, Consume, TypeOK, Idle
<1>3. \A g \in Handlers : handler[g].pc \in {"mint", "insert"} => handler'[g] = handler[g]
  BY <1>2 DEF CountAttempt, Consume, TypeOK
<1> SUFFICES ASSUME NEW i \in RowIds, otp'[i].consumed
             PROVE  Explained(i)'
  BY <1>1
<1>4. CASE otp[i].consumed
  BY <1>1, <1>3, <1>4, ExplainedStays
<1>5. CASE ~otp[i].consumed
  <2>1. ~CountAttempt(h)
    <3> SUFFICES ASSUME CountAttempt(h) PROVE FALSE
      OBVIOUS
    <3>1. otp'[i] = otp[i] \/ otp'[i] = Counted(otp[i])
      BY DEF CountAttempt, TypeOK, RowIds
    <3>2. Counted(otp[i]).consumed = otp[i].consumed
      BY CountedRow DEF TypeOK, RowIds
    <3> QED
      BY <1>5, <3>1, <3>2
  <2>2. Consume(h)
    BY <2>1
  <2>3. i = handler[h].row
    <3>1. i # handler[h].row => otp'[i] = otp[i]
      BY <2>2 DEF Consume, TypeOK, RowIds
    <3> QED
      BY <1>5, <3>1
  <2>4. handler'[h].pc = "mint" /\ handler'[h].row = handler[h].row
    BY <1>2, <2>2 DEF Consume, TypeOK, Busy
  <2> QED
    BY <2>3, <2>4 DEF Explained
<1> QED
  BY <1>4, <1>5

\* Minting: the token takes the place of the handler.
LEMMA MintExplains ==
  ASSUME TypeOK, NEW h \in Handlers, Mint(h),
         \A i \in RowIds : otp[i].consumed => Explained(i)
  PROVE  \A i \in RowIds' : otp'[i].consumed => Explained(i)'
<1>1. /\ otp' = otp /\ RowIds' = RowIds
      /\ \A g \in Handlers : g # h => handler'[g] = handler[g]
  BY DEF Mint, RowIds, TypeOK
<1>2. /\ \A t \in Tokens : t \in Tokens' /\ earned'[t] = earned[t]
      /\ NewToken \in Tokens' /\ earned'[NewToken] = handler[h].row
  BY MintTokens DEF Tokens, NewToken, TypeOK
<1> SUFFICES ASSUME NEW i \in RowIds, otp[i].consumed
             PROVE  Explained(i)'
  BY <1>1
<1>3. CASE handler[h].row = i
  BY <1>2, <1>3 DEF Explained
<1>4. CASE handler[h].row # i
  <2>1. Explained(i) /\ handler[h].pc = "mint"
    BY DEF Mint
  <2>2. \/ \E t \in Tokens : earned[t] = i
        \/ \E j \in RowIds : j > i /\ otp[j].user = otp[i].user
        \/ \E g \in Handlers \ {h} : \/ handler[g].pc = "mint" /\ handler[g].row = i
                                     \/ handler[g].pc = "insert" /\ handler[g].user = otp[i].user
    BY <1>4, <2>1 DEF Explained
  <2> QED
    BY <1>1, <1>2, <2>2 DEF Explained
<1> QED
  BY <1>3, <1>4

\* Each step without a failure keeps every consumed row explained.
LEMMA NextNoCodeLost ==
  ASSUME TypeOK, ChosenRowOwned, NoCodeLost, [Next]_vars
  PROVE  NoCodeLost'
<1> SUFFICES ASSUME faults' = 0
             PROVE  \A i \in RowIds' : otp'[i].consumed => Explained(i)'
  BY DEF NoCodeLost
<1>1. ~(\E h \in Handlers : Fail(h)) /\ ~Crash
  <2>1. faults \in Nat
    BY DEF TypeOK
  <2> QED
    BY <2>1 DEF Fail, Crash
<1>2. faults = 0
  BY <1>1, NextSteps DEF BeginRequest, BeginVerify, Invalidate, Insert, SelectNothing,
     SelectRow, CountAttempt, Consume, Mint, SignOut, Tick, vars
<1>3. \A i \in RowIds : otp[i].consumed => Explained(i)
  BY <1>2 DEF NoCodeLost
<1>4. ASSUME UNCHANGED <<otp, earned>>,
             \A g \in Handlers : handler[g].pc \in {"mint", "insert"} => handler'[g] = handler[g]
      PROVE  \A i \in RowIds' : otp'[i].consumed => Explained(i)'
  <2>1. RowsAge /\ RowIds' = RowIds /\ Tokens' = Tokens
    BY <1>4, SameRows DEF RowIds, Tokens
  <2> QED
    BY <1>3, <1>4, <2>1, ExplainedStays
<1>5. ASSUME NEW h \in Handlers, handler[h].pc \notin {"mint", "insert"},
             \A g \in Handlers : g # h => handler'[g] = handler[g], UNCHANGED <<otp, earned>>
      PROVE  \A i \in RowIds' : otp'[i].consumed => Explained(i)'
  BY <1>4, <1>5
<1>6. ASSUME NEW h \in Handlers, NEW u \in Users, NEW c \in Codes,
             BeginRequest(h, u, c) \/ BeginVerify(h, u, c)
      PROVE  \A i \in RowIds' : otp'[i].consumed => Explained(i)'
  <2>1. handler[h].pc = "idle"
    BY <1>6 DEF BeginRequest, BeginVerify, Idle
  <2>2. UNCHANGED <<otp, earned>> /\ \A g \in Handlers : g # h => handler'[g] = handler[g]
    BY <1>6 DEF BeginRequest, BeginVerify, TypeOK
  <2> QED
    BY <1>5, <2>1, <2>2
<1>7. ASSUME NEW h \in Handlers, SelectNothing(h) \/ SelectRow(h)
      PROVE  \A i \in RowIds' : otp'[i].consumed => Explained(i)'
  <2>1. handler[h].pc = "select"
    BY <1>7 DEF SelectNothing, SelectRow
  <2>2. UNCHANGED <<otp, earned>> /\ \A g \in Handlers : g # h => handler'[g] = handler[g]
    BY <1>7 DEF SelectNothing, SelectRow, TypeOK
  <2> QED
    BY <1>5, <2>1, <2>2
<1>8. CASE (\E t \in DOMAIN sessions : SignOut(t)) \/ Tick \/ UNCHANGED vars
  BY <1>4, <1>8 DEF SignOut, Tick, vars
<1> QED
  BY <1>1, <1>3, <1>6, <1>7, <1>8, InvalidateExplains, InsertExplains, VerifyExplains,
     MintExplains, NextSteps

\* While no statement fails and the process lives, a consumed code was spent on a session
\* or superseded by a newer one of its user, for any number of concurrent requests.
THEOREM CodesAccounted == Spec => []NoCodeLost
<1>1. Init => NoCodeLost
  BY DEF Init, NoCodeLost, RowIds
<1>2. Inv /\ NoCodeLost /\ [Next]_vars => NoCodeLost'
  BY NextNoCodeLost DEF Inv
<1> QED
  BY <1>1, <1>2, Invariance, PTL DEF Spec

-----------------------------------------------------------------------------
(***************************************************************************)
(* What SignIn promises the users whose requests never overlap.  Such a    *)
(* user is served by at most one handler (UserInv), and the steps that     *)
(* handlers take for other users reach neither its rows nor its tokens     *)
(* (FrameInv): so each step has to be looked at for its own user only,     *)
(* knowing that no other handler of that user is in flight.                *)
(***************************************************************************)

InFlight(u)  == {h \in Handlers : handler[h] # Idle /\ handler[h].user = u}
Newest(u, i) == \A j \in RowIds : otp[j].user = u => j <= i

\* What a handler of user u, the only one, relies on between two statements.
Relies(u, h) ==
    /\ handler[h].pc = "insert" => Active(u) = {}
    /\ handler[h].pc = "count" => ~Capped(otp[handler[h].row])
    /\ handler[h].pc \in {"count", "consume"} => ~otp[handler[h].row].consumed
    /\ handler[h].pc = "mint" => /\ Newest(u, handler[h].row)
                                 /\ \A t \in Tokens : earned[t] # handler[h].row

UserRows(u) ==
    \A i \in RowIds : otp[i].user = u =>
        /\ otp[i].attempts <= MaxAttempts
        /\ ~otp[i].consumed => Newest(u, i)

UserTokens(u) ==
    \A s, t \in Tokens : earned[s] = earned[t] /\ otp[earned[s]].user = u => s = t

UserInv(u) ==
    /\ \A g, h \in InFlight(u) : g = h
    /\ \A h \in InFlight(u) : Relies(u, h)
    /\ UserRows(u)
    /\ UserTokens(u)

AloneInv == \A u \in Users \ overlapped : UserInv(u)

-----------------------------------------------------------------------------
(* A step does not reach users whose handlers, rows and tokens it leaves alone. *)

\* What a step may do with user v: finish handlers, and change nothing else of it.
LeavesAlone(v) ==
    /\ \A g \in InFlight(v)' : g \in InFlight(v) /\ handler'[g] = handler[g]
    /\ \A i \in RowIds' : otp'[i].user = v => i \in RowIds /\ otp'[i] = otp[i]
    /\ \A t \in Tokens' : otp'[earned'[t]].user = v => t \in Tokens /\ earned'[t] = earned[t]

\* Such a step keeps what is known of the user.
LEMMA FrameInv ==
  ASSUME NEW v, Inv, [Next]_vars, LeavesAlone(v), UserInv(v)
  PROVE  UserInv(v)'
<1>1. Inv'
  BY NextInv
<1>2. \A i \in RowIds' : otp'[i].user = v => i \in RowIds /\ otp'[i] = otp[i]
  BY DEF LeavesAlone
<1> DEFINE NewestNext(i) == \A j \in RowIds' : otp'[j].user = v => j <= i
<1>3. ASSUME NEW i, Newest(v, i) PROVE NewestNext(i)
  BY <1>2, <1>3 DEF Newest
<1>4. \A g, h \in InFlight(v)' : g = h
  BY DEF LeavesAlone, UserInv
<1>5. ASSUME NEW h \in InFlight(v)' PROVE Relies(v, h)'
  <2>1. Relies(v, h) /\ handler'[h] = handler[h] /\ h \in Handlers /\ handler[h].user = v
    BY <1>5 DEF LeavesAlone, UserInv, InFlight
  <2>2. handler'[h].pc = "insert" => Active(v)' = {}
    BY <1>2, <2>1 DEF Relies, Active
  <2>3. ASSUME handler'[h].pc \in Chosen
        PROVE  otp'[handler'[h].row] = otp[handler[h].row]
    BY <1>1, <1>2, <2>1, <2>3 DEF Inv, ChosenRowOwned
  <2>4. /\ handler'[h].pc = "count" => ~Capped(otp'[handler'[h].row])
        /\ handler'[h].pc \in {"count", "consume"} => ~otp'[handler'[h].row].consumed
    BY <2>1, <2>3 DEF Relies, Chosen
  <2>5. ASSUME handler'[h].pc = "mint"
        PROVE  /\ NewestNext(handler'[h].row)
               /\ \A t \in Tokens' : earned'[t] # handler'[h].row
    <3>1. /\ Newest(v, handler[h].row)
          /\ \A t \in Tokens : earned[t] # handler[h].row
      BY <2>1, <2>5 DEF Relies
    <3>2. otp'[handler'[h].row].user = v
      BY <1>1, <2>1, <2>5 DEF Inv, ChosenRowOwned, Chosen
    <3>3. \A t \in Tokens' : earned'[t] # handler'[h].row
      BY <2>1, <3>1, <3>2 DEF LeavesAlone
    <3> QED
      BY <1>3, <2>1, <3>1, <3>3
  <2> QED
    BY <2>2, <2>4, <2>5 DEF Relies, Newest, Capped
<1>6. UserRows(v)'
  BY <1>2, <1>3 DEF UserRows, UserInv, Newest
<1>7. UserTokens(v)'
  <2> SUFFICES ASSUME NEW s \in Tokens', NEW t \in Tokens',
                      earned'[s] = earned'[t], otp'[earned'[s]].user = v
               PROVE  s = t
    BY DEF UserTokens
  <2>1. s \in Tokens /\ t \in Tokens /\ earned'[s] = earned[s] /\ earned'[t] = earned[t]
    BY DEF LeavesAlone
  <2>2. earned'[s] \in RowIds'
    BY <1>1 DEF Inv, SessionsEarned
  <2>3. otp[earned[s]].user = v
    BY <1>2, <2>1, <2>2
  <2> QED
    BY <2>1, <2>3 DEF UserInv, UserTokens
<1> QED
  BY <1>4, <1>5, <1>6, <1>7 DEF UserInv

\* The tokens of a user are left alone when none is minted.
LEMMA SameTokens ==
  ASSUME NEW v, UNCHANGED earned
  PROVE  \A t \in Tokens' : t \in Tokens /\ earned'[t] = earned[t]
BY DEF Tokens

\* The handlers of a user are left alone when the one that moves ends up idle or
\* with another user.
LEMMA OtherHandlers ==
  ASSUME NEW v, NEW h \in Handlers,
         handler'[h] = Idle \/ handler'[h].user # v,
         \A g \in Handlers \ {h} : handler'[g] = handler[g]
  PROVE  \A g \in InFlight(v)' : g \in InFlight(v) /\ handler'[g] = handler[g]
BY DEF InFlight

\* The request of a handler stays with its user while the handler goes on.
LEMMA BusyMoves ==
  ASSUME NEW r \in Busy, NEW p, NEW k
  PROVE  /\ [r EXCEPT !.pc = p].user = r.user
         /\ [r EXCEPT !.pc = p].row = r.row
         /\ [r EXCEPT !.pc = p].pc = p
         /\ [r EXCEPT !.pc = p, !.row = k].user = r.user
         /\ [r EXCEPT !.pc = p, !.row = k].row = k
         /\ [r EXCEPT !.pc = p, !.row = k].pc = p
BY DEF Busy

\* A handler that is not idle is in a step of a request.
LEMMA NotIdle ==
  ASSUME TypeOK, NEW h \in Handlers, handler[h] # Idle
  PROVE  handler[h] \in Busy
BY DEF TypeOK

\* Superseding touches the active codes of one user.
LEMMA InvalidateExact ==
  ASSUME TypeOK, NEW h \in Handlers, Invalidate(h)
  PROVE  /\ RowIds' = RowIds
         /\ \A i \in RowIds : otp'[i] = IF i \in Active(handler[h].user)
                                        THEN Spent(otp[i]) ELSE otp[i]
<1>1. otp' = [i \in 1..Len(otp) |-> IF i \in Active(handler[h].user)
                                    THEN Spent(otp[i]) ELSE otp[i]]
  BY DEF Invalidate, Superseded, RowIds
<1>2. Len(otp') = Len(otp)
  BY InvalidateRows
<1> QED
  BY <1>1, <1>2 DEF RowIds

\* Counting and consuming touch one row, of the user of the handler.
LEMMA OneRowExact ==
  ASSUME TypeOK, ChosenRowOwned, NEW h \in Handlers, CountAttempt(h) \/ Consume(h)
  PROVE  /\ RowIds' = RowIds
         /\ handler[h].row \in RowIds
         /\ otp[handler[h].row].user = handler[h].user
         /\ \A i \in RowIds \ {handler[h].row} : otp'[i] = otp[i]
<1>1. handler[h].row \in RowIds /\ otp[handler[h].row].user = handler[h].user
  BY DEF CountAttempt, Consume, ChosenRowOwned, Chosen
<1>2. Len(otp') = Len(otp)
  BY CountAttemptRows, ConsumeRows
<1>3. otp \in Seq(Row)
  BY DEF TypeOK
<1>4. \A i \in RowIds \ {handler[h].row} : otp'[i] = otp[i]
  <2>1. PICK r : otp' = [otp EXCEPT ![handler[h].row] = r]
    BY DEF CountAttempt, Consume
  <2> QED
    BY <1>3, <2>1 DEF RowIds
<1> QED
  BY <1>1, <1>2, <1>4 DEF RowIds

\* A step of a handler is one for its user, and the handler stays with that user
\* until it is done.
LEMMA StepMoves ==
  ASSUME TypeOK, NEW h \in Handlers, Step(h)
  PROVE  /\ handler[h] # Idle /\ handler[h] \in Busy
         /\ handler'[h] = Idle \/ handler'[h].user = handler[h].user
<1>1. handler[h].pc # "idle"
  BY DEF Step, Invalidate, Insert, SelectNothing, SelectRow, CountAttempt, Consume, Mint
<1>2. handler[h] # Idle /\ handler[h] \in Busy
  BY <1>1, NotIdle DEF Idle
<1> DEFINE Stays == handler'[h] = Idle \/ handler'[h].user = handler[h].user
<1>3. CASE Invalidate(h)
  <2>1. handler'[h] = [handler[h] EXCEPT !.pc = "insert"]
    BY <1>3 DEF Invalidate, TypeOK
  <2> QED
    BY <1>2, <2>1 DEF Busy
<1>4. CASE Insert(h) \/ SelectNothing(h) \/ Mint(h)
  BY <1>2, <1>4 DEF Insert, SelectNothing, Mint, TypeOK
<1>5. CASE SelectRow(h)
  <2>1. PICK i : handler' = [handler EXCEPT ![h] =
                                IF Capped(otp[i]) \/ Expired(otp[i])
                                THEN Idle
                                ELSE [@ EXCEPT !.pc = "count", !.row = i]]
    BY <1>5 DEF SelectRow
  <2>2. handler'[h] = Idle \/ handler'[h] = [handler[h] EXCEPT !.pc = "count", !.row = i]
    BY <2>1 DEF TypeOK
  <2> QED
    BY <1>2, <2>2 DEF Busy
<1>6. CASE CountAttempt(h)
  <2>1. handler'[h] = Idle \/ handler'[h] = [handler[h] EXCEPT !.pc = "consume"]
    BY <1>6 DEF CountAttempt, TypeOK
  <2> QED
    BY <1>2, <2>1 DEF Busy
<1>7. CASE Consume(h)
  <2>1. handler'[h] = [handler[h] EXCEPT !.pc = "mint"]
    BY <1>7 DEF Consume, TypeOK
  <2> QED
    BY <1>2, <2>1 DEF Busy
<1> QED
  BY <1>2, <1>3, <1>4, <1>5, <1>6, <1>7 DEF Step

\* A step taken for one user leaves every other user alone.
LEMMA OthersAlone ==
  ASSUME Inv, NEW h \in Handlers, Step(h), NEW v, v # handler[h].user
  PROVE  LeavesAlone(v)
<1> USE DEF Inv
<1>2. \A g \in InFlight(v)' : g \in InFlight(v) /\ handler'[g] = handler[g]
  <2>1. \A g \in Handlers \ {h} : handler'[g] = handler[g]
    BY DEF Step, Invalidate, Insert, SelectNothing, SelectRow, CountAttempt, Consume, Mint, TypeOK
  <2>2. handler'[h] = Idle \/ handler'[h].user = handler[h].user
    BY StepMoves
  <2> QED
    BY <2>1, <2>2, OtherHandlers
<1>3. \A i \in RowIds' : otp'[i].user = v => i \in RowIds /\ otp'[i] = otp[i]
  <2>1. CASE Invalidate(h)
    BY <2>1, InvalidateExact, InvalidateRows DEF Active, RowsAge, OnlyAges
  <2>2. CASE Insert(h)
    <3>1. NewRow(handler[h].user, handler[h].code).user = handler[h].user
      BY DEF NewRow
    <3>2. \A i \in RowIds' : i \in RowIds \/ i = Len(otp) + 1
      BY <2>2, InsertRows DEF RowIds, TypeOK
    <3> QED
      BY <2>2, <3>1, <3>2, InsertRows
  <2>3. CASE CountAttempt(h) \/ Consume(h)
    BY <2>3, OneRowExact, CountAttemptRows, ConsumeRows DEF RowsAge, OnlyAges
  <2>4. CASE UNCHANGED otp
    BY <2>4 DEF RowIds
  <2> QED
    BY <2>1, <2>2, <2>3, <2>4 DEF Step, SelectNothing, SelectRow, Mint
<1>4. \A t \in Tokens' : otp'[earned'[t]].user = v => t \in Tokens /\ earned'[t] = earned[t]
  <2>1. CASE Mint(h)
    <3>1. /\ earned'[NewToken] = handler[h].row
          /\ \A t \in Tokens : earned'[t] = earned[t]
          /\ \A t \in Tokens' : t \in Tokens \/ t = NewToken
      BY <2>1, MintTokens DEF Tokens, NewToken, TypeOK
    <3>2. otp'[handler[h].row].user = handler[h].user
      BY <2>1 DEF Mint, ChosenRowOwned, Chosen
    <3> QED
      BY <3>1, <3>2
  <2>2. CASE UNCHANGED earned
    BY <2>2, SameTokens
  <2> QED
    BY <2>1, <2>2 DEF Step, Invalidate, Insert, SelectNothing, SelectRow, CountAttempt, Consume
<1> QED
  BY <1>2, <1>3, <1>4 DEF LeavesAlone

\* So does a request that begins.
LEMMA BeginAlone ==
  ASSUME Inv, NEW h \in Handlers, NEW u \in Users, NEW c \in Codes,
         BeginRequest(h, u, c) \/ BeginVerify(h, u, c), NEW v, v # u
  PROVE  LeavesAlone(v)
<1>1. \A g \in InFlight(v)' : g \in InFlight(v) /\ handler'[g] = handler[g]
  <2>1. handler'[h].user = u /\ \A g \in Handlers \ {h} : handler'[g] = handler[g]
    BY DEF BeginRequest, BeginVerify, Inv, TypeOK
  <2> QED
    BY <2>1, OtherHandlers
<1>2. UNCHANGED <<otp, earned>>
  BY DEF BeginRequest, BeginVerify
<1> QED
  BY <1>1, <1>2, SameTokens DEF LeavesAlone, RowIds

\* The other steps take nothing from anybody but handlers that give up.
LEMMA RestAlone ==
  ASSUME Inv, NEW v,
         \/ \E h \in Handlers : SelectNothing(h) \/ Fail(h)
         \/ \E t \in DOMAIN sessions : SignOut(t)
         \/ Tick
         \/ Crash
         \/ UNCHANGED vars
  PROVE  LeavesAlone(v)
<1>1. UNCHANGED <<otp, earned>>
  BY DEF SelectNothing, Fail, SignOut, Tick, Crash, vars
<1>2. \A g \in InFlight(v)' : g \in InFlight(v) /\ handler'[g] = handler[g]
  <2>1. ASSUME NEW h \in Handlers, SelectNothing(h) \/ Fail(h)
        PROVE  <1>2
    <3>1. handler'[h] = Idle /\ \A g \in Handlers \ {h} : handler'[g] = handler[g]
      BY <2>1 DEF SelectNothing, Fail, Inv, TypeOK
    <3> QED
      BY <3>1, OtherHandlers
  <2>2. CASE Crash
    BY <2>2 DEF Crash, InFlight
  <2>3. CASE UNCHANGED handler
    BY <2>3 DEF InFlight
  <2> QED
    BY <2>1, <2>2, <2>3 DEF SignOut, Tick, vars
<1> QED
  BY <1>1, <1>2, SameTokens DEF LeavesAlone, RowIds

-----------------------------------------------------------------------------
(* A step and the user it is taken for. *)

\* The only handler of a user is still the only one after its step.
LEMMA OnlyHandler ==
  ASSUME TypeOK, NEW h \in Handlers, Step(h), NEW u, u = handler[h].user, UserInv(u)
  PROVE  /\ Relies(u, h)
         /\ \A g \in Handlers : handler'[g] # Idle /\ handler'[g].user = u => g = h
<1>1. h \in InFlight(u)
  BY StepMoves DEF InFlight
<1>2. \A g \in Handlers \ {h} : handler'[g] = handler[g]
  BY DEF Step, Invalidate, Insert, SelectNothing, SelectRow, CountAttempt, Consume, Mint, TypeOK
<1>3. ASSUME NEW g \in Handlers, handler'[g] # Idle, handler'[g].user = u, g # h
      PROVE  FALSE
  <2>1. g \in InFlight(u)
    BY <1>2, <1>3 DEF InFlight
  <2> QED
    BY <1>1, <1>3, <2>1 DEF UserInv
<1> QED
  BY <1>1, <1>3 DEF UserInv

\* While no token is minted, no two tokens of a user come from one row.
LEMMA KeepTokens ==
  ASSUME Inv, RowsAge, NEW u, UNCHANGED earned, UserTokens(u)
  PROVE  UserTokens(u)'
<1>1. \A t \in Tokens : earned[t] \in RowIds /\ otp'[earned[t]].user = otp[earned[t]].user
  BY DEF Inv, SessionsEarned, RowsAge, OnlyAges
<1>2. \A t \in Tokens' : t \in Tokens /\ earned'[t] = earned[t]
  BY SameTokens
<1> QED
  BY <1>1, <1>2 DEF UserTokens

\* Superseding leaves the user without an active code.
LEMMA InvalidateOwn ==
  ASSUME Inv, NEW h \in Handlers, Invalidate(h), NEW u, u = handler[h].user, UserInv(u)
  PROVE  UserInv(u)'
<1> USE DEF Inv
<1>1. Step(h)
  BY DEF Step
<1>2. \A g \in Handlers : handler'[g] # Idle /\ handler'[g].user = u => g = h
  BY <1>1, OnlyHandler
<1>3. \A i \in RowIds : otp[i] \in Row /\ otp[i].attempts \in Nat
  BY RowAt
<1>4. \A i \in RowIds : otp'[i].user = u => otp'[i].consumed
  <2>1. ASSUME NEW i \in RowIds, otp'[i].user = u PROVE otp'[i].consumed
    <3>1. otp[i].user = u
      BY <2>1, InvalidateRows DEF RowsAge, OnlyAges
    <3>2. CASE i \in Active(u)
      BY <1>3, <3>2, InvalidateExact, SpentRow
    <3>3. CASE i \notin Active(u)
      BY <3>1, <3>3, InvalidateExact DEF Active
    <3> QED
      BY <3>2, <3>3
  <2> QED
    BY <2>1
<1>5. UserRows(u)'
  <2>1. \A i \in RowIds : otp'[i].user = otp[i].user /\ otp'[i].attempts = otp[i].attempts
    BY InvalidateRows DEF RowsAge, OnlyAges
  <2> QED
    BY <1>4, <2>1, InvalidateExact DEF UserRows, UserInv
<1>6. Active(u)' = {}
  BY <1>4, InvalidateExact DEF Active
<1>7. handler'[h].pc = "insert"
  <2>1. handler[h] \in Busy /\ handler'[h] = [handler[h] EXCEPT !.pc = "insert"]
    BY <1>1, StepMoves DEF Invalidate, TypeOK
  <2> QED
    BY <2>1 DEF Busy
<1>8. Relies(u, h)'
  BY <1>6, <1>7 DEF Relies
<1>9. UserTokens(u)'
  BY InvalidateRows, KeepTokens DEF Invalidate, UserInv
<1> QED
  BY <1>2, <1>5, <1>8, <1>9 DEF UserInv, InFlight

\* The new code is the newest of its user, and the only active one.
LEMMA InsertOwn ==
  ASSUME Inv, NEW h \in Handlers, Insert(h), NEW u, u = handler[h].user, UserInv(u)
  PROVE  UserInv(u)'
<1> USE DEF Inv
<1>1. Step(h)
  BY DEF Step
<1>2. InFlight(u)' = {}
  <2>1. handler'[h] = Idle
    BY DEF Insert, TypeOK
  <2> QED
    BY <1>1, <2>1, OnlyHandler DEF InFlight
<1>3. /\ RowIds' = RowIds \cup {Len(otp) + 1}
      /\ \A i \in RowIds' : i <= Len(otp) + 1
      /\ \A i \in RowIds : otp'[i] = otp[i]
  BY InsertRows DEF RowIds, TypeOK
<1>4. otp'[Len(otp) + 1].attempts <= MaxAttempts
  <2>1. otp'[Len(otp) + 1] = NewRow(u, handler[h].code)
    BY InsertRows
  <2>2. otp'[Len(otp) + 1].attempts = 0
    BY <2>1 DEF NewRow
  <2> QED
    BY <2>2, SignInAssumption
<1>5. \A i \in RowIds : otp[i].user = u => otp[i].consumed
  BY <1>1, OnlyHandler DEF Relies, Active, Insert
<1>6. UserRows(u)'
  <2>1. ASSUME NEW i \in RowIds', otp'[i].user = u
        PROVE  otp'[i].attempts <= MaxAttempts
    BY <1>3, <1>4, <2>1 DEF UserInv, UserRows
  <2>2. ASSUME NEW i \in RowIds', otp'[i].user = u, ~otp'[i].consumed
        PROVE  \A j \in RowIds' : j <= i
    BY <1>3, <1>5, <2>2
  <2> QED
    BY <2>1, <2>2 DEF UserRows, Newest
<1>7. UserTokens(u)'
  BY InsertRows, KeepTokens DEF Insert, UserInv
<1> QED
  BY <1>2, <1>6, <1>7 DEF UserInv

\* The row a verify selects is active and not capped.
LEMMA SelectOwn ==
  ASSUME Inv, NEW h \in Handlers, SelectRow(h), NEW u, u = handler[h].user, UserInv(u)
  PROVE  UserInv(u)'
<1> USE DEF Inv
<1>1. Step(h)
  BY DEF Step
<1>2. UNCHANGED <<otp, earned>>
  BY DEF SelectRow
<1>3. UserRows(u)' /\ UserTokens(u)'
  BY <1>2 DEF UserInv, UserRows, UserTokens, Newest, RowIds, Tokens
<1>4. ASSUME handler'[h] # Idle PROVE Relies(u, h)'
  <2>1. PICK i \in Latest(Active(u)) :
          handler' = [handler EXCEPT ![h] =
                         IF Capped(otp[i]) \/ Expired(otp[i])
                         THEN Idle
                         ELSE [@ EXCEPT !.pc = "count", !.row = i]]
    BY DEF SelectRow
  <2>2. ~Capped(otp[i]) /\ handler'[h] = [handler[h] EXCEPT !.pc = "count", !.row = i]
    BY <1>4, <2>1 DEF TypeOK
  <2>3. handler'[h].pc = "count" /\ handler'[h].row = i
    BY <1>1, <2>2, StepMoves, BusyMoves
  <2>4. ~otp[i].consumed
    BY DEF Latest, Active
  <2> QED
    BY <1>2, <2>2, <2>3, <2>4 DEF Relies, Capped
<1> QED
  BY <1>1, <1>3, <1>4, OnlyHandler DEF UserInv, InFlight

\* The attempt it counts is within the cap.
LEMMA CountOwn ==
  ASSUME Inv, NEW h \in Handlers, CountAttempt(h), NEW u, u = handler[h].user, UserInv(u)
  PROVE  UserInv(u)'
<1> USE DEF Inv
<1> DEFINE k == handler[h].row
<1>1. Step(h)
  BY DEF Step
<1>2. \A i \in RowIds : otp[i] \in Row /\ otp[i].attempts \in Nat
  BY RowAt
<1>3. otp'[k] = Counted(otp[k])
  <2>1. k \in 1..Len(otp) /\ otp \in Seq(Row) /\ otp' = [otp EXCEPT ![k] = Counted(@)]
    BY OneRowExact DEF CountAttempt, TypeOK, RowIds
  <2> QED
    BY <2>1
<1>4. /\ RowIds' = RowIds
      /\ k \in RowIds
      /\ \A i \in RowIds : otp'[i].user = otp[i].user /\ otp'[i].consumed = otp[i].consumed
      /\ \A i \in RowIds \ {k} : otp'[i].attempts = otp[i].attempts
      /\ otp'[k].attempts = otp[k].attempts + 1
  BY <1>2, <1>3, OneRowExact, CountedRow
<1>5. ~Capped(otp[k]) /\ ~otp[k].consumed
  BY <1>1, OnlyHandler DEF Relies, CountAttempt
<1>6. UserRows(u)'
  <2>1. otp'[k].attempts <= MaxAttempts
    BY <1>2, <1>4, <1>5, SignInAssumption DEF Capped
  <2> QED
    BY <1>4, <2>1 DEF UserInv, UserRows, Newest
<1>7. UserTokens(u)'
  BY CountAttemptRows, KeepTokens DEF CountAttempt, UserInv
<1>8. ASSUME handler'[h] # Idle PROVE Relies(u, h)'
  <2>1. handler'[h] = [handler[h] EXCEPT !.pc = "consume"]
    BY <1>8 DEF CountAttempt, TypeOK
  <2>2. handler'[h].pc = "consume" /\ handler'[h].row = k
    BY <1>1, <2>1, StepMoves DEF Busy
  <2> QED
    BY <1>4, <1>5, <2>2 DEF Relies
<1> QED
  BY <1>1, <1>6, <1>7, <1>8, OnlyHandler DEF UserInv, InFlight

\* The row it spends was the newest, and no token came from it.
LEMMA ConsumeOwn ==
  ASSUME Inv, NEW h \in Handlers, Consume(h), NEW u, u = handler[h].user, UserInv(u)
  PROVE  UserInv(u)'
<1> USE DEF Inv
<1> DEFINE k == handler[h].row
<1>1. Step(h)
  BY DEF Step
<1>2. /\ RowIds' = RowIds
      /\ k \in RowIds
      /\ otp[k].user = u
      /\ \A i \in RowIds : otp'[i].user = otp[i].user /\ otp'[i].attempts = otp[i].attempts
      /\ \A i \in RowIds \ {k} : otp'[i].consumed = otp[i].consumed
      /\ otp'[k].consumed
  BY OneRowExact, ConsumeRows DEF RowsAge, OnlyAges
<1>3. ~otp[k].consumed
  BY <1>1, OnlyHandler DEF Relies, Consume
<1>4. UserRows(u)'
  BY <1>2 DEF UserInv, UserRows, Newest
<1>5. UserTokens(u)'
  BY ConsumeRows, KeepTokens DEF Consume, UserInv
<1>6. Relies(u, h)'
  <2>1. handler'[h].pc = "mint" /\ handler'[h].row = k
    <3>1. handler'[h] = [handler[h] EXCEPT !.pc = "mint"]
      BY DEF Consume, TypeOK
    <3> QED
      BY <1>1, <3>1, StepMoves DEF Busy
  <2>2. \A j \in RowIds' : otp'[j].user = u => j <= k
    BY <1>2, <1>3 DEF UserInv, UserRows, Newest
  <2>3. \A t \in Tokens' : earned'[t] # k
    <3>1. \A t \in Tokens : earned[t] # k
      BY <1>3 DEF SessionsEarned
    <3> QED
      BY <3>1, SameTokens DEF Consume
  <2> QED
    BY <2>1, <2>2, <2>3 DEF Relies, Newest
<1> QED
  BY <1>1, <1>4, <1>5, <1>6, OnlyHandler DEF UserInv, InFlight

\* The token it mints is the first one of its row.
LEMMA MintOwn ==
  ASSUME Inv, NEW h \in Handlers, Mint(h), NEW u, u = handler[h].user, UserInv(u)
  PROVE  UserInv(u)'
<1> USE DEF Inv
<1>1. Step(h)
  BY DEF Step
<1>2. InFlight(u)' = {}
  <2>1. handler'[h] = Idle
    BY DEF Mint, TypeOK
  <2> QED
    BY <1>1, <2>1, OnlyHandler DEF InFlight
<1>3. otp' = otp
  BY DEF Mint
<1>4. UserRows(u)'
  BY <1>3 DEF UserInv, UserRows, Newest, RowIds
<1>5. UserTokens(u)'
  <2>1. \A t \in Tokens : earned[t] # handler[h].row
    BY <1>1, OnlyHandler DEF Relies, Mint
  <2>2. /\ earned'[NewToken] = handler[h].row
        /\ \A t \in Tokens : earned'[t] = earned[t]
        /\ \A t \in Tokens' : t \in Tokens \/ t = NewToken
    BY MintTokens DEF Tokens, NewToken, TypeOK
  <2> QED
    BY <1>3, <2>1, <2>2 DEF UserInv, UserTokens
<1> QED
  BY <1>2, <1>4, <1>5 DEF UserInv

\* A request that begins is the only one of its user, or the user has overlapped.
LEMMA BeginOwn ==
  ASSUME Inv, NEW h \in Handlers, NEW u \in Users, NEW c \in Codes,
         BeginRequest(h, u, c) \/ BeginVerify(h, u, c), u \notin overlapped', UserInv(u)
  PROVE  UserInv(u)'
<1>1. UNCHANGED <<otp, earned>>
  BY DEF BeginRequest, BeginVerify
<1>2. UserRows(u)' /\ UserTokens(u)'
  BY <1>1 DEF UserInv, UserRows, UserTokens, Newest, RowIds, Tokens
<1>3. InFlight(u) = {}
  BY DEF BeginRequest, BeginVerify, Overlapped, InFlight
<1>4. /\ handler'[h].pc \in {"invalidate", "select"}
      /\ \A g \in Handlers \ {h} : handler'[g] = handler[g]
  BY DEF BeginRequest, BeginVerify, Inv, TypeOK
<1>5. Relies(u, h)'
  BY <1>4 DEF Relies
<1>6. \A g \in InFlight(u)' : g = h
  BY <1>3, <1>4 DEF InFlight
<1> QED
  BY <1>2, <1>5, <1>6 DEF UserInv

-----------------------------------------------------------------------------
(* The inductive invariant. *)

\* Nothing is known of a user before the first request.
LEMMA InitAlone == Init => AloneInv
BY DEF Init, AloneInv, UserInv, UserRows, UserTokens, InFlight, RowIds, Tokens

\* Each step keeps what is known of every user whose requests do not overlap.
LEMMA NextAlone == Inv /\ AloneInv /\ [Next]_vars => AloneInv'
<1> SUFFICES ASSUME Inv, AloneInv, [Next]_vars, NEW v \in Users, v \notin overlapped'
             PROVE  UserInv(v)'
  BY DEF AloneInv
<1>1. v \notin overlapped
  BY NextSteps DEF BeginRequest, BeginVerify, Overlapped, Invalidate, Insert, SelectNothing,
     SelectRow, CountAttempt, Consume, Mint, Fail, SignOut, Tick, Crash, vars
<1>2. UserInv(v)
  BY <1>1 DEF AloneInv
<1>3. ASSUME LeavesAlone(v) PROVE UserInv(v)'
  BY <1>2, <1>3, FrameInv
<1>4. ASSUME NEW h \in Handlers, NEW u \in Users, NEW c \in Codes,
             BeginRequest(h, u, c) \/ BeginVerify(h, u, c)
      PROVE  UserInv(v)'
  <2>1. CASE v = u
    BY <1>2, <1>4, <2>1, BeginOwn
  <2>2. CASE v # u
    BY <1>3, <1>4, <2>2, BeginAlone
  <2> QED
    BY <2>1, <2>2
<1>5. ASSUME NEW h \in Handlers, Step(h) PROVE UserInv(v)'
  <2>1. CASE v # handler[h].user
    BY <1>3, <1>5, <2>1, OthersAlone
  <2>2. CASE v = handler[h].user
    <3>1. CASE SelectNothing(h)
      BY <1>3, <3>1, RestAlone
    <3>2. CASE ~SelectNothing(h)
      BY <1>2, <1>5, <2>2, <3>2, InvalidateOwn, InsertOwn, SelectOwn, CountOwn, ConsumeOwn,
         MintOwn DEF Step
    <3> QED
      BY <3>1, <3>2
  <2> QED
    BY <2>1, <2>2
<1>6. CASE \/ \E h \in Handlers : Fail(h)
           \/ \E t \in DOMAIN sessions : SignOut(t)
           \/ Tick
           \/ Crash
           \/ UNCHANGED vars
  BY <1>3, <1>6, RestAlone
<1> QED
  BY <1>4, <1>5, <1>6 DEF Next

\* It holds of every reachable state.
LEMMA Alones == Spec => [](Inv /\ AloneInv)
<1>1. Init => AloneInv
  BY InitAlone
<1>2. Inv /\ AloneInv /\ [Next]_vars => AloneInv'
  BY NextAlone
<1> QED
  BY <1>1, <1>2, Invariance, PTL DEF Spec

\* A code of a user whose requests do not overlap is tried at most maxAttempts
\* times, however many handlers serve other users.
THEOREM CapHolds == Spec => []AttemptsCapped
<1>1. Inv /\ AloneInv => AttemptsCapped
  <2> SUFFICES ASSUME Inv, AloneInv, NEW i \in RowIds, Alone(i)
               PROVE  otp[i].attempts <= MaxAttempts
    BY DEF AttemptsCapped
  <2>1. otp[i].user \in Users
    <3>1. otp[i] \in Row
      BY RowAt DEF Inv
    <3> QED
      BY <3>1 DEF Row
  <2> QED
    BY <2>1 DEF Alone, AloneInv, UserInv, UserRows
<1> QED
  BY <1>1, Alones, PTL

\* Such a user has at most one active code.
THEOREM SingleActive == Spec => []OneActiveCode
<1>1. Inv /\ AloneInv => OneActiveCode
  <2> SUFFICES ASSUME Inv, AloneInv, NEW u \in Users \ overlapped,
                      NEW i \in Active(u), NEW j \in Active(u)
               PROVE  i = j
    BY DEF OneActiveCode
  <2>1. i \in Nat /\ j \in Nat
    BY DEF Active, RowIds
  <2>2. i <= j /\ j <= i
    BY DEF AloneInv, UserInv, UserRows, Newest, Active
  <2> QED
    BY <2>1, <2>2
<1> QED
  BY <1>1, Alones, PTL

\* A code of such a user signs in once.
THEOREM CodeSignsInOnce == Spec => []OneSessionPerCode
<1>1. Inv /\ AloneInv => OneSessionPerCode
  <2> SUFFICES ASSUME Inv, AloneInv, NEW s \in Tokens, NEW t \in Tokens,
                      earned[s] = earned[t], Alone(earned[s])
               PROVE  s = t
    BY DEF OneSessionPerCode
  <2>1. otp[earned[s]].user \in Users
    <3>1. otp[earned[s]] \in Row
      BY RowAt DEF Inv, SessionsEarned
    <3> QED
      BY <3>1 DEF Row
  <2> QED
    BY <2>1 DEF Alone, AloneInv, UserInv, UserTokens
<1> QED
  BY <1>1, Alones, PTL

\* Such a user signs in with the newest code only.
THEOREM NewestSignsIn == Spec => OnlyNewestSignsIn
<1> DEFINE FromNewest == \A t \in DOMAIN earned' \ DOMAIN earned :
              Alone(earned'[t]) =>
                  \A j \in RowIds : otp[j].user = otp[earned'[t]].user => j <= earned'[t]
<1>1. ASSUME Inv, AloneInv, [Next]_vars PROVE FromNewest
  <2>1. CASE UNCHANGED earned
    BY <2>1
  <2>2. ASSUME NEW h \in Handlers, Mint(h) PROVE FromNewest
    <3> DEFINE k == handler[h].row
               u == handler[h].user
    <3>1. \A t \in DOMAIN earned' \ DOMAIN earned : earned'[t] = k
      <4>1. DOMAIN earned = 1..Len(earned) /\ DOMAIN earned' = 1..Len(earned)+1
        BY <1>1, <2>2, MintTokens DEF Inv, TypeOK
      <4>2. earned'[Len(earned) + 1] = k
        BY <1>1, <2>2, MintTokens DEF Inv, NewToken
      <4>3. Len(earned) \in Nat
        BY <1>1 DEF Inv, TypeOK
      <4> QED
        BY <4>1, <4>2, <4>3
    <3>2. otp[k].user = u /\ handler[h].pc = "mint"
      BY <1>1, <2>2 DEF Mint, Inv, ChosenRowOwned, Chosen
    <3>3. h \in InFlight(u) /\ u \in Users
      <4>1. Step(h) /\ TypeOK
        BY <1>1, <2>2 DEF Step, Inv
      <4> QED
        BY <4>1, StepMoves DEF InFlight, Busy
    <3>4. ASSUME u \notin overlapped PROVE Newest(u, k)
      BY <1>1, <3>2, <3>3, <3>4 DEF AloneInv, UserInv, Relies
    <3> QED
      BY <3>1, <3>2, <3>4 DEF Alone, Newest
  <2> QED
    BY <1>1, <2>1, <2>2, NextSteps DEF BeginRequest, BeginVerify, Invalidate, Insert, SelectNothing,
       SelectRow, CountAttempt, Consume, Fail, SignOut, Tick, Crash, vars
<1>2. Inv /\ AloneInv /\ [Next]_vars => [FromNewest]_vars
  BY <1>1
<1> QED
  BY <1>2, Alones, PTL DEF Spec, OnlyNewestSignsIn
=============================================================================
