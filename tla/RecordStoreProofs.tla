------------------------- MODULE RecordStoreProofs -------------------------
(* Proofs about RecordStore, for any users, sessions, ids and calls. *)
EXTENDS RecordStore, TLAPS

-----------------------------------------------------------------------------
(* The inductive invariant. *)

\* Every stored ciphertext, and every one on its way, was sent by its user, and
\* under an id its user may use; only answered calls have results.
RowsSent ==
    \A i \in Ids : rows[i] # Absent =>
        /\ <<rows[i].owner, i, rows[i].val>> \in sent
        /\ MayUse(rows[i].owner, i)

CallsSent ==
    \A c \in Calls : call[c] # NoCall =>
        /\ call[c].op = "put" =>
              /\ <<Owner(c), call[c].id, call[c].val>> \in sent
              /\ MayUse(Owner(c), call[c].id)
        /\ call[c].state # "ok" => call[c].got = {}

Inv == TypeOK /\ RowsSent /\ CallsSent /\ ReadsOwn

\* The initial states satisfy it.
LEMMA InitInv == Init => Inv
BY DEF Init, Inv, TypeOK, RowsSent, CallsSent, ReadsOwn, Absent, NoCall

\* A call that is not over has a request.
LEMMA Pending ==
    ASSUME TypeOK, NEW c \in Calls, call[c].state # "none"
    PROVE  call[c] \in Call /\ call[c] # NoCall
BY DEF TypeOK, NoCall

\* A call keeps its request while its state and its result move on.
LEMMA CallMoves ==
    ASSUME NEW r \in Call, NEW st \in {"authed", "refused", "error", "ok"},
           NEW got \in SUBSET (Ids \X Values)
    PROVE  /\ [r EXCEPT !.state = st] \in Call
           /\ [r EXCEPT !.state = st, !.got = got] \in Call
BY DEF Call

\* Each step keeps it.
LEMMA StepInv == Inv /\ [Next]_vars => Inv'
<1> SUFFICES ASSUME Inv, [Next]_vars PROVE Inv'
    OBVIOUS
<1> USE DEF Inv
<1>0. CASE UNCHANGED vars
    BY <1>0 DEF vars, TypeOK, RowsSent, CallsSent, ReadsOwn, Owner
<1>1. ASSUME NEW s \in Sessions, SignIn(s) \/ SignOut(s)
      PROVE  Inv'
    BY <1>1 DEF SignIn, SignOut, TypeOK, RowsSent, CallsSent, ReadsOwn, Owner
<1>2. ASSUME NEW c \in Calls, NEW s \in Sessions, NEW op \in {"list", "put", "delete"},
             NEW i \in Ids, NEW k \in Kinds, NEW v \in Values, Ask(c, s, op, i, k, v)
      PROVE  Inv'
  <2>1. Request(s, op, i, k, v) \in Call /\ Request(s, op, i, k, v) # NoCall
    BY DEF Request, Call, NoCall
  <2>2. TypeOK'
    BY <1>2, <2>1, RecordAssumption DEF Ask, TypeOK
  <2>3. sent \subseteq sent'
    BY <1>2 DEF Ask
  <2>4. RowsSent'
    BY <1>2, <2>3 DEF Ask, RowsSent
  <2>5. /\ call'[c] = Request(s, op, i, k, v)
        /\ \A d \in Calls \ {c} : call'[d] = call[d]
        /\ op = "put" => <<UserOf(s), i, v>> \in sent' /\ MayUse(UserOf(s), i)
    BY <1>2 DEF Ask, TypeOK, Sensible
  <2>6. CallsSent'
    BY <2>3, <2>5 DEF CallsSent, Owner, Request
  <2>7. ReadsOwn'
    BY <2>3, <2>5 DEF ReadsOwn, Owner, Request
  <2> QED
    BY <2>2, <2>4, <2>6, <2>7
\* Any step of a call that keeps its request: what is left is the rows and the result.
<1>3. ASSUME NEW c \in Calls, call[c].state # "none", UNCHANGED <<alive, ended, sent>>,
             NEW st \in {"authed", "refused", "error", "ok"}, NEW got \in SUBSET (Ids \X Values),
             call' = [call EXCEPT ![c] = [@ EXCEPT !.state = st, !.got = got]],
             st # "ok" => got = {},
             \A r \in got : <<Owner(c), r[1], r[2]>> \in sent,
             rows' \in [Ids -> Row \cup {Absent}], RowsSent'
      PROVE  Inv'
  <2>1. call[c] \in Call
    BY <1>3, Pending
  <2>2. call'[c] = [call[c] EXCEPT !.state = st, !.got = got] /\ call'[c] \in Call
    BY <1>3, <2>1, CallMoves DEF TypeOK
  <2>3. /\ call'[c].session = call[c].session /\ call'[c].op = call[c].op
        /\ call'[c].id = call[c].id /\ call'[c].val = call[c].val
        /\ call'[c].state = st /\ call'[c].got = got
    BY <2>1, <2>2 DEF Call
  <2>4. \A d \in Calls \ {c} : call'[d] = call[d]
    BY <1>3 DEF TypeOK
  <2>5. TypeOK'
    BY <1>3, <2>2 DEF TypeOK
  <2>6. CallsSent'
    BY <1>3, <2>1, <2>3, <2>4, Pending DEF CallsSent, Owner
  <2>7. ReadsOwn'
    BY <1>3, <2>3, <2>4 DEF ReadsOwn, Owner
  <2> QED
    BY <1>3, <2>5, <2>6, <2>7
<1>4. ASSUME NEW c \in Calls, Authenticate(c) \/ Reject(c)
      PROVE  Inv'
  <2>1. call[c].state \in {"asked", "authed"} /\ call[c] \in Call
    BY <1>4, Pending DEF Authenticate, Reject
  <2>2. call[c].got = {}
    BY <2>1, Pending DEF CallsSent
  <2>3. PICK st \in {"authed", "refused", "error"} : call' = [call EXCEPT ![c].state = st]
    BY <1>4 DEF Authenticate, Reject
  <2>4. [call[c] EXCEPT !.state = st] = [call[c] EXCEPT !.state = st, !.got = {}]
    BY <2>1, <2>2 DEF Call
  <2>5. call' = [call EXCEPT ![c] = [@ EXCEPT !.state = st, !.got = {}]]
    BY <2>3, <2>4 DEF TypeOK
  <2>6. UNCHANGED <<rows, alive, ended, sent>>
    BY <1>4 DEF Authenticate, Reject
  <2> QED
    BY <1>3, <2>1, <2>5, <2>6 DEF TypeOK, RowsSent
<1>5. ASSUME NEW c \in Calls, List(c)
      PROVE  Inv'
  <2> DEFINE got == {<<i, rows[i].val>> : i \in Listed(Owner(c), call[c].kind)}
  <2>1. got \in SUBSET (Ids \X Values)
    BY DEF Listed, TypeOK, Row
  <2>2. \A r \in got : <<Owner(c), r[1], r[2]>> \in sent
    BY DEF Listed, RowsSent
  <2> HIDE DEF got
  <2>3. /\ call[c].state = "authed" /\ UNCHANGED <<rows, alive, ended, sent>>
        /\ call' = [call EXCEPT ![c] = [@ EXCEPT !.state = "ok", !.got = got]]
    BY <1>5 DEF List, Answered, got
  <2> QED
    BY <1>3, <2>1, <2>2, <2>3 DEF TypeOK, RowsSent
<1>6. ASSUME NEW c \in Calls, Put(c)
      PROVE  Inv'
  <2> DEFINE none == {}
  <2>0. none \in SUBSET (Ids \X Values) /\ (\A r \in none : <<Owner(c), r[1], r[2]>> \in sent)
    OBVIOUS
  <2>1. call[c] \in Call /\ call[c] # NoCall /\ call[c].op = "put"
    BY <1>6, Pending DEF Put
  <2>2. Owner(c) \in Users
    BY <2>1, RecordAssumption DEF Owner, Call
  <2>3. /\ call' = [call EXCEPT ![c] = [@ EXCEPT !.state = "ok", !.got = none]]
        /\ UNCHANGED <<alive, ended, sent>> /\ call[c].state = "authed"
    BY <1>6 DEF Put, Answered
  <2> DEFINE new == [owner |-> Owner(c), kind |-> call[c].kind, val |-> call[c].val]
  <2>4. /\ rows'[call[c].id] \in {rows[call[c].id], new}
        /\ \A i \in Ids \ {call[c].id} : rows'[i] = rows[i]
        /\ rows' \in [Ids -> Row \cup {Absent}]
    BY <1>6, <2>1, <2>2 DEF Put, Upserted, TypeOK, Call, Row
  <2>5. RowsSent'
    BY <2>1, <2>3, <2>4 DEF RowsSent, CallsSent
  <2> HIDE DEF none
  <2> QED
    BY <1>3, <2>0, <2>3, <2>4, <2>5
<1>7. ASSUME NEW c \in Calls, Delete(c)
      PROVE  Inv'
  <2> DEFINE none == {}
  <2>0. none \in SUBSET (Ids \X Values) /\ (\A r \in none : <<Owner(c), r[1], r[2]>> \in sent)
    OBVIOUS
  <2>1. /\ call' = [call EXCEPT ![c] = [@ EXCEPT !.state = "ok", !.got = none]]
        /\ UNCHANGED <<alive, ended, sent>> /\ call[c].state = "authed"
    BY <1>7 DEF Delete, Answered
  <2>2. rows' \in [Ids -> Row \cup {Absent}] /\ \A i \in Ids : rows'[i] \in {rows[i], Absent}
    BY <1>7 DEF Delete, Removed, TypeOK
  <2>3. RowsSent'
    BY <2>1, <2>2 DEF RowsSent
  <2> HIDE DEF none
  <2> QED
    BY <1>3, <2>0, <2>1, <2>2, <2>3
<1>8. ASSUME NEW c \in Calls, Return(c)
      PROVE  Inv'
    BY <1>8 DEF Return, TypeOK, RowsSent, CallsSent, ReadsOwn, Owner
<1> QED
    BY <1>0, <1>1, <1>2, <1>4, <1>5, <1>6, <1>7, <1>8 DEF Next

\* The invariant holds of every reachable state.
THEOREM Invariance == Spec => []Inv
BY InitInv, StepInv, PTL DEF Spec

\* The types.
THEOREM TypeCorrect == Spec => []TypeOK
<1>1. Inv => TypeOK
  BY DEF Inv
<1> QED
  BY <1>1, Invariance, PTL

\* BR-CONF-1: a list answers with what its own user sent, whatever ids the users
\* save under and however calls and sign-outs interleave.
THEOREM ReadIsolation == Spec => []ReadsOwn
<1>1. Inv => ReadsOwn
  BY DEF Inv
<1> QED
  BY <1>1, Invariance, PTL

-----------------------------------------------------------------------------
(* Who writes. *)

\* BR-CONF-1: only an authenticated call of a row's owner changes it, and the row
\* keeps its owner for as long as it is there.
THEOREM WriteIsolation == Spec => OnlyOwnerWrites
<1> DEFINE ByOwner(i) ==
       \E c \in Calls :
          /\ call[c].state = "authed"
          /\ call[c].id = i
          /\ rows[i] # Absent => rows[i].owner = Owner(c)
          /\ rows'[i] # Absent => rows'[i].owner = Owner(c)
<1>1. ASSUME Inv, [Next]_vars, NEW i \in Ids, rows'[i] # rows[i]
      PROVE  ByOwner(i)
  <2>1. PICK c \in Calls : Put(c) \/ Delete(c)
    BY <1>1, ZenonT(60) DEF Next, vars, SignIn, SignOut, Ask, Authenticate, Reject, List, Return
  <2>2. CASE Put(c)
    BY <1>1, <2>2 DEF Put, Upserted, Inv, TypeOK
  <2>3. CASE Delete(c)
    BY <1>1, <2>3 DEF Delete, Removed, Inv, TypeOK
  <2> QED
    BY <2>1, <2>2, <2>3
<1>2. Inv /\ [Next]_vars => [\A i \in Ids : rows'[i] # rows[i] => ByOwner(i)]_vars
  BY <1>1
<1> QED
  BY <1>2, Invariance, PTL DEF Spec, OnlyOwnerWrites

-----------------------------------------------------------------------------
(* Each user has a store of its own. *)

View == [u \in Users |-> ViewOf(u)]
Task == [c \in Calls |-> TaskOf(c)]

\* An empty table is an empty store for every user.
LEMMA RefinesInit == Init => U!Init
BY DEF Init, U!Init, ViewOf, TaskOf, NoCall, Absent, U!Absent, U!NoTask

\* The view of the rows changes at the row that changes.
LEMMA ViewMoves ==
    ASSUME TypeOK, NEW u \in Users, NEW j \in Ids, NEW row \in Row \cup {Absent},
           rows' = [rows EXCEPT ![j] = row],
           rows[j] # Absent => rows[j].owner = u,
           row # Absent => row.owner = u
    PROVE  View' = [View EXCEPT ![u][j] =
                       IF row # Absent THEN [kind |-> row.kind, val |-> row.val] ELSE Absent]
<1>1. ASSUME NEW v \in Users, NEW i \in Ids, v # u \/ i # j
      PROVE  ViewOf(v)'[i] = ViewOf(v)[i]
  BY <1>1 DEF ViewOf, TypeOK
<1>2. ViewOf(u)'[j] = IF row # Absent THEN [kind |-> row.kind, val |-> row.val] ELSE Absent
  BY DEF ViewOf, TypeOK
<1> DEFINE e == IF row # Absent THEN [kind |-> row.kind, val |-> row.val] ELSE Absent
<1>3. ASSUME NEW v \in Users
      PROVE  /\ ViewOf(v) = [i \in Ids |-> ViewOf(v)[i]]
             /\ ViewOf(v)' = [i \in Ids |-> ViewOf(v)'[i]]
  BY DEF ViewOf
<1>4. ViewOf(u)' = [ViewOf(u) EXCEPT ![j] = e]
  BY <1>1, <1>2, <1>3
<1>5. ASSUME NEW v \in Users, v # u
      PROVE  ViewOf(v)' = ViewOf(v)
  BY <1>1, <1>3, <1>5
<1> HIDE DEF e
<1>6. View' = [View EXCEPT ![u] = [@ EXCEPT ![j] = e]]
  BY <1>4, <1>5 DEF View
<1> QED
  BY <1>6 DEF e

\* The task of a call moves with it, the others stay.
LEMMA TaskMoves ==
    ASSUME TypeOK, NEW c \in Calls, NEW r,
           call' = [call EXCEPT ![c] = r]
    PROVE  Task' = [Task EXCEPT ![c] = TaskOf(c)']
BY DEF Task, TaskOf, TypeOK, Owner

\* Each step of the table is a step of the users' own stores, or none.
LEMMA RefinesStep ==
    ASSUME Inv, [Next]_vars
    PROVE  [U!Next]_<<View, Task>>
<1> USE DEF Inv
<1>0. CASE UNCHANGED vars
    BY <1>0 DEF vars, View, ViewOf, Task, TaskOf, Owner
<1>1. ASSUME NEW s \in Sessions, SignIn(s) \/ SignOut(s)
      PROVE  UNCHANGED <<View, Task>>
    BY <1>1 DEF SignIn, SignOut, View, ViewOf, Task, TaskOf, Owner
<1>2. ASSUME NEW c \in Calls, NEW s \in Sessions, NEW op \in {"list", "put", "delete"},
             NEW i \in Ids, NEW k \in Kinds, NEW v \in Values, Ask(c, s, op, i, k, v)
      PROVE  U!Begin(c)
  <2>1. call' = [call EXCEPT ![c] = Request(s, op, i, k, v)] /\ call[c] = NoCall /\ UNCHANGED rows
    BY <1>2 DEF Ask
  <2>2. Task' = [Task EXCEPT ![c] = TaskOf(c)']
    BY <2>1, TaskMoves
  <2>3. call'[c] = Request(s, op, i, k, v)
    BY <2>1 DEF TypeOK
  <2>4. TaskOf(c)' = U!Asked(UserOf(s), op, i, k, v)
    BY <2>3 DEF TaskOf, Request, Owner, U!Asked, NoCall
  <2>5. Task[c] = U!NoTask
    BY <2>1 DEF Task, TaskOf, U!NoTask, NoCall
  <2>6. View' = View
    BY <2>1 DEF View, ViewOf
  <2>7. UserOf(s) \in Users
    BY RecordAssumption
  <2>8. Task' = [Task EXCEPT ![c] = U!Asked(UserOf(s), op, i, k, v)]
    BY <2>2, <2>4
  <2>9. \E u \in Users, o \in {"list", "put", "delete"}, j \in Ids, l \in Kinds, w \in Values :
            Task' = [Task EXCEPT ![c] = U!Asked(u, o, j, l, w)]
    BY <2>7, <2>8
  <2> QED
    BY <2>5, <2>6, <2>9 DEF U!Begin, View, Task
\* What an answer does to the task of its call.
<1>3. ASSUME NEW c \in Calls, call[c].state \in {"asked", "authed"},
             NEW st \in {"refused", "error", "ok"}, NEW got,
             call' = [call EXCEPT ![c] = [@ EXCEPT !.state = st, !.got = got]]
      PROVE  /\ Task[c].state = "pending"
             /\ Task[c].user = Owner(c) /\ Task[c].op = call[c].op /\ Task[c].id = call[c].id
             /\ Task[c].kind = call[c].kind /\ Task[c].val = call[c].val
             /\ Task' = [Task EXCEPT ![c] = U!Answered(@, st, got)]
  <2>1. call[c] \in Call /\ call[c] # NoCall
    BY <1>3, Pending
  <2>2. Task[c] = [state |-> "pending", user |-> Owner(c), op |-> call[c].op, id |-> call[c].id,
                   kind |-> call[c].kind, val |-> call[c].val, got |-> call[c].got]
    BY <1>3, <2>1 DEF Task, TaskOf
  <2>3. call'[c] = [call[c] EXCEPT !.state = st, !.got = got]
    BY <1>3 DEF TypeOK
  <2>4. /\ call'[c] # NoCall /\ call'[c].state = st /\ call'[c].got = got
        /\ call'[c].session = call[c].session /\ call'[c].op = call[c].op
        /\ call'[c].id = call[c].id /\ call'[c].kind = call[c].kind /\ call'[c].val = call[c].val
    BY <2>1, <2>3 DEF Call, NoCall
  <2>5. TaskOf(c)' = [state |-> st, user |-> Owner(c), op |-> call[c].op, id |-> call[c].id,
                      kind |-> call[c].kind, val |-> call[c].val, got |-> got]
    BY <1>3, <2>4 DEF TaskOf, Owner
  <2>6. TaskOf(c)' = U!Answered(Task[c], st, got)
    BY <2>2, <2>5 DEF U!Answered
  <2>7. Task' = [Task EXCEPT ![c] = TaskOf(c)']
    BY <1>3, TaskMoves
  <2> QED
    BY <2>2, <2>6, <2>7
\* A refusal or an error leaves the rows alone and answers with nothing.
<1>4. ASSUME NEW c \in Calls, call[c].state \in {"asked", "authed"}, UNCHANGED rows,
             NEW st \in {"refused", "error"}, call' = [call EXCEPT ![c].state = st]
      PROVE  U!Decline(c, st)
  <2> DEFINE none == {}
  <2>1. call[c] \in Call /\ call[c].got = none
    BY <1>4, Pending DEF CallsSent
  <2>2. [call[c] EXCEPT !.state = st] = [call[c] EXCEPT !.state = st, !.got = none]
    BY <2>1 DEF Call
  <2> HIDE DEF none
  <2>3. call' = [call EXCEPT ![c] = [@ EXCEPT !.state = st, !.got = none]]
    BY <1>4, <2>2 DEF TypeOK
  <2>4. Task[c].state = "pending" /\ Task' = [Task EXCEPT ![c] = U!Answered(@, st, none)]
    <3>1. st \in {"refused", "error", "ok"} /\ call[c].state \in {"asked", "authed"}
      BY <1>4
    <3> HIDE DEF Inv
    <3>2. CASE st = "refused"
      BY <1>3, <2>3, <3>1, <3>2
    <3>3. CASE st = "error"
      BY <1>3, <2>3, <3>1, <3>3
    <3> QED
      BY <1>4, <3>2, <3>3
  <2>5. View' = View
    BY <1>4 DEF View, ViewOf
  <2> QED
    BY <2>4, <2>5 DEF U!Decline, View, Task, none
<1>5. ASSUME NEW c \in Calls, Authenticate(c)
      PROVE  UNCHANGED <<View, Task>> \/ U!Decline(c, "refused")
  <2>1. CASE call[c].session \in alive
    <3>1. call[c] \in Call /\ call[c] # NoCall /\ call[c].state = "asked"
      BY <1>5, Pending DEF Authenticate
    <3>2. call' = [call EXCEPT ![c] = [@ EXCEPT !.state = "authed"]] /\ UNCHANGED rows
      BY <1>5, <2>1 DEF Authenticate
    <3>3. call'[c] = [call[c] EXCEPT !.state = "authed"]
      BY <3>2 DEF TypeOK
    <3>4. TaskOf(c)' = TaskOf(c)
      BY <3>1, <3>3 DEF TaskOf, Call, NoCall, Owner
    <3>5. Task' = [Task EXCEPT ![c] = TaskOf(c)']
      BY <3>2, TaskMoves
    <3> QED
      BY <3>2, <3>4, <3>5 DEF Task, View, ViewOf
  <2>2. CASE call[c].session \notin alive
    BY <1>4, <1>5, <2>2 DEF Authenticate
  <2> QED
    BY <2>1, <2>2
<1>6. ASSUME NEW c \in Calls, Reject(c)
      PROVE  U!Decline(c, "error")
    BY <1>4, <1>6 DEF Reject
<1>7. ASSUME NEW c \in Calls, List(c)
      PROVE  U!Finish(c)
  <2> DEFINE u == Owner(c)
             got == {<<i, rows[i].val>> : i \in Listed(u, call[c].kind)}
  <2>1. /\ call[c].state = "authed" /\ call[c].op = "list" /\ UNCHANGED rows
        /\ call' = [call EXCEPT ![c] = [@ EXCEPT !.state = "ok", !.got = got]]
    BY <1>7 DEF List, Answered
  <2>2. u \in Users
    BY <2>1, Pending, RecordAssumption DEF Owner, Call
  <2>3. \A i \in Ids : i \in Listed(u, call[c].kind) <=>
            View[u][i] # Absent /\ View[u][i].kind = call[c].kind
    BY <2>2 DEF View, ViewOf, Listed, TypeOK, Row, Absent
  <2>4. \A i \in Listed(u, call[c].kind) : View[u][i].val = rows[i].val
    BY <2>2 DEF View, ViewOf, Listed
  <2>5. got = {<<i, View[u][i].val>> : i \in
                  {j \in Ids : View[u][j] # Absent /\ View[u][j].kind = call[c].kind}}
    <3>1. Listed(u, call[c].kind) =
              {j \in Ids : View[u][j] # Absent /\ View[u][j].kind = call[c].kind}
      BY <2>3 DEF Listed
    <3> QED
      BY <2>4, <3>1
  <2> HIDE DEF u, got
  <2>6. /\ Task[c].state = "pending" /\ Task[c].user = u /\ Task[c].op = "list"
        /\ Task[c].kind = call[c].kind
        /\ Task' = [Task EXCEPT ![c] = U!Answered(@, "ok", got)]
    BY <1>3, <2>1 DEF u
  <2>7. U!Result(Task[c]) = got
    BY <2>5, <2>6 DEF U!Result, U!Absent, Absent, View
  <2>8. View' = View /\ U!Effect(Task[c]) = View
    BY <2>1, <2>6 DEF View, ViewOf, U!Effect
  <2> QED
    BY <2>6, <2>7, <2>8 DEF U!Finish, View, Task
\* What a write does: its effect on the rows is left, it has no result.
<1>8. ASSUME NEW c \in Calls, call[c].state = "authed", call[c].op \in {"put", "delete"},
             Answered(c, {}),
             View' = [View EXCEPT ![Owner(c)][call[c].id] =
                         IF call[c].op = "put" THEN [kind |-> call[c].kind, val |-> call[c].val]
                         ELSE Absent]
      PROVE  U!Finish(c)
  <2> DEFINE none == {}
  <2>1. call' = [call EXCEPT ![c] = [@ EXCEPT !.state = "ok", !.got = none]]
    BY <1>8 DEF Answered
  <2> HIDE DEF none
  <2>2. /\ Task[c].state = "pending" /\ Task[c].user = Owner(c) /\ Task[c].op = call[c].op
        /\ Task[c].id = call[c].id /\ Task[c].kind = call[c].kind /\ Task[c].val = call[c].val
        /\ Task' = [Task EXCEPT ![c] = U!Answered(@, "ok", none)]
    BY <1>3, <1>8, <2>1
  <2>3. U!Result(Task[c]) = none
    BY <1>8, <2>2 DEF U!Result, none
  <2>4. View' = U!Effect(Task[c])
    BY <1>8, <2>2 DEF U!Effect, U!Absent, Absent, View
  <2> QED
    BY <2>2, <2>3, <2>4 DEF U!Finish, View, Task
\* A put whose statement changes nothing: the row is another user's, so its id is
\* one that both save under.
<1>9. ASSUME NEW c \in Calls, Put(c),
             rows[call[c].id] # Absent, rows[call[c].id].owner # Owner(c)
      PROVE  U!Lose(c)
  <2> DEFINE none == {}
             i == call[c].id
  <2>1. /\ call[c] \in Call /\ call[c] # NoCall /\ Owner(c) \in Users
        /\ call[c].op = "put" /\ call[c].state = "authed"
    BY <1>9, Pending, RecordAssumption DEF Put, Owner, Call
  <2>2. i \in Ids
    BY <2>1 DEF Call
  <2>3. i \in Common
    <3>1. MayUse(Owner(c), i)
      BY <2>1 DEF CallsSent
    <3>2. rows[i].owner \in Users /\ MayUse(rows[i].owner, i)
      BY <1>9, <2>2 DEF RowsSent, TypeOK, Row
    <3> QED
      BY <1>9, <2>1, <2>2, <3>1, <3>2 DEF Common
  <2>4. rows' = rows
    BY <1>9, <2>2 DEF Put, Upserted, TypeOK
  <2>5. View' = View
    BY <2>4 DEF View, ViewOf
  <2>6. call' = [call EXCEPT ![c] = [@ EXCEPT !.state = "ok", !.got = none]]
    BY <1>9 DEF Put, Answered
  <2> HIDE DEF none
  <2>7. /\ Task[c].state = "pending" /\ Task[c].op = "put" /\ Task[c].id = i
        /\ Task' = [Task EXCEPT ![c] = U!Answered(@, "ok", none)]
    BY <1>3, <2>1, <2>6
  <2> QED
    BY <2>3, <2>5, <2>7 DEF U!Lose, View, Task, none
<1>10. ASSUME NEW c \in Calls, Put(c),
              rows[call[c].id] # Absent => rows[call[c].id].owner = Owner(c)
       PROVE  U!Finish(c)
  <2> DEFINE new == [owner |-> Owner(c), kind |-> call[c].kind, val |-> call[c].val]
  <2>1. call[c] \in Call /\ call[c] # NoCall /\ Owner(c) \in Users /\ call[c].op = "put"
    BY <1>10, Pending, RecordAssumption DEF Put, Owner, Call
  <2>2. call[c].id \in Ids /\ new \in Row
    BY <2>1 DEF Call, Row
  <2>3. rows[call[c].id] # Absent => rows[call[c].id].owner = Owner(c)
    BY <1>10
  <2>4. rows' = [rows EXCEPT ![call[c].id] = new]
    BY <1>10, <2>2, <2>3 DEF Put, Upserted
  <2>5. new # Absent /\ new.owner = Owner(c) /\ new.kind = call[c].kind /\ new.val = call[c].val
    BY DEF Absent
  <2> HIDE DEF new
  <2>6. View' = [View EXCEPT ![Owner(c)][call[c].id] = [kind |-> call[c].kind, val |-> call[c].val]]
    BY <2>1, <2>2, <2>3, <2>4, <2>5, ViewMoves
  <2> QED
    BY <1>8, <1>10, <2>1, <2>6 DEF Put
<1>11. ASSUME NEW c \in Calls, Delete(c)
       PROVE  U!Finish(c)
  <2>1. call[c] \in Call /\ Owner(c) \in Users /\ call[c].op = "delete" /\ call[c].id \in Ids
    BY <1>11, Pending, RecordAssumption DEF Delete, Owner, Call
  <2>2. ASSUME rows[call[c].id] # Absent /\ rows[call[c].id].owner = Owner(c)
        PROVE  View' = [View EXCEPT ![Owner(c)][call[c].id] = Absent]
    <3>1. rows' = [rows EXCEPT ![call[c].id] = Absent]
      BY <1>11, <2>2 DEF Delete, Removed
    <3> QED
      BY <2>1, <2>2, <3>1, ViewMoves
  <2>3. ASSUME ~(rows[call[c].id] # Absent /\ rows[call[c].id].owner = Owner(c))
        PROVE  View' = [View EXCEPT ![Owner(c)][call[c].id] = Absent]
    <3>1. rows' = rows
      BY <1>11, <2>3 DEF Delete, Removed, TypeOK
    <3>2. View[Owner(c)][call[c].id] = Absent
      BY <2>1, <2>3 DEF View, ViewOf
    <3>3. View' = View
      BY <3>1 DEF View, ViewOf
    <3>4. View[Owner(c)] = [i \in Ids |-> View[Owner(c)][i]] /\ View = [u \in Users |-> View[u]]
      BY <2>1 DEF View, ViewOf
    <3>5. [View[Owner(c)] EXCEPT ![call[c].id] = Absent] = View[Owner(c)]
      BY <3>2, <3>4
    <3>6. [View EXCEPT ![Owner(c)] = View[Owner(c)]] = View
      BY <3>4
    <3> HIDE DEF View
    <3> QED
      BY <3>3, <3>5, <3>6
  <2>4. View' = [View EXCEPT ![Owner(c)][call[c].id] = Absent]
    BY <2>2, <2>3
  <2> QED
    BY <1>8, <1>11, <2>1, <2>4 DEF Delete
<1>12. ASSUME NEW c \in Calls, Return(c)
       PROVE  U!Forget(c)
  <2>1. call[c] \in Call /\ call[c] # NoCall /\ call[c].state \in {"ok", "refused", "error"}
    BY <1>12, Pending DEF Return
  <2>2. call' = [call EXCEPT ![c] = NoCall] /\ call'[c] = NoCall /\ UNCHANGED rows
    BY <1>12 DEF Return, TypeOK
  <2>3. Task' = [Task EXCEPT ![c] = TaskOf(c)']
    BY <2>2, TaskMoves
  <2>4. TaskOf(c)' = U!NoTask /\ Task[c].state = call[c].state
    BY <2>1, <2>2 DEF Task, TaskOf, NoCall, U!NoTask
  <2>5. View' = View
    BY <2>2 DEF View, ViewOf
  <2> QED
    BY <2>1, <2>3, <2>4, <2>5 DEF U!Forget, View, Task
<1> QED
    BY <1>0, <1>1, <1>2, <1>5, <1>6, <1>7, <1>9, <1>10, <1>11, <1>12 DEF Next, U!Next, View, Task

\* Each user has a store of its own, as if no other user and no table were there,
\* but for puts under the ids that several users save under.
THEOREM OwnStores == Spec => OwnStore
<1>1. Inv /\ [Next]_vars => [U!Next]_<<View, Task>>
  BY RefinesStep
<1> QED
  BY <1>1, RefinesInit, Invariance, PTL DEF Spec, OwnStore, U!Spec, View, Task
=============================================================================
