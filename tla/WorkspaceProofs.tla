--------------------------- MODULE WorkspaceProofs ---------------------------
(* Proofs about Workspace, for any registers, records and calls in flight. *)
EXTENDS Workspace, TLAPS

-----------------------------------------------------------------------------
(* The inductive invariant. *)

Muts == {"add", "update", "upsert", "remove"}

\* Only a removal has no version; only expenses are added blindly.
Named ==
    \A c \in Calls : call[c].op \in Muts =>
        /\ call[c].ver = 0 <=> call[c].op = "remove"
        /\ call[c].op = "add" => KindOf[call[c].id] = "expense"

\* An id that was never handed out is nowhere.
Known ==
    /\ \A i \in Ids : i \notin used => store[i] = 0
    /\ \A c \in Calls : call[c].op \in Muts => call[c].id \in used

\* Two calls for a record make it suspect.
Lone ==
    \A i \in Ids \ suspect, c, d \in Calls : Changing(c, i) /\ Changing(d, i) => c = d

\* The one call for a record that is not will show what it stores.
Fits ==
    \A i \in Ids \ suspect, c \in Calls : Changing(c, i) =>
        /\ Applied(call[c], local[i]) = Shown(call[c].ver)
        /\ call[c].phase = "sent" => local[i] = Shown(store[i])
        /\ call[c].phase = "stored" => store[i] = call[c].ver

\* A load that was not disturbed for a record has read what is stored.
Fresh ==
    \A c \in Calls : Loading(c) => \A i \in Ids \ call[c].touched :
        /\ ~Pending(i)
        /\ KindOf[i] \notin call[c].unread => call[c].seen[i] = store[i]

Inv == TypeOK /\ Named /\ Known /\ Lone /\ Fits /\ Fresh /\ ShownIsStored /\ OnlyExpensesDouble

-----------------------------------------------------------------------------
(* Calls and lists. *)

\* What a call is, is told by its op.
LEMMA CallKinds ==
    ASSUME TypeOK, NEW c \in Calls
    PROVE  /\ call[c].op \in Muts => call[c] \in Change
           /\ call[c].op = "load" => call[c] \in Load
           /\ call[c].op \in Muts \cup {"idle", "load"}
           /\ call[c].op = "idle" => call[c] = Idle
<1>1. call[c] \in {Idle} \cup Change \cup Load
    BY DEF TypeOK
<1> QED
    BY <1>1 DEF Idle, Change, Load, Muts

\* A call changes a record when its op is one of the four.
LEMMA ChangingIs ==
    ASSUME TypeOK, NEW c \in Calls, NEW i
    PROVE  Changing(c, i) <=> call[c].op \in Muts /\ call[c].id = i
BY CallKinds DEF Changing, Muts

\* Touching a record leaves all but the histories of the loads as it is.
LEMMA TouchIs ==
    ASSUME TypeOK, NEW i \in Ids
    PROVE  /\ Touch(i) \in [Calls -> {Idle} \cup Change \cup Load]
           /\ \A c \in Calls :
                /\ ~Loading(c) => Touch(i)[c] = call[c]
                /\ Loading(c) =>
                      /\ Touch(i)[c].op = "load"
                      /\ Touch(i)[c].unread = call[c].unread
                      /\ Touch(i)[c].seen = call[c].seen
                      /\ Touch(i)[c].touched = call[c].touched \cup {i}
<1>1. ASSUME NEW c \in Calls, Loading(c)
      PROVE  /\ [call[c] EXCEPT !.touched = @ \cup {i}] \in Load
             /\ [call[c] EXCEPT !.touched = @ \cup {i}].op = "load"
             /\ [call[c] EXCEPT !.touched = @ \cup {i}].unread = call[c].unread
             /\ [call[c] EXCEPT !.touched = @ \cup {i}].seen = call[c].seen
             /\ [call[c] EXCEPT !.touched = @ \cup {i}].touched = call[c].touched \cup {i}
    BY <1>1, CallKinds DEF Loading, Load
<1>2. \A c \in Calls : call[c] \in {Idle} \cup Change \cup Load
    BY DEF TypeOK
<1> QED
    BY <1>1, <1>2 DEF Touch

\* A shown record is a list of versions.
LEMMA ShownType ==
    ASSUME NEW v \in Versions \cup {0}
    PROVE  Shown(v) \in Seq(Versions) /\ Len(Shown(v)) \in {0, 1}
<1>1. CASE v = 0
    BY <1>1 DEF Shown
<1>2. CASE v \in Versions /\ v # 0
    BY <1>2 DEF Shown
<1> QED
    BY <1>1, <1>2

\* A list that has no or one entry does not have more.
LEMMA NotMore == \A n \in {0, 1} : ~(n > 1)
OBVIOUS

\* What an answered mutation makes of a list: only an "add" makes it longer than one.
LEMMA AppliedType ==
    ASSUME NEW k \in Change, k.ver = 0 <=> k.op = "remove", NEW vs \in Seq(Versions)
    PROVE  /\ Applied(k, vs) \in Seq(Versions)
           /\ k.op # "add" => Len(Applied(k, vs)) <= 1 \/ Len(Applied(k, vs)) = Len(vs)
<1>1. k.op \in Muts /\ k.ver \in Versions \cup {0}
    BY DEF Change, Muts
<1>2. CASE k.op = "remove"
    BY <1>2 DEF Applied
<1>3. ASSUME k.ver \in Versions
      PROVE  /\ Mapped(vs, k.ver) \in Seq(Versions) /\ Len(Mapped(vs, k.ver)) = Len(vs)
             /\ Prepended(vs, k.ver) \in Seq(Versions)
             /\ Upserted(vs, k.ver) \in Seq(Versions)
             /\ Len(Upserted(vs, k.ver)) <= 1 \/ Len(Upserted(vs, k.ver)) = Len(vs)
  <2>1. Mapped(vs, k.ver) \in Seq(Versions) /\ Len(Mapped(vs, k.ver)) = Len(vs)
      BY <1>3 DEF Mapped
  <2>2. Prepended(vs, k.ver) \in Seq(Versions)
      BY <1>3 DEF Prepended
  <2> QED
      BY <1>3, <2>1, <2>2 DEF Upserted
<1>4. CASE k.op = "add"
    BY <1>1, <1>3, <1>4 DEF Applied
<1>5. CASE k.op = "update"
    BY <1>1, <1>3, <1>5 DEF Applied
<1>6. CASE k.op = "upsert"
    BY <1>1, <1>3, <1>6 DEF Applied
<1> QED
    BY <1>1, <1>2, <1>4, <1>5, <1>6 DEF Muts

\* A mutation picked from a list that shows what is stored will show what it stores.
LEMMA AppliedShown ==
    ASSUME NEW k \in Change, k.ver = 0 <=> k.op = "remove", NEW s \in Versions \cup {0},
           k.op = "add" => s = 0, k.op = "update" => s # 0
    PROVE  Applied(k, Shown(s)) = Shown(k.ver)
<1>1. k.op \in Muts /\ k.ver \in Versions \cup {0} /\ 0 \notin Versions
    BY WorkspaceAssumption DEF Change, Muts, Versions
<1>2. CASE k.op = "remove"
    BY <1>2 DEF Applied, Shown
<1>3. \A v \in Versions : Prepended(<<>>, v) = <<v>> /\ Upserted(<<>>, v) = <<v>>
    BY DEF Prepended, Upserted
<1>4. \A v, w \in Versions : Mapped(<<w>>, v) = <<v>> /\ Upserted(<<w>>, v) = <<v>>
    BY DEF Mapped, Upserted
<1>5. CASE k.op = "add"
    BY <1>1, <1>3, <1>5 DEF Applied, Shown
<1>6. CASE k.op = "update"
    BY <1>1, <1>4, <1>6 DEF Applied, Shown
<1>7. CASE k.op = "upsert"
    BY <1>1, <1>3, <1>4, <1>7 DEF Applied, Shown
<1> QED
    BY <1>1, <1>2, <1>5, <1>6, <1>7 DEF Muts

-----------------------------------------------------------------------------
(* The steps. *)

\* The initial states satisfy the invariant.
LEMMA InitInv == Init => Inv
<1> SUFFICES ASSUME Init PROVE Inv
    OBVIOUS
<1>1. 1 \in Versions /\ 0 \in 0..MaxFaults
    BY WorkspaceAssumption DEF Versions
<1>2. PICK there \in SUBSET Ids :
          store = [i \in Ids |-> IF i \in there THEN 1 ELSE 0] /\ used = there
    BY DEF Init
<1>3. PICK c \in Calls :
          call = [d \in Calls |->
                    IF d = c THEN [op |-> "load", unread |-> Kinds,
                                   seen |-> [i \in Ids |-> 0], touched |-> {}]
                    ELSE Idle]
    BY DEF Init
<1>4. call \in [Calls -> {Idle} \cup Change \cup Load]
    BY <1>3 DEF Load
<1>5. \A d \in Calls : call[d].op \in {"idle", "load"}
    BY <1>3 DEF Idle
<1>6. \A i \in Ids : local[i] = <<>> /\ <<>> \in Seq(Versions) /\ Len(<<>>) = 0
    BY DEF Init
<1>7. TypeOK
    BY <1>1, <1>2, <1>4, <1>6 DEF Init, TypeOK
<1>8. Named /\ Lone /\ Fits /\ ShownIsStored
    BY <1>5 DEF Init, Named, Lone, Fits, ShownIsStored, Changing, Muts
<1>9. Known
    BY <1>2, <1>5 DEF Known, Muts
<1>10. Fresh
  <2> SUFFICES ASSUME NEW d \in Calls, Loading(d), NEW i \in Ids
               PROVE  ~Pending(i) /\ KindOf[i] \in call[d].unread
      BY DEF Fresh
  <2>1. ~Pending(i)
      BY <1>5 DEF Pending, Changing
  <2>2. call[d].unread = Kinds
      BY <1>3 DEF Loading, Idle
  <2> QED
      BY <2>1, <2>2, WorkspaceAssumption
<1>11. OnlyExpensesDouble
    BY <1>6 DEF OnlyExpensesDouble
<1> QED
    BY <1>7, <1>8, <1>9, <1>10, <1>11 DEF Inv

\* A mutation begins.
LEMMA BeginInv ==
    ASSUME Inv, NEW c \in Calls, NEW i \in Ids, NEW op \in Ops(i), Begin(c, i, op)
    PROVE  Inv'
<1> DEFINE new == [op |-> op, id |-> i, ver |-> IF op = "remove" THEN 0 ELSE writes',
                   phase |-> "sent"]
<1> USE DEF Inv
<1>1. writes' \in Versions /\ writes' # 0
    BY WorkspaceAssumption DEF Begin, TypeOK, Versions
<1>2. /\ op \in Muts
      /\ op = "add" => i \notin used /\ KindOf[i] = "expense"
      /\ op = "update" => local[i] # <<>>
    BY DEF Ops, Muts
<1>3. new \in Change /\ new.op = op /\ new.id = i /\ new.phase = "sent"
      /\ (new.ver = 0 <=> op = "remove")
    BY <1>1, <1>2 DEF Change, Muts
<1>4. /\ call'[c] = new
      /\ \A d \in Calls \ {c} : call'[d] = Touch(i)[d]
      /\ call' \in [Calls -> {Idle} \cup Change \cup Load]
    BY <1>3, TouchIs DEF Begin
<1> HIDE DEF new
<1>5. \A d \in Calls \ {c} :
          /\ ~Loading(d) => call'[d] = call[d]
          /\ Loading(d) =>
                /\ call'[d].op = "load"
                /\ call'[d].unread = call[d].unread
                /\ call'[d].seen = call[d].seen
                /\ call'[d].touched = call[d].touched \cup {i}
    BY <1>4, TouchIs
<1>6. \A d \in Calls \ {c}, j \in Ids : Changing(d, j)' <=> Changing(d, j)
    BY <1>5 DEF Changing, Loading
<1>7. \A j \in Ids : Changing(c, j)' <=> j = i
    BY <1>2, <1>3, <1>4 DEF Changing, Muts
<1>8. \A d \in Calls \ {c} : call'[d].op \in Muts => call'[d] = call[d]
    BY <1>5 DEF Loading, Muts
<1>9. /\ used' = used \cup {i} /\ suspect \subseteq suspect'
      /\ Pending(i) => i \in suspect'
      /\ store' = store /\ local' = local
    BY DEF Begin
<1>10. TypeOK'
  <2>1. suspect' \subseteq Ids /\ used' \subseteq Ids
      BY DEF Begin, TypeOK
  <2> QED
      BY <1>1, <1>4, <2>1 DEF Begin, TypeOK
<1>11. Named'
    BY <1>2, <1>3, <1>4, <1>8 DEF Named
<1>12. Known'
    BY <1>3, <1>4, <1>8, <1>9 DEF Known
<1>13. Lone'
    BY <1>6, <1>7, <1>9 DEF Lone, Pending
<1>14. Fits'
  <2> SUFFICES ASSUME NEW j \in Ids \ suspect', NEW d \in Calls, Changing(d, j)'
               PROVE  /\ Applied(call'[d], local[j]) = Shown(call'[d].ver)
                      /\ call'[d].phase = "sent" => local[j] = Shown(store[j])
                      /\ call'[d].phase = "stored" => store[j] = call'[d].ver
      BY <1>9 DEF Fits
  <2>1. CASE d # c
    <3>1. Changing(d, j) /\ j \in Ids \ suspect
        BY <2>1, <1>6, <1>9
    <3>2. call'[d] = call[d]
        BY <3>1, <2>1, <1>5 DEF Changing, Loading
    <3> QED
        BY <3>1, <3>2 DEF Fits
  <2>2. CASE d = c
    <3>1. j = i /\ call'[d] = new
        BY <2>2, <1>4, <1>7
    <3>2. local[i] = Shown(store[i])
        BY <3>1, <1>9 DEF ShownIsStored
    <3>3. store[i] \in Versions \cup {0}
        BY DEF TypeOK
    <3>4. op = "add" => store[i] = 0
        BY <1>2 DEF Known
    <3>5. op = "update" => store[i] # 0
        BY <1>2, <3>2 DEF Shown
    <3>6. Applied(new, Shown(store[i])) = Shown(new.ver)
        BY <1>3, <3>3, <3>4, <3>5, AppliedShown
    <3> QED
        BY <3>1, <3>2, <3>6, <1>3
  <2> QED
      BY <2>1, <2>2
<1>15. Fresh'
  <2> SUFFICES ASSUME NEW d \in Calls, Loading(d)', NEW j \in Ids \ call'[d].touched
               PROVE  /\ \A e \in Calls : ~Changing(e, j)'
                      /\ KindOf[j] \notin call'[d].unread => call'[d].seen[j] = store[j]
      BY <1>9 DEF Fresh, Pending
  <2>1. d # c /\ Loading(d)
      BY <1>2, <1>3, <1>4, <1>5 DEF Loading, Muts
  <2>2. /\ call'[d].unread = call[d].unread /\ call'[d].seen = call[d].seen
        /\ call'[d].touched = call[d].touched \cup {i}
      BY <2>1, <1>5
  <2>3. j # i /\ j \in Ids \ call[d].touched
      BY <2>2
  <2> QED
      BY <2>1, <2>2, <2>3, <1>6, <1>7 DEF Fresh, Pending
<1>16. ShownIsStored'
  <2> SUFFICES ASSUME NEW j \in Ids, j \notin suspect', \A d \in Calls : ~Changing(d, j)'
               PROVE  local[j] = Shown(store[j])
      BY <1>9 DEF ShownIsStored, Pending
  <2>1. j # i
      BY <1>7
  <2>2. ~Pending(j)
    <3> SUFFICES ASSUME NEW d \in Calls, Changing(d, j) PROVE FALSE
        BY DEF Pending
    <3>1. CASE d = c
        BY <3>1 DEF Changing, Begin, Idle
    <3> QED
        BY <3>1, <1>6
  <2> QED
      BY <2>2, <1>9 DEF ShownIsStored
<1>17. OnlyExpensesDouble'
    BY <1>9 DEF OnlyExpensesDouble
<1> QED
    BY <1>10, <1>11, <1>12, <1>13, <1>14, <1>15, <1>16, <1>17

\* The server stores, or removes, the record of a mutation.
LEMMA StoreInv ==
    ASSUME Inv, NEW c \in Calls, Store(c)
    PROVE  Inv'
<1> DEFINE i == call[c].id
<1> USE DEF Inv
<1>1. /\ call[c] \in Change /\ call[c].phase = "sent" /\ i \in Ids /\ i \in used
      /\ Changing(c, i)
    BY CallKinds, ChangingIs DEF Store, Muts, Change, Known
<1>2. /\ call'[c] \in Change /\ call'[c].phase = "stored" /\ call'[c].op = call[c].op
      /\ call'[c].id = i /\ call'[c].ver = call[c].ver
    BY <1>1 DEF Store, TypeOK, Change
<1>3. /\ \A d \in Calls \ {c} : call'[d] = call[d]
      /\ call' \in [Calls -> {Idle} \cup Change \cup Load]
    BY <1>2 DEF Store, TypeOK
<1>4. /\ store' = [store EXCEPT ![i] = call[c].ver]
      /\ local' = local /\ suspect' = suspect /\ used' = used
    BY DEF Store
<1>5. \A d \in Calls, j \in Ids : Changing(d, j)' <=> Changing(d, j)
    BY <1>2, <1>3 DEF Changing
<1>6. \A d \in Calls : Loading(d)' => Loading(d) /\ call'[d] = call[d]
    BY <1>1, <1>2, <1>3 DEF Loading, Change
<1>7. TypeOK'
    BY <1>1, <1>3, <1>4 DEF Store, TypeOK, Change
<1>8. Named'
  <2> SUFFICES ASSUME NEW d \in Calls, call'[d].op \in Muts
               PROVE  /\ call'[d].ver = 0 <=> call'[d].op = "remove"
                      /\ call'[d].op = "add" => KindOf[call'[d].id] = "expense"
      BY DEF Named
  <2> QED
      BY <1>2, <1>3 DEF Named
<1>9. Known'
  <2>1. \A j \in Ids : j # i => store'[j] = store[j]
      BY <1>4 DEF TypeOK
  <2> QED
      BY <1>1, <1>2, <1>3, <1>4, <2>1 DEF Known
<1>10. Lone'
    BY <1>4, <1>5 DEF Lone
<1>11. Fits'
  <2> SUFFICES ASSUME NEW j \in Ids \ suspect, NEW d \in Calls, Changing(d, j)'
               PROVE  /\ Applied(call'[d], local[j]) = Shown(call'[d].ver)
                      /\ call'[d].phase = "sent" => local[j] = Shown(store'[j])
                      /\ call'[d].phase = "stored" => store'[j] = call'[d].ver
      BY <1>4 DEF Fits
  <2>1. CASE d # c
    <3>1. Changing(d, j) /\ j # i /\ call'[d] = call[d]
        BY <2>1, <1>1, <1>3, <1>5 DEF Lone
    <3>2. store'[j] = store[j]
        BY <3>1, <1>4 DEF TypeOK
    <3> QED
        BY <3>1, <3>2 DEF Fits
  <2>2. CASE d = c
    <3>1. j = i
        BY <2>2, <1>2 DEF Changing
    <3>2. store'[i] = call[c].ver
        BY <1>1, <1>4 DEF TypeOK
    <3>3. Applied(call[c], local[i]) = Shown(call[c].ver)
        BY <3>1, <1>1 DEF Fits
    <3>4. Applied(call'[c], local[i]) = Applied(call[c], local[i])
        BY <1>2 DEF Applied
    <3> QED
        BY <2>2, <3>1, <3>2, <3>3, <3>4, <1>2
  <2> QED
      BY <2>1, <2>2
<1>12. Fresh'
  <2> SUFFICES ASSUME NEW d \in Calls, Loading(d)', NEW j \in Ids \ call'[d].touched
               PROVE  /\ \A e \in Calls : ~Changing(e, j)'
                      /\ KindOf[j] \notin call'[d].unread => call'[d].seen[j] = store'[j]
      BY DEF Fresh, Pending
  <2>1. Loading(d) /\ call'[d] = call[d]
      BY <1>6
  <2>2. ~Pending(j)
      BY <2>1 DEF Fresh
  <2>3. j # i
      BY <2>2, <1>1 DEF Pending
  <2>4. store'[j] = store[j]
      BY <2>3, <1>4 DEF TypeOK
  <2> QED
      BY <2>1, <2>2, <2>4, <1>5 DEF Fresh, Pending
<1>13. ShownIsStored'
  <2> SUFFICES ASSUME NEW j \in Ids, j \notin suspect, \A d \in Calls : ~Changing(d, j)'
               PROVE  local[j] = Shown(store'[j])
      BY <1>4 DEF ShownIsStored, Pending
  <2>1. ~Pending(j) /\ j # i
      BY <1>1, <1>5 DEF Pending
  <2>2. store'[j] = store[j]
      BY <2>1, <1>4 DEF TypeOK
  <2> QED
      BY <2>1, <2>2 DEF ShownIsStored
<1>14. OnlyExpensesDouble'
    BY <1>4 DEF OnlyExpensesDouble
<1> QED
    BY <1>7, <1>8, <1>9, <1>10, <1>11, <1>12, <1>13, <1>14

\* A call that ends without touching the server leaves, of the invariant, what is about
\* calls and the server.
LEMMA EndsInv ==
    ASSUME Inv, NEW c \in Calls, call' = [call EXCEPT ![c] = Idle],
           UNCHANGED <<store, used>>
    PROVE  /\ call' \in [Calls -> {Idle} \cup Change \cup Load]
           /\ Named' /\ Known' /\ Fresh'
           /\ call'[c] = Idle /\ \A d \in Calls \ {c} : call'[d] = call[d]
           /\ \A d \in Calls, j \in Ids : Changing(d, j)' <=> d # c /\ Changing(d, j)
<1> USE DEF Inv
<1>1. /\ call'[c] = Idle /\ \A d \in Calls \ {c} : call'[d] = call[d]
      /\ call' \in [Calls -> {Idle} \cup Change \cup Load]
    BY DEF TypeOK
<1>2. \A d \in Calls, j \in Ids : Changing(d, j)' <=> d # c /\ Changing(d, j)
    BY <1>1 DEF Changing, Idle
<1>3. Named' /\ Known'
    BY <1>1 DEF Named, Known, Muts, Idle
<1>4. Fresh'
    BY <1>1, <1>2 DEF Fresh, Loading, Idle, Pending
<1> QED
    BY <1>1, <1>2, <1>3, <1>4

\* The answer of a mutation arrives.
LEMMA AnswerInv ==
    ASSUME Inv, NEW c \in Calls, Answer(c)
    PROVE  Inv'
<1> DEFINE i == call[c].id
<1> USE DEF Inv
<1>1. /\ call[c] \in Change /\ call[c].phase = "stored" /\ i \in Ids
      /\ Changing(c, i) /\ call[c].op \in Muts
      /\ call[c].ver = 0 <=> call[c].op = "remove"
      /\ call[c].op = "add" => KindOf[i] = "expense"
    BY CallKinds, ChangingIs DEF Answer, Muts, Change, Named
<1>2. /\ call' \in [Calls -> {Idle} \cup Change \cup Load]
      /\ Named' /\ Known' /\ Fresh'
      /\ call'[c] = Idle /\ \A d \in Calls \ {c} : call'[d] = call[d]
      /\ \A d \in Calls, j \in Ids : Changing(d, j)' <=> d # c /\ Changing(d, j)
    BY EndsInv DEF Answer
<1>3. /\ local[i] \in Seq(Versions)
      /\ local'[i] = Applied(call[c], local[i])
      /\ \A j \in Ids : j # i => local'[j] = local[j]
      /\ local' = [local EXCEPT ![i] = Applied(call[c], local[i])]
      /\ store' = store /\ suspect' = suspect
    BY <1>1 DEF Answer, TypeOK
<1>4. /\ local'[i] \in Seq(Versions)
      /\ call[c].op # "add" => Len(local'[i]) <= 1 \/ Len(local'[i]) = Len(local[i])
    BY <1>1, <1>3, AppliedType
<1>5. i \notin suspect => local'[i] = Shown(call[c].ver) /\ store[i] = call[c].ver
    BY <1>1, <1>3 DEF Fits
<1>6. TypeOK'
    BY <1>2, <1>3, <1>4 DEF Answer, TypeOK
<1>7. Lone'
    BY <1>2, <1>3 DEF Lone
<1>8. Fits'
  <2> SUFFICES ASSUME NEW j \in Ids \ suspect, NEW d \in Calls, Changing(d, j)'
               PROVE  /\ Applied(call'[d], local'[j]) = Shown(call'[d].ver)
                      /\ call'[d].phase = "sent" => local'[j] = Shown(store[j])
                      /\ call'[d].phase = "stored" => store[j] = call'[d].ver
      BY <1>3 DEF Fits
  <2>1. d # c /\ Changing(d, j) /\ call'[d] = call[d]
      BY <1>2
  <2>2. j # i
      BY <2>1, <1>1 DEF Lone
  <2> QED
      BY <2>1, <2>2, <1>3 DEF Fits
<1>9. ShownIsStored'
  <2> SUFFICES ASSUME NEW j \in Ids, j \notin suspect, \A d \in Calls : ~Changing(d, j)'
               PROVE  local'[j] = Shown(store[j])
      BY <1>3 DEF ShownIsStored, Pending
  <2>1. CASE j = i
      BY <2>1, <1>5
  <2>2. CASE j # i
    <3>1. ~Pending(j)
        BY <2>2, <1>1, <1>2 DEF Pending, Changing
    <3> QED
        BY <2>2, <3>1, <1>3 DEF ShownIsStored
  <2> QED
      BY <2>1, <2>2
<1>10. OnlyExpensesDouble'
  <2> SUFFICES ASSUME NEW j \in Ids, Len(local'[j]) > 1
               PROVE  KindOf[j] = "expense" /\ j \in suspect
      BY <1>3 DEF OnlyExpensesDouble
  <2>1. CASE j # i
      BY <2>1, <1>3 DEF OnlyExpensesDouble
  <2>2. CASE j = i
    <3>1. i \in suspect
      <4> SUFFICES ASSUME i \notin suspect PROVE FALSE
          OBVIOUS
      <4>1. call[c].ver \in Versions \cup {0}
          BY <1>1 DEF Change
      <4>2. Len(Shown(call[c].ver)) \in {0, 1}
          BY <4>1, ShownType
      <4>3. Len(local'[j]) \in {0, 1}
          BY <2>2, <4>2, <1>5
      <4> QED
          BY <4>3, NotMore
    <3>2. KindOf[i] = "expense"
        BY <2>2, <1>1, <1>4 DEF OnlyExpensesDouble
    <3> QED
        BY <2>2, <3>1, <3>2
  <2> QED
      BY <2>1, <2>2
<1> QED
    BY <1>2, <1>6, <1>7, <1>8, <1>9, <1>10

\* A mutation or its answer is lost.
LEMMA LoseInv ==
    ASSUME Inv, NEW c \in Calls, Lose(c)
    PROVE  Inv'
<1> DEFINE i == call[c].id
<1> USE DEF Inv
<1>1. /\ call[c] \in Change /\ i \in Ids /\ Changing(c, i)
      /\ call[c].phase \in {"sent", "stored"}
    BY CallKinds, ChangingIs DEF Lose, Muts, Change
<1>2. /\ call' \in [Calls -> {Idle} \cup Change \cup Load]
      /\ Named' /\ Known' /\ Fresh'
      /\ call'[c] = Idle /\ \A d \in Calls \ {c} : call'[d] = call[d]
      /\ \A d \in Calls, j \in Ids : Changing(d, j)' <=> d # c /\ Changing(d, j)
    BY EndsInv DEF Lose
<1>3. /\ local' = local /\ store' = store /\ suspect \subseteq suspect'
      /\ call[c].phase = "stored" => i \in suspect'
      /\ suspect' \subseteq Ids
    BY <1>1 DEF Lose, TypeOK
<1>4. TypeOK'
    BY <1>2, <1>3, WorkspaceAssumption DEF Lose, TypeOK
<1>5. Lone'
    BY <1>2, <1>3 DEF Lone
<1>6. Fits'
    BY <1>2, <1>3 DEF Fits
<1>7. ShownIsStored'
  <2> SUFFICES ASSUME NEW j \in Ids, j \notin suspect', \A d \in Calls : ~Changing(d, j)'
               PROVE  local[j] = Shown(store[j])
      BY <1>3 DEF ShownIsStored, Pending
  <2>1. CASE j = i
      BY <2>1, <1>1, <1>3 DEF Fits
  <2>2. CASE j # i
    <3>1. ~Pending(j)
        BY <2>2, <1>1, <1>2 DEF Pending, Changing
    <3> QED
        BY <3>1, <1>3 DEF ShownIsStored
  <2> QED
      BY <2>1, <2>2
<1>8. OnlyExpensesDouble'
    BY <1>3 DEF OnlyExpensesDouble
<1> QED
    BY <1>2, <1>4, <1>5, <1>6, <1>7, <1>8

\* A load begins, reads a register, or fails: what is shown and stored stays.
LEMMA LoadingInv ==
    ASSUME Inv, NEW c \in Calls, UNCHANGED <<store, local, used, writes, suspect>>,
           loadError' \in BOOLEAN, faults' \in 0..MaxFaults,
           call[c].op \in {"idle", "load"}, NEW new \in {Idle} \cup Load,
           call' = [call EXCEPT ![c] = new],
           Loading(c)' => \A i \in Ids \ new.touched :
              /\ ~Pending(i)
              /\ KindOf[i] \notin new.unread => new.seen[i] = store[i]
    PROVE  Inv'
<1> USE DEF Inv
<1>1. /\ call'[c] = new /\ \A d \in Calls \ {c} : call'[d] = call[d]
      /\ call' \in [Calls -> {Idle} \cup Change \cup Load]
    BY DEF TypeOK
<1>2. new.op \in {"idle", "load"}
    BY DEF Idle, Load
<1>3. \A d \in Calls, j \in Ids : Changing(d, j)' <=> Changing(d, j)
    BY <1>1, <1>2 DEF Changing
<1>4. TypeOK'
    BY <1>1 DEF TypeOK
<1>5. Named' /\ Known'
    BY <1>1, <1>2 DEF Named, Known, Muts
<1>6. Lone'
    BY <1>3 DEF Lone
<1>7. Fits'
    BY <1>1, <1>2, <1>3 DEF Fits, Changing
<1>8. Fresh'
  <2> SUFFICES ASSUME NEW d \in Calls, Loading(d)', NEW j \in Ids \ call'[d].touched
               PROVE  /\ \A e \in Calls : ~Changing(e, j)'
                      /\ KindOf[j] \notin call'[d].unread => call'[d].seen[j] = store[j]
      BY DEF Fresh, Pending
  <2>1. CASE d = c
      BY <2>1, <1>1, <1>3 DEF Pending
  <2>2. CASE d # c
      BY <2>2, <1>1, <1>3 DEF Fresh, Loading, Pending
  <2> QED
      BY <2>1, <2>2
<1>9. ShownIsStored' /\ OnlyExpensesDouble'
    BY <1>3 DEF ShownIsStored, OnlyExpensesDouble, Pending
<1> QED
    BY <1>4, <1>5, <1>6, <1>7, <1>8, <1>9

\* reload starts: nothing is read.
LEMMA ReloadInv ==
    ASSUME Inv, NEW c \in Calls, Reload(c)
    PROVE  Inv'
<1>1. NewLoad \in Load
    BY DEF NewLoad, Load
<1>2. \A i \in Ids \ NewLoad.touched : ~Pending(i) /\ KindOf[i] \in NewLoad.unread
    BY WorkspaceAssumption DEF NewLoad
<1>3. call[c].op = "idle" /\ call' = [call EXCEPT ![c] = NewLoad]
    BY DEF Reload, Idle
<1>4. UNCHANGED <<store, local, used, writes, suspect>>
    BY DEF Reload
<1>5. loadError' \in BOOLEAN /\ faults' \in 0..MaxFaults
    BY DEF Reload, Inv, TypeOK
<1> QED
    BY <1>1, <1>2, <1>3, <1>4, <1>5, LoadingInv

\* The answers of one register are those of the store at that time.
LEMMA ReadInv ==
    ASSUME Inv, NEW c \in Calls, NEW k \in Kinds, Read(c, k)
    PROVE  Inv'
<1> DEFINE new == [call[c] EXCEPT
              !.unread = @ \ {k},
              !.seen   = [i \in Ids |-> IF KindOf[i] = k THEN store[i] ELSE @[i]]]
<1>1. call[c] \in Load /\ \A i \in Ids : store[i] \in Versions \cup {0}
    BY CallKinds DEF Read, Loading, Inv, TypeOK
<1>2. /\ new \in Load /\ new.touched = call[c].touched /\ new.unread = call[c].unread \ {k}
      /\ \A i \in Ids : new.seen[i] = IF KindOf[i] = k THEN store[i] ELSE call[c].seen[i]
    BY <1>1 DEF Load
<1>3. call' = [call EXCEPT ![c] = new]
    BY DEF Read, Inv, TypeOK
<1> HIDE DEF new
<1>4. \A i \in Ids \ new.touched :
          /\ ~Pending(i)
          /\ KindOf[i] \notin new.unread => new.seen[i] = store[i]
    BY <1>2 DEF Read, Inv, Fresh
<1>5. call[c].op = "load" /\ loadError' \in BOOLEAN /\ faults' \in 0..MaxFaults
    BY DEF Read, Loading, Inv, TypeOK
<1>6. UNCHANGED <<store, local, used, writes, suspect>>
    BY DEF Read
<1> QED
    BY <1>2, <1>3, <1>4, <1>5, <1>6, LoadingInv

\* One failed list ends the load.
LEMMA FailLoadInv ==
    ASSUME Inv, NEW c \in Calls, FailLoad(c)
    PROVE  Inv'
<1>1. faults' \in 0..MaxFaults /\ loadError' \in BOOLEAN
    BY WorkspaceAssumption DEF FailLoad, Inv, TypeOK
<1>2. ~Loading(c)'
    BY DEF FailLoad, Loading, Idle, Inv, TypeOK
<1>3. call[c].op = "load" /\ call' = [call EXCEPT ![c] = Idle]
    BY DEF FailLoad, Loading
<1>4. UNCHANGED <<store, local, used, writes, suspect>>
    BY DEF FailLoad
<1>5. Loading(c)' => \A i \in Ids \ Idle.touched :
          ~Pending(i) /\ (KindOf[i] \notin Idle.unread => Idle.seen[i] = store[i])
    BY <1>2
<1>6. Idle \in {Idle} \cup Load
    OBVIOUS
<1> QED
    BY <1>1, <1>3, <1>4, <1>5, <1>6, LoadingInv

\* A load is applied.
LEMMA ApplyInv ==
    ASSUME Inv, NEW c \in Calls, Apply(c)
    PROVE  Inv'
<1> USE DEF Inv
<1>1. call[c] \in Load /\ call[c].unread = {} /\ \A i \in Ids : call[c].seen[i] \in Versions \cup {0}
    BY CallKinds DEF Apply, Complete, Loading, Load
<1>2. /\ call' \in [Calls -> {Idle} \cup Change \cup Load]
      /\ Named' /\ Known' /\ Fresh'
      /\ call'[c] = Idle /\ \A d \in Calls \ {c} : call'[d] = call[d]
      /\ \A d \in Calls, j \in Ids : Changing(d, j)' <=> d # c /\ Changing(d, j)
    BY EndsInv DEF Apply
<1>3. /\ local' = [i \in Ids |-> Shown(call[c].seen[i])]
      /\ store' = store /\ suspect' = call[c].touched /\ suspect' \subseteq Ids
    BY <1>1 DEF Apply, Load
<1>4. \A i \in Ids \ suspect' : ~Pending(i) /\ local'[i] = Shown(store[i])
    BY <1>1, <1>3 DEF Apply, Fresh
<1>5. \A i \in Ids : local'[i] \in Seq(Versions) /\ Len(local'[i]) \in {0, 1}
    BY <1>1, <1>3, ShownType
<1>6. TypeOK'
    BY <1>2, <1>3, <1>5 DEF Apply, TypeOK
<1>7. Lone' /\ Fits'
    BY <1>2, <1>4 DEF Lone, Fits, Pending
<1>8. ShownIsStored'
    BY <1>3, <1>4 DEF ShownIsStored
<1>9. OnlyExpensesDouble'
    BY <1>5, NotMore DEF OnlyExpensesDouble
<1> QED
    BY <1>2, <1>6, <1>7, <1>8, <1>9

\* Another browser writes.
LEMMA ElsewhereInv ==
    ASSUME Inv, NEW i \in Ids, NEW v \in {0, writes + 1}, Elsewhere(i, v)
    PROVE  Inv'
<1> USE DEF Inv
<1>1. writes' \in Versions /\ v \in Versions \cup {0}
    BY WorkspaceAssumption DEF Elsewhere, TypeOK, Versions
<1>2. /\ call' = Touch(i) /\ store' = [store EXCEPT ![i] = v] /\ local' = local
      /\ used' = used \cup {i} /\ suspect' = suspect \cup {i}
      /\ \A j \in Ids : j # i => store'[j] = store[j]
    BY DEF Elsewhere, TypeOK
<1>3. /\ call' \in [Calls -> {Idle} \cup Change \cup Load]
      /\ \A d \in Calls :
          /\ ~Loading(d) => call'[d] = call[d]
          /\ Loading(d) =>
                /\ call'[d].op = "load"
                /\ call'[d].unread = call[d].unread
                /\ call'[d].seen = call[d].seen
                /\ call'[d].touched = call[d].touched \cup {i}
    BY <1>2, TouchIs
<1>4. \A d \in Calls, j \in Ids : Changing(d, j)' <=> Changing(d, j)
    BY <1>3 DEF Changing, Loading
<1>5. \A d \in Calls : call'[d].op \in Muts => call'[d] = call[d]
    BY <1>3 DEF Loading, Muts
<1>6. \A d \in Calls, j \in Ids : Changing(d, j) => call'[d] = call[d]
    BY <1>3 DEF Changing, Loading
<1>7. TypeOK'
    BY <1>1, <1>2, <1>3 DEF Elsewhere, TypeOK
<1>8. Named' /\ Known'
    BY <1>2, <1>5 DEF Named, Known
<1>9. Lone' /\ Fits'
    BY <1>2, <1>4, <1>6 DEF Lone, Fits
<1>10. Fresh'
  <2> SUFFICES ASSUME NEW d \in Calls, Loading(d)', NEW j \in Ids \ call'[d].touched
               PROVE  /\ \A e \in Calls : ~Changing(e, j)'
                      /\ KindOf[j] \notin call'[d].unread => call'[d].seen[j] = store'[j]
      BY DEF Fresh, Pending
  <2>1. Loading(d)
      BY <1>3 DEF Loading
  <2>2. j # i /\ j \in Ids \ call[d].touched
      BY <2>1, <1>3
  <2> QED
      BY <2>1, <2>2, <1>2, <1>3, <1>4 DEF Fresh, Pending
<1>11. ShownIsStored'
    BY <1>2, <1>4 DEF ShownIsStored, Pending
<1>12. OnlyExpensesDouble'
    BY <1>2 DEF OnlyExpensesDouble
<1> QED
    BY <1>7, <1>8, <1>9, <1>10, <1>11, <1>12

\* Every step keeps the invariant.
LEMMA StepInv == Inv /\ [Next]_vars => Inv'
<1> SUFFICES ASSUME Inv, [Next]_vars PROVE Inv'
    OBVIOUS
<1>1. CASE UNCHANGED vars
    BY <1>1 DEF vars, Inv, TypeOK, Named, Known, Lone, Fits, Fresh, ShownIsStored,
                OnlyExpensesDouble, Changing, Loading, Pending
<1>2. ASSUME NEW c \in Calls, NEW i \in Ids, NEW op \in Ops(i), Begin(c, i, op) PROVE Inv'
    BY <1>2, BeginInv
<1>3. ASSUME NEW c \in Calls, Reload(c) PROVE Inv'
    BY <1>3, ReloadInv
<1>4. ASSUME NEW c \in Calls, Progress(c) PROVE Inv'
    BY <1>4, StoreInv, AnswerInv, LoseInv, ReadInv, ApplyInv, FailLoadInv DEF Progress
<1>5. ASSUME NEW i \in Ids, NEW v \in {0, writes + 1}, Elsewhere(i, v) PROVE Inv'
    BY <1>5, ElsewhereInv
<1> QED
    BY <1>1, <1>2, <1>3, <1>4, <1>5 DEF Next

-----------------------------------------------------------------------------
(* The theorems. *)

\* The inductive invariant holds of every reachable state.
THEOREM Invariant == Spec => []Inv
BY InitInv, StepInv, PTL DEF Spec

\* The registers, the store and the calls in flight are what useWorkspace.ts and the
\* record API make of them.
THEOREM WorkspaceTyped == Spec => []TypeOK
<1>1. Inv => TypeOK
    BY DEF Inv
<1> QED
    BY Invariant, <1>1, PTL

\* Whatever registers, records and calls there are: a record nothing disturbed since its
\* last load is shown as it is stored (useWorkspace.ts applies answers, never guesses).
THEOREM ShowsWhatIsStored == Spec => []ShownIsStored
<1>1. Inv => ShownIsStored
    BY DEF Inv
<1> QED
    BY Invariant, <1>1, PTL

\* However loads and mutations overlap, only an expense, added in front of the list
\* without a look at it, can be there twice.
THEOREM NothingElseDoubles == Spec => []OnlyExpensesDouble
<1>1. Inv => OnlyExpensesDouble
    BY DEF Inv
<1> QED
    BY Invariant, <1>1, PTL
=============================================================================
