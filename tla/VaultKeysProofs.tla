-------------------------- MODULE VaultKeysProofs --------------------------
(* Proofs about VaultKeys, for any browsers, passphrases, records and bounds. *)
EXTENDS VaultKeys, TLAPS

-----------------------------------------------------------------------------
(* The inductive invariant. *)

Making(c)  == form[c].pc \in {"create", "list", "migrate", "cache"}
Reading(c) == form[c].pc \in {"unlock", "verify", "list", "migrate", "cache"}
Private(c) == form[c].pc \in {"list", "migrate"}

\* Whatever is stored or on its way is under a key derived so far.
KeysKnown ==
    /\ envelope \in held \cup {0}
    /\ \A i \in Present(store) : store[i].key \in 0..Len(derived)
    /\ \A c \in Clients : put[c] # NoPut => put[c].key \in 0..Len(derived)

\* A form knows the key it made, and the stored envelope it has read.
FormsKnown ==
    \A c \in Clients :
        /\ Making(c) => form[c].new \in 1..Len(derived)
        /\ Reading(c) => form[c].old \in held
        /\ Migrating(c) => derived[form[c].old].pass = form[c].current

\* No two forms made the same key.
NewApart ==
    \A c, d \in Clients : c # d /\ Making(c) /\ Making(d) => form[c].new # form[d].new

\* The key of a change that has not swapped yet is nobody else's, and of the records
\* those have it that the change is done with.
NewFresh ==
    \A c \in Clients : Private(c) =>
        /\ form[c].new \notin held
        /\ \A d \in Clients : cached[d] # form[c].new
        /\ \A d \in Clients : put[d] # NoPut => put[d].key # form[c].new
        /\ \A i \in Present(store) : store[i].key = form[c].new =>
              form[c].pc = "migrate" /\ i \notin Present(form[c].todo)

\* What a change has listed is still there as it was listed, or is done, unless somebody
\* wrote it since.
Copied ==
    \A c \in Clients : Migrating(c) =>
        /\ form[c].pc # "list" => form[c].kinds = {}
        /\ \A i \in Ids \ form[c].missed : KindOf(i) \notin form[c].kinds =>
              IF form[c].todo[i] # Absent THEN store[i] = form[c].todo[i]
              ELSE store[i] = Absent \/ store[i].key = form[c].new

Inv == TypeOK /\ KeysKnown /\ FormsKnown /\ NewApart /\ NewFresh /\ Copied

-----------------------------------------------------------------------------
(* The initial states. *)

\* The initial states satisfy it.
LEMMA InitInv == Init => Inv
<1> SUFFICES ASSUME Init PROVE Inv
  OBVIOUS
<1>1. \A c \in Clients : form[c] = NoForm /\ put[c] = NoPut /\ cached[c] = 0
  BY DEF Init
<1>2. FormsKnown /\ NewApart /\ NewFresh /\ Copied
  BY <1>1 DEF FormsKnown, NewApart, NewFresh, Copied, Making, Reading, Private, Migrating, NoForm
<1>t. /\ saves \in Nat /\ faults \in Nat /\ crossed \in BOOLEAN
      /\ cached = [c \in Clients |-> 0]
      /\ page \in [Clients -> Pages]
      /\ form \in [Clients -> {NoForm} \cup Form]
      /\ put \in [Clients -> {NoPut} \cup Put]
  BY DEF Init, Pages
<1>3. CASE Fresh
  <2>1. store \in Blobs /\ Present(store) = {}
    BY <1>3 DEF Fresh, Empty, Blobs, Present
  <2>2. derived \in Seq([pass : Passphrases, by : {"setup", "change"}]) /\ Len(derived) = 0
    BY <1>3 DEF Fresh
  <2>3. TypeOK
    BY <1>3, <1>t, <2>1, <2>2 DEF Fresh, TypeOK
  <2>4. KeysKnown
    BY <1>1, <1>3, <2>1 DEF Fresh, KeysKnown
  <2> QED
    BY <1>2, <2>3, <2>4 DEF Inv
<1>4. CASE InUse
  <2>1. PICK p \in Passphrases : derived = <<[pass |-> p, by |-> "setup"]>>
    BY <1>4 DEF InUse
  <2>2. derived \in Seq([pass : Passphrases, by : {"setup", "change"}]) /\ Len(derived) = 1
    BY <2>1
  <2>3. PICK there \in SUBSET Ids :
            store = [i \in Ids |-> IF i \in there THEN [key |-> 1, val |-> 0] ELSE Absent]
    BY <1>4 DEF InUse
  <2>4. store \in Blobs /\ \A i \in Present(store) : store[i].key = 1
    BY <2>3 DEF Blobs, Blob, Present
  <2>5. TypeOK
    BY <1>4, <1>t, <2>2, <2>4 DEF InUse, TypeOK
  <2>6. KeysKnown
    BY <1>1, <1>4, <2>2, <2>4 DEF InUse, KeysKnown
  <2> QED
    BY <1>2, <2>5, <2>6 DEF Inv
<1> QED
  BY <1>3, <1>4 DEF Init

-----------------------------------------------------------------------------
(* A write that a change does not see. *)

\* Two states of a form that differ in the history at most.
Alike(f, g) ==
    /\ f.pc = g.pc /\ f.old = g.old /\ f.new = g.new /\ f.current = g.current
    /\ f.todo = g.todo /\ f.kinds = g.kinds

\* Missed changes the history of the forms, and nothing else of them.
LEMMA MissedForms ==
    ASSUME form \in [Clients -> {NoForm} \cup Form], NEW i \in Ids
    PROVE  /\ Missed(i) \in [Clients -> {NoForm} \cup Form]
           /\ \A d \in Clients : Alike(form[d], Missed(i)[d])
           /\ \A d \in Clients : form[d] = NoForm => Missed(i)[d] = NoForm
           /\ \A d \in Clients : Migrating(d) =>
                 /\ form[d].missed \subseteq Missed(i)[d].missed
                 /\ Missed(i)[d].missed \subseteq form[d].missed \cup {i}
                 /\ KindOf(i) \notin form[d].kinds => i \in Missed(i)[d].missed
<1> SUFFICES ASSUME NEW d \in Clients
             PROVE  /\ Missed(i)[d] \in {NoForm} \cup Form
                    /\ Alike(form[d], Missed(i)[d])
                    /\ form[d] = NoForm => Missed(i)[d] = NoForm
                    /\ Migrating(d) =>
                          /\ form[d].missed \subseteq Missed(i)[d].missed
                          /\ Missed(i)[d].missed \subseteq form[d].missed \cup {i}
                          /\ KindOf(i) \notin form[d].kinds => i \in Missed(i)[d].missed
  BY DEF Missed
<1>1. CASE Migrating(d) /\ KindOf(i) \notin form[d].kinds
  <2>1. form[d] \in Form /\ form[d] # NoForm
    BY <1>1 DEF Migrating, NoForm
  <2>2. Missed(i)[d] = [form[d] EXCEPT !.missed = @ \cup {i}]
    BY <1>1 DEF Missed
  <2> QED
    BY <2>1, <2>2 DEF Form, Alike
<1>2. CASE ~(Migrating(d) /\ KindOf(i) \notin form[d].kinds)
  <2>1. Missed(i)[d] = form[d]
    BY <1>2 DEF Missed
  <2> QED
    BY <1>2, <2>1 DEF Alike
<1> QED
  BY <1>1, <1>2

-----------------------------------------------------------------------------
(* Each step keeps the invariant: the types first. *)

\* A form stays a form when it moves on.
LEMMA FormMoves ==
    ASSUME NEW f \in Form, NEW k \in Nat
    PROVE  /\ [f EXCEPT !.pc = "list", !.new = k, !.kinds = Kinds] \in Form
           /\ [f EXCEPT !.pc = "migrate"] \in Form
           /\ [f EXCEPT !.pc = "cache"] \in Form
BY DEF Form

\* Each step keeps the types.
LEMMA StepTypes == Inv /\ [Next]_vars => TypeOK'
<1> SUFFICES ASSUME Inv, [Next]_vars PROVE TypeOK'
    OBVIOUS
<1>cr. crossed' \in BOOLEAN
    BY DEF Inv, TypeOK, Next, vars
<1> USE <1>cr DEF Inv, TypeOK
<1>len. Len(derived) \in Nat
    OBVIOUS
<1>0. CASE UNCHANGED vars
    BY <1>0 DEF vars
<1>1. ASSUME NEW c \in Clients, Enter(c) \/ EnterBlind(c) \/ Reload(c) \/ IdleLock(c)
                             \/ SignOut(c) \/ SignOutLost(c)
      PROVE  TypeOK'
  <2>1. UNCHANGED <<envelope, store, derived, saves, held>>
    BY <1>1 DEF Enter, EnterBlind, Reload, IdleLock, SignOut, SignOutLost
  <2>2. faults' \in Nat
    BY <1>1 DEF Enter, EnterBlind, Reload, IdleLock, SignOut, SignOutLost
  <2>3. cached' \in [Clients -> 0..Len(derived)]
    <3>1. cached' = cached \/ cached' = [cached EXCEPT ![c] = 0]
      BY <1>1 DEF Enter, EnterBlind, Reload, IdleLock, SignOut, SignOutLost, ClearKey
    <3> QED
      BY <1>len, <3>1
  <2>4. page' \in [Clients -> Pages]
    BY <1>1 DEF Enter, EnterBlind, Reload, IdleLock, SignOut, SignOutLost, Pages
  <2>5. form' \in [Clients -> {NoForm} \cup Form]
    BY <1>1 DEF Enter, EnterBlind, Reload, IdleLock, SignOut, SignOutLost
  <2>6. put' \in [Clients -> {NoPut} \cup Put]
    BY <1>1 DEF Enter, EnterBlind, Reload, IdleLock, SignOut, SignOutLost
  <2> QED
    BY <2>1, <2>2, <2>3, <2>4, <2>5, <2>6
<1>2. ASSUME NEW c \in Clients, NEW p \in Passphrases, SetupDerive(c, p)
      PROVE  TypeOK'
    BY <1>2 DEF SetupDerive, NewKey, Form, Empty, Blobs
<1>3. ASSUME NEW c \in Clients, NEW ok \in BOOLEAN, SetupCreate(c, ok)
      PROVE  TypeOK'
  <2>1. form[c].new \in 1..Len(derived)
    BY <1>3 DEF SetupCreate, FormsKnown, Making
  <2>2. envelope' \in 1..Len(derived) /\ derived' = derived
    BY <1>3, <2>1 DEF SetupCreate, Created
  <2>3. held' \subseteq 1..Len(derived)
    BY <1>3, <2>2 DEF SetupCreate
  <2>4. page' \in [Clients -> Pages]
    BY <1>3 DEF SetupCreate, Pages
  <2>5. form' \in [Clients -> {NoForm} \cup Form]
    BY <1>3 DEF SetupCreate
  <2>6. faults' \in Nat
    BY <1>3 DEF SetupCreate, Faulty
  <2> QED
    BY <1>3, <2>2, <2>3, <2>4, <2>5, <2>6 DEF SetupCreate
<1>4. ASSUME NEW c \in Clients, NEW p \in Passphrases, UnlockRead(c, p)
      PROVE  TypeOK'
    BY <1>4 DEF UnlockRead, Form, Empty, Blobs
<1>5. ASSUME NEW c \in Clients, UnlockOpen(c)
      PROVE  TypeOK'
  <2>1. form[c].old \in 1..Len(derived)
    BY <1>5 DEF UnlockOpen, FormsKnown, Reading
  <2>2. cached' \in [Clients -> 0..Len(derived)]
    <3>1. cached' = cached \/ cached' = [cached EXCEPT ![c] = form[c].old]
      BY <1>5 DEF UnlockOpen
    <3> QED
      BY <1>len, <2>1, <3>1
  <2>3. page' \in [Clients -> Pages]
    BY <1>5 DEF UnlockOpen, Pages
  <2> QED
    BY <1>5, <2>2, <2>3 DEF UnlockOpen
<1>6. ASSUME NEW c \in Clients, NEW p \in Passphrases, NEW q \in Passphrases, ChangeRead(c, p, q)
      PROVE  TypeOK'
    BY <1>6 DEF ChangeRead, Form, Empty, Blobs
<1>7. ASSUME NEW c \in Clients, ChangeVerify(c)
      PROVE  TypeOK'
  <2>1. form[c] \in Form /\ form[c].old \in 1..Len(derived)
    BY <1>7 DEF ChangeVerify, NoForm, FormsKnown, Reading
  <2>2. [form[c] EXCEPT !.pc = "list", !.new = NewKey, !.kinds = Kinds] \in Form
    <3>1. NewKey \in Nat
      BY <1>len DEF NewKey
    <3> HIDE DEF Inv, TypeOK
    <3> QED
      BY <2>1, <3>1, FormMoves
  <2>3. derived' \in Seq([pass : Passphrases, by : {"setup", "change"}])
        /\ Len(derived') = Len(derived) + 1
    BY <1>7, <2>1 DEF ChangeVerify, Form
  <2>4. form' \in [Clients -> {NoForm} \cup Form]
    BY <1>7, <2>2 DEF ChangeVerify
  <2>5. cached' \in [Clients -> 0..Len(derived')]
    BY <1>7, <2>1, <2>3 DEF ChangeVerify
  <2> QED
    BY <1>7, <2>3, <2>4, <2>5 DEF ChangeVerify
<1>8. ASSUME NEW c \in Clients, NEW k \in Kinds, ChangeList(c, k)
      PROVE  TypeOK'
    BY <1>8, ZenonT(60) DEF ChangeList, Listed, Listing, Form, NoForm, Blobs
<1>9. ASSUME NEW c \in Clients, ChangeRefused(c) \/ ChangeListed(c) \/ Abandon(c)
      PROVE  TypeOK'
  <2>0. ChangeListed(c) => [form[c] EXCEPT !.pc = "migrate"] \in Form
    <3>1. ChangeListed(c) => form[c] \in Form
      BY DEF ChangeListed, NoForm
    <3> HIDE DEF Inv, TypeOK
    <3> QED
      BY <3>1, FormMoves
  <2>1. form' \in [Clients -> {NoForm} \cup Form]
    BY <1>9, <2>0 DEF ChangeRefused, ChangeListed, Abandon
  <2>2. faults' \in Nat
    BY <1>9 DEF ChangeRefused, ChangeListed, Abandon
  <2>3. UNCHANGED <<envelope, store, derived, saves, cached, page, put, held>>
    BY <1>9 DEF ChangeRefused, ChangeListed, Abandon
  <2> QED
    BY <2>1, <2>2, <2>3
<1>10. ASSUME NEW c \in Clients, NEW i \in Ids, NEW ok \in BOOLEAN, ChangePut(c, i, ok)
       PROVE  TypeOK'
  <2>1. form[c] \in Form /\ form[c].todo[i] \in Blob
    BY <1>10 DEF ChangePut, NoForm, Form, Blobs, Present
  <2>2. Migrated(c, form[c].todo[i]) \in Blob
    BY <2>1 DEF Migrated, Blob, Form
  <2>3. store' \in Blobs
    BY <1>10, <2>2 DEF ChangePut, Blobs
  <2>4. [form[c] EXCEPT !.todo[i] = Absent, !.missed = @ \ {i}] \in Form
    BY <2>1 DEF Form, Blobs
  <2>5. form' \in [Clients -> {NoForm} \cup Form]
    BY <1>10, <2>4, MissedForms DEF ChangePut
  <2>6. faults' \in Nat
    BY <1>10 DEF ChangePut, Faulty
  <2> QED
    BY <1>10, <2>3, <2>5, <2>6 DEF ChangePut
<1>11. ASSUME NEW c \in Clients, NEW i \in Ids, ChangeStuck(c, i)
       PROVE  TypeOK'
    BY <1>11 DEF ChangeStuck
<1>12. ASSUME NEW c \in Clients, NEW ok \in BOOLEAN, ChangeSwap(c, ok)
       PROVE  TypeOK'
  <2>1. form[c] \in Form /\ form[c].new \in 1..Len(derived)
    BY <1>12 DEF ChangeSwap, NoForm, FormsKnown, Making
  <2>2. [form[c] EXCEPT !.pc = "cache"] \in Form
    BY <2>1, FormMoves
  <2>3. form' \in [Clients -> {NoForm} \cup Form]
    BY <1>12, <2>2 DEF ChangeSwap
  <2>4. faults' \in Nat
    BY <1>12 DEF ChangeSwap, Faulty
  <2> QED
    BY <1>12, <2>1, <2>3, <2>4 DEF ChangeSwap
<1>13. ASSUME NEW c \in Clients, ChangeCache(c)
       PROVE  TypeOK'
    BY <1>13 DEF ChangeCache, FormsKnown, Making
<1>14. ASSUME NEW c \in Clients, NEW i \in Ids, SaveBegin(c, i)
       PROVE  TypeOK'
    BY <1>14 DEF SaveBegin, Put
<1>15. ASSUME NEW c \in Clients, SaveArrive(c) \/ SaveLost(c)
       PROVE  TypeOK'
  <2>1. put[c] \in Put
    BY <1>15 DEF SaveArrive, SaveLost, Sending
  <2>2. [key |-> put[c].key, val |-> put[c].val] \in Blob
    BY <2>1 DEF Put, Blob
  <2>3. store' \in Blobs
    BY <1>15, <2>1, <2>2 DEF SaveArrive, SaveLost, Blobs, Put
  <2>4. put' = [put EXCEPT ![c] = NoPut]
    BY <1>15 DEF SaveArrive, SaveLost
  <2>5. faults' \in Nat
    BY <1>15 DEF SaveArrive, SaveLost
  <2>6. form' \in [Clients -> {NoForm} \cup Form]
    BY <1>15, <2>1, MissedForms DEF SaveArrive, SaveLost, Put
  <2> QED
    BY <1>15, <2>3, <2>4, <2>5, <2>6 DEF SaveArrive, SaveLost
<1>16. ASSUME NEW c \in Clients, NEW i \in Ids, Remove(c, i)
       PROVE  TypeOK'
    BY <1>16, MissedForms DEF Remove, Blobs
<1> QED
    BY <1>0, <1>1, <1>2, <1>3, <1>4, <1>5, <1>6, <1>7, <1>8, <1>9, <1>10, <1>11, <1>12,
       <1>13, <1>14, <1>15, <1>16 DEF Next, Step

-----------------------------------------------------------------------------
(* Then the keys: who knows which. *)

Keys == KeysKnown /\ FormsKnown /\ NewApart /\ NewFresh

\* A step that only drops forms, saves, cached keys and records.
LEMMA StepDrops ==
    ASSUME Inv,
           UNCHANGED <<envelope, derived, held>>,
           \A c \in Clients : /\ cached'[c] \in {cached[c], 0}
                              /\ put'[c] \in {put[c], NoPut}
                              /\ Alike(form[c], form'[c]) \/ form'[c] = NoForm,
           \A i \in Ids : store'[i] \in {store[i], Absent}
    PROVE  Keys'
<1>1. KeysKnown'
    BY DEF Inv, KeysKnown, Present
<1>2. FormsKnown'
    BY DEF Inv, FormsKnown, Making, Reading, Migrating, NoForm, Alike
<1>3. NewApart'
    BY DEF Inv, NewApart, Making, NoForm, Alike
<1>4. NewFresh'
  <2> SUFFICES ASSUME NEW c \in Clients, Private(c)'
               PROVE  /\ form'[c].new \notin held'
                      /\ \A d \in Clients : cached'[d] # form'[c].new
                      /\ \A d \in Clients : put'[d] # NoPut => put'[d].key # form'[c].new
                      /\ \A i \in Present(store') : store'[i].key = form'[c].new =>
                            form'[c].pc = "migrate" /\ i \notin Present(form'[c].todo)
    BY DEF NewFresh
  <2>1. /\ Alike(form[c], form'[c])
        /\ Private(c) /\ form[c].new \in 1..Len(derived)
    BY DEF Inv, FormsKnown, Making, Private, NoForm, Alike
  <2>2. form[c].new # 0
    BY <2>1 DEF Inv, TypeOK
  <2> QED
    BY <2>1, <2>2 DEF Inv, NewFresh, Present, Alike
<1> QED
    BY <1>1, <1>2, <1>3, <1>4 DEF Keys

\* Each step keeps what is known of the keys.
LEMMA StepKeys == Inv /\ [Next]_vars => Keys'
<1> SUFFICES ASSUME Inv, [Next]_vars PROVE Keys'
    OBVIOUS
<1>len. Len(derived) \in Nat
    BY DEF Inv, TypeOK
<1>0. CASE UNCHANGED vars
    BY <1>0, StepDrops DEF vars, Alike
<1>1. ASSUME NEW c \in Clients, Enter(c) \/ EnterBlind(c) \/ Reload(c) \/ IdleLock(c)
                             \/ SignOut(c) \/ SignOutLost(c)
      PROVE  Keys'
    BY <1>1, StepDrops DEF Enter, EnterBlind, Reload, IdleLock, SignOut, SignOutLost, ClearKey, Inv, TypeOK, Alike
<1>2. ASSUME NEW c \in Clients, ChangeRefused(c) \/ Abandon(c) \/ SaveLost(c)
      PROVE  Keys'
    BY <1>2, StepDrops DEF ChangeRefused, Abandon, SaveLost, Inv, TypeOK, Alike
<1>3. ASSUME NEW c \in Clients, NEW i \in Ids, ChangeStuck(c, i) \/ Remove(c, i)
      PROVE  Keys'
  <2>1. CASE ChangeStuck(c, i)
    BY <2>1, StepDrops DEF ChangeStuck, Inv, TypeOK, Blobs, Alike
  <2>2. CASE Remove(c, i)
    BY <2>2, StepDrops, MissedForms DEF Remove, Inv, TypeOK, Blobs
  <2> QED
    BY <1>3, <2>1, <2>2
<1>4. ASSUME NEW c \in Clients, NEW p \in Passphrases, SetupDerive(c, p)
      PROVE  Keys'
  <2> USE <1>4, <1>len DEF SetupDerive, NewKey, Inv, TypeOK
  <2>1. Len(derived') = Len(derived) + 1 /\ \A k \in 1..Len(derived) : derived'[k] = derived[k]
    OBVIOUS
  <2>2. KeysKnown'
    BY <2>1 DEF KeysKnown, Present
  <2>3. FormsKnown'
    <3>1. form'[c].pc = "create" /\ form'[c].new = Len(derived) + 1
      OBVIOUS
    <3>2. \A d \in Clients \ {c} : form'[d] = form[d]
      OBVIOUS
    <3>3. FormsKnown /\ UNCHANGED held /\ held \subseteq 1..Len(derived)
      OBVIOUS
    <3> HIDE <1>4 DEF SetupDerive, NewKey, Inv, TypeOK
    <3> QED
      <4> SUFFICES ASSUME NEW d \in Clients
                   PROVE  /\ Making(d)' => form'[d].new \in 1..Len(derived')
                          /\ Reading(d)' => form'[d].old \in held'
                          /\ Migrating(d)' => derived'[form'[d].old].pass = form'[d].current
        BY DEF FormsKnown
      <4>1. CASE d = c
        BY <2>1, <3>1, <4>1 DEF Making, Reading, Migrating
      <4>2. CASE d # c
        <5>1. form'[d] = form[d]
          BY <3>2, <4>2
        <5>2. Making(d)' => form'[d].new \in 1..Len(derived')
          BY <1>len, <2>1, <3>3, <5>1 DEF FormsKnown, Making
        <5>3. Reading(d)' => form'[d].old \in held' /\ form[d].old \in 1..Len(derived)
          BY <3>3, <5>1 DEF FormsKnown, Reading
        <5>4. Migrating(d)' => derived'[form[d].old] = derived[form[d].old]
          BY <2>1, <5>1, <5>3 DEF Migrating, Reading
        <5>5. Migrating(d)' => derived'[form'[d].old].pass = form'[d].current
          BY <3>3, <5>1, <5>4 DEF FormsKnown, Migrating
        <5> QED
          BY <5>2, <5>3, <5>5
      <4> QED
        BY <4>1, <4>2
  <2>4. NewApart'
    BY DEF NewApart, FormsKnown, Making
  <2>5. NewFresh'
    BY DEF NewFresh, FormsKnown, Making, Private, Present
  <2> QED
    BY <2>2, <2>3, <2>4, <2>5 DEF Keys
<1>5. ASSUME NEW c \in Clients, NEW ok \in BOOLEAN, SetupCreate(c, ok)
      PROVE  Keys'
  <2> USE <1>5, <1>len DEF SetupCreate, Created, Inv, TypeOK
  <2>1. KeysKnown'
    BY DEF KeysKnown, Present
  <2>2. FormsKnown'
    BY DEF FormsKnown, Making, Reading, Migrating, NoForm
  <2>3. NewApart'
    BY DEF NewApart, Making, NoForm
  <2>4. NewFresh'
    BY DEF NewFresh, NewApart, KeysKnown, FormsKnown, Making, Private, NoForm, Present
  <2> QED
    BY <2>1, <2>2, <2>3, <2>4 DEF Keys
<1>6. ASSUME NEW c \in Clients, NEW p \in Passphrases, UnlockRead(c, p)
      PROVE  Keys'
  <2> USE <1>6 DEF UnlockRead, Inv, TypeOK
  <2>1. KeysKnown'
    BY DEF KeysKnown, Present
  <2>2. FormsKnown'
    BY DEF FormsKnown, KeysKnown, Making, Reading, Migrating
  <2>3. NewApart'
    BY DEF NewApart, Making
  <2>4. NewFresh'
    BY DEF NewFresh, Private, Present
  <2> QED
    BY <2>1, <2>2, <2>3, <2>4 DEF Keys
<1>7. ASSUME NEW c \in Clients, UnlockOpen(c)
      PROVE  Keys'
  <2> USE <1>7 DEF UnlockOpen, Inv, TypeOK
  <2>1. KeysKnown'
    BY DEF KeysKnown, Present
  <2>2. FormsKnown'
    BY DEF FormsKnown, Making, Reading, Migrating, NoForm
  <2>3. NewApart'
    BY DEF NewApart, Making, NoForm
  <2>4. NewFresh'
    BY DEF NewFresh, FormsKnown, Reading, Private, NoForm, Present
  <2> QED
    BY <2>1, <2>2, <2>3, <2>4 DEF Keys
<1>8. ASSUME NEW c \in Clients, NEW p \in Passphrases, NEW q \in Passphrases, ChangeRead(c, p, q)
      PROVE  Keys'
  <2> USE <1>8 DEF ChangeRead, Inv, TypeOK
  <2>1. KeysKnown'
    BY DEF KeysKnown, Present
  <2>2. FormsKnown'
    BY DEF FormsKnown, KeysKnown, Making, Reading, Migrating
  <2>3. NewApart'
    BY DEF NewApart, Making
  <2>4. NewFresh'
    BY DEF NewFresh, Private, Present
  <2> QED
    BY <2>1, <2>2, <2>3, <2>4 DEF Keys
<1>9. ASSUME NEW c \in Clients, ChangeVerify(c)
      PROVE  Keys'
  <2> USE <1>9, <1>len DEF ChangeVerify, Proven, NewKey, Inv, TypeOK
  <2>0. form[c] \in Form /\ form[c].old \in held
    BY DEF FormsKnown, Reading, NoForm
  <2>1. Len(derived') = Len(derived) + 1 /\ \A k \in 1..Len(derived) : derived'[k] = derived[k]
    BY <2>0 DEF Form
  <2>2. /\ form'[c].pc = "list"
        /\ form'[c].new = Len(derived) + 1
        /\ form'[c].old = form[c].old
        /\ form'[c].current = form[c].current
        /\ \A d \in Clients \ {c} : form'[d] = form[d]
    BY <2>0 DEF Form
  <2>3. KeysKnown'
    BY <2>1 DEF KeysKnown, Present
  <2>4. FormsKnown'
    BY <2>0, <2>1, <2>2 DEF FormsKnown, Making, Reading, Migrating
  <2>5. NewApart'
    BY <2>2 DEF NewApart, FormsKnown, Making
  <2>6. NewFresh'
    BY <2>0, <2>2 DEF NewFresh, KeysKnown, FormsKnown, Making, Private, Present
  <2> QED
    BY <2>3, <2>4, <2>5, <2>6 DEF Keys
<1>10. ASSUME NEW c \in Clients, NEW k \in Kinds, ChangeList(c, k)
       PROVE  Keys'
  <2> USE <1>10 DEF ChangeList, Listed, Inv, TypeOK
  <2>0. form[c] \in Form
    BY DEF NoForm
  <2>1. /\ form[c].pc = "list"
        /\ form'[c].pc = "list"
        /\ form'[c].new = form[c].new
        /\ form'[c].old = form[c].old
        /\ form'[c].current = form[c].current
        /\ \A d \in Clients \ {c} : form'[d] = form[d]
    BY <2>0 DEF Form
  <2>2. KeysKnown'
    BY DEF KeysKnown, Present
  <2>3. FormsKnown'
    BY <2>1 DEF FormsKnown, Making, Reading, Migrating
  <2>4. NewApart'
    BY <2>1 DEF NewApart, Making
  <2>5. NewFresh'
    BY <2>1 DEF NewFresh, Private, Present
  <2> QED
    BY <2>2, <2>3, <2>4, <2>5 DEF Keys
<1>16. ASSUME NEW c \in Clients, ChangeListed(c)
       PROVE  Keys'
  <2> USE <1>16 DEF ChangeListed, Inv, TypeOK
  <2>0. form[c] \in Form
    BY DEF NoForm
  <2>1. /\ form[c].pc = "list"
        /\ form'[c].pc = "migrate"
        /\ form'[c].new = form[c].new
        /\ form'[c].old = form[c].old
        /\ form'[c].current = form[c].current
        /\ form'[c].todo = form[c].todo
        /\ \A d \in Clients \ {c} : form'[d] = form[d]
    BY <2>0 DEF Form
  <2>2. KeysKnown'
    BY DEF KeysKnown, Present
  <2>3. FormsKnown'
    BY <2>1 DEF FormsKnown, Making, Reading, Migrating
  <2>4. NewApart'
    BY <2>1 DEF NewApart, Making
  <2>5. NewFresh'
    BY <2>1 DEF NewFresh, Private, Present
  <2> QED
    BY <2>2, <2>3, <2>4, <2>5 DEF Keys
<1>11. ASSUME NEW c \in Clients, NEW i \in Ids, NEW ok \in BOOLEAN, ChangePut(c, i, ok)
       PROVE  Keys'
  <2> USE <1>11 DEF Inv
  <2>0. form[c] \in Form
    BY DEF ChangePut, TypeOK, NoForm
  <2>1. /\ store'[i] = [key |-> form[c].new, val |-> form[c].todo[i].val]
        /\ \A j \in Ids \ {i} : store'[j] = store[j]
    BY DEF ChangePut, Migrated, TypeOK, Blobs
  <2>2. /\ form[c].pc = "migrate"
        /\ \A d \in Clients \ {c} : Alike(form[d], form'[d])
    BY MissedForms DEF ChangePut, TypeOK
  <2>3. \/ form'[c] = NoForm
        \/ /\ form'[c].pc = "migrate"
           /\ form'[c].new = form[c].new
           /\ form'[c].old = form[c].old
           /\ form'[c].current = form[c].current
           /\ form'[c].todo = [form[c].todo EXCEPT ![i] = Absent]
    BY <2>0, MissedForms DEF ChangePut, TypeOK, Form
  <2>4. /\ form[c].new \in 1..Len(derived)
        /\ UNCHANGED <<envelope, derived, held, cached, put>>
    BY <2>2 DEF FormsKnown, Making, ChangePut
  <2>5. KeysKnown'
    <3>1. \A j \in Present(store') : store'[j].key \in 0..Len(derived')
      <4> SUFFICES ASSUME NEW j \in Present(store') PROVE store'[j].key \in 0..Len(derived')
        OBVIOUS
      <4>1. CASE j = i
        BY <2>1, <2>4, <4>1 DEF TypeOK
      <4>2. CASE j # i
        BY <2>1, <2>4, <4>2 DEF KeysKnown, Present
      <4> QED
        BY <4>1, <4>2
    <3> HIDE <1>11
    <3> QED
      BY <2>4, <3>1 DEF KeysKnown
  <2>6. FormsKnown'
    BY <2>2, <2>3, <2>4 DEF FormsKnown, Making, Reading, Migrating, NoForm, Alike
  <2>7. NewApart'
    BY <2>2, <2>3 DEF NewApart, Making, NoForm, Alike
  <2>8. NewFresh'
    <3> SUFFICES ASSUME NEW d \in Clients, Private(d)'
                 PROVE  /\ form'[d].new \notin held'
                        /\ \A e \in Clients : cached'[e] # form'[d].new
                        /\ \A e \in Clients : put'[e] # NoPut => put'[e].key # form'[d].new
                        /\ \A j \in Present(store') : store'[j].key = form'[d].new =>
                              form'[d].pc = "migrate" /\ j \notin Present(form'[d].todo)
      BY DEF NewFresh
    <3>1. Private(d) /\ form'[d].new = form[d].new /\ form'[d].pc = form[d].pc
      BY <2>2, <2>3 DEF Private, NoForm, Alike
    <3>2. d # c => form[d].new # form[c].new
      BY <2>2, <3>1 DEF NewApart, Making, Private
    <3>3. \A j \in Present(store') : store'[j].key = form'[d].new =>
              form'[d].pc = "migrate" /\ j \notin Present(form'[d].todo)
      <4> SUFFICES ASSUME NEW j \in Present(store'), store'[j].key = form'[d].new
                   PROVE  form'[d].pc = "migrate" /\ j \notin Present(form'[d].todo)
        OBVIOUS
      <4>1. CASE d = c
        <5>1. form'[c].todo = [form[c].todo EXCEPT ![i] = Absent] /\ form[c].todo \in Blobs
          BY <2>0, <2>3, <3>1, <4>1 DEF Private, NoForm, Form
        <5> QED
          BY <2>1, <2>2, <3>1, <4>1, <5>1 DEF NewFresh, Present, Blobs
      <4>2. CASE d # c
        <5>1. j # i /\ store'[j] = store[j] /\ form'[d].todo = form[d].todo
          BY <2>1, <2>2, <3>1, <3>2, <4>2 DEF Present, Alike
        <5> QED
          BY <3>1, <5>1 DEF NewFresh, Present
      <4> QED
        BY <4>1, <4>2
    <3> QED
      BY <2>4, <3>1, <3>3 DEF NewFresh
  <2> QED
    BY <2>5, <2>6, <2>7, <2>8 DEF Keys
<1>12. ASSUME NEW c \in Clients, NEW ok \in BOOLEAN, ChangeSwap(c, ok)
       PROVE  Keys'
  <2> USE <1>12 DEF ChangeSwap, Inv, TypeOK
  <2>0. form[c] \in Form
    BY DEF NoForm
  <2>1. /\ form[c].pc = "migrate"
        /\ \/ form'[c] = NoForm
           \/ /\ form'[c].pc = "cache"
              /\ form'[c].new = form[c].new
              /\ form'[c].old = form[c].old
              /\ form'[c].current = form[c].current
        /\ \A d \in Clients \ {c} : form'[d] = form[d]
    BY <2>0 DEF Form
  <2>2. KeysKnown'
    BY DEF KeysKnown, Present
  <2>3. FormsKnown'
    BY <2>1 DEF FormsKnown, Making, Reading, Migrating, NoForm
  <2>4. NewApart'
    BY <2>1 DEF NewApart, Making, NoForm
  <2>5. NewFresh'
    BY <2>1 DEF NewFresh, NewApart, Making, Private, Present, NoForm
  <2> QED
    BY <2>2, <2>3, <2>4, <2>5 DEF Keys
<1>13. ASSUME NEW c \in Clients, ChangeCache(c)
       PROVE  Keys'
  <2> USE <1>13 DEF ChangeCache, Inv, TypeOK
  <2>1. KeysKnown'
    BY DEF KeysKnown, Present
  <2>2. FormsKnown'
    BY DEF FormsKnown, Making, Reading, Migrating, NoForm
  <2>3. NewApart'
    BY DEF NewApart, Making, NoForm
  <2>4. NewFresh'
    BY DEF NewFresh, NewApart, Making, Private, Present, NoForm
  <2> QED
    BY <2>1, <2>2, <2>3, <2>4 DEF Keys
<1>14. ASSUME NEW c \in Clients, NEW i \in Ids, SaveBegin(c, i)
       PROVE  Keys'
  <2> USE <1>14, <1>len DEF SaveBegin, Inv, TypeOK
  <2>1. KeysKnown'
    BY DEF KeysKnown, Present
  <2>2. FormsKnown'
    BY DEF FormsKnown, Making, Reading, Migrating
  <2>3. NewApart'
    BY DEF NewApart, Making
  <2>4. NewFresh'
    BY DEF NewFresh, Private, Present
  <2> QED
    BY <2>1, <2>2, <2>3, <2>4 DEF Keys
<1>15. ASSUME NEW c \in Clients, SaveArrive(c)
       PROVE  Keys'
  <2> USE <1>15 DEF SaveArrive, Sending, Inv
  <2>1. /\ store'[put[c].id] = [key |-> put[c].key, val |-> put[c].val]
        /\ \A j \in Ids \ {put[c].id} : store'[j] = store[j]
        /\ put[c].id \in Ids
    BY DEF Put, Blobs, TypeOK
  <2>2. \A d \in Clients : Alike(form[d], form'[d])
    BY <2>1, MissedForms DEF TypeOK
  <2>3. KeysKnown'
    BY <2>1 DEF KeysKnown, Present, TypeOK
  <2>4. FormsKnown'
    BY <2>2 DEF FormsKnown, Making, Reading, Migrating, Alike
  <2>5. NewApart'
    BY <2>2 DEF NewApart, Making, Alike
  <2>6. NewFresh'
    <3> SUFFICES ASSUME NEW d \in Clients, Private(d)'
                 PROVE  /\ form'[d].new \notin held'
                        /\ \A e \in Clients : cached'[e] # form'[d].new
                        /\ \A e \in Clients : put'[e] # NoPut => put'[e].key # form'[d].new
                        /\ \A j \in Present(store') : store'[j].key = form'[d].new =>
                              form'[d].pc = "migrate" /\ j \notin Present(form'[d].todo)
      BY DEF NewFresh
    <3>1. Private(d) /\ Alike(form[d], form'[d])
      BY <2>2 DEF Private, Alike
    <3>2. /\ form[d].new \notin held
          /\ \A e \in Clients : cached[e] # form[d].new
          /\ \A e \in Clients : put[e] # NoPut => put[e].key # form[d].new
          /\ \A j \in Present(store) : store[j].key = form[d].new =>
                form[d].pc = "migrate" /\ j \notin Present(form[d].todo)
      BY <3>1 DEF NewFresh
    <3>3. UNCHANGED <<held, cached>> /\ \A e \in Clients : put'[e] \in {put[e], NoPut}
      BY DEF TypeOK
    <3>4. \A j \in Present(store') : store'[j].key = form'[d].new =>
              form'[d].pc = "migrate" /\ j \notin Present(form'[d].todo)
      BY <2>1, <3>1, <3>2 DEF Present, Alike
    <3> QED
      BY <3>1, <3>2, <3>3, <3>4 DEF Alike
  <2> QED
    BY <2>3, <2>4, <2>5, <2>6 DEF Keys
<1> QED
    BY <1>0, <1>1, <1>2, <1>3, <1>4, <1>5, <1>6, <1>7, <1>8, <1>9, <1>10, <1>11, <1>12,
       <1>13, <1>14, <1>15, <1>16 DEF Next, Step

-----------------------------------------------------------------------------
(* What a change has listed. *)

CopiedOf(c) == Migrating(c) =>
    /\ form[c].pc # "list" => form[c].kinds = {}
    /\ \A i \in Ids \ form[c].missed : KindOf(i) \notin form[c].kinds =>
          IF form[c].todo[i] # Absent THEN store[i] = form[c].todo[i]
          ELSE store[i] = Absent \/ store[i].key = form[c].new

\* A write that goes into the history of a change takes nothing from what it knows.
LEMMA CopiedStays ==
    ASSUME NEW c \in Clients, CopiedOf(c), Alike(form[c], form'[c]),
           Migrating(c) => form[c].missed \subseteq form'[c].missed,
           Migrating(c) => \A i \in Ids : \/ store'[i] = store[i]
                                          \/ KindOf(i) \in form[c].kinds
                                          \/ i \in form'[c].missed
    PROVE  CopiedOf(c)'
<1> SUFFICES ASSUME Migrating(c)'
             PROVE  /\ form'[c].pc # "list" => form'[c].kinds = {}
                    /\ \A i \in Ids \ form'[c].missed : KindOf(i) \notin form'[c].kinds =>
                          IF form'[c].todo[i] # Absent THEN store'[i] = form'[c].todo[i]
                          ELSE store'[i] = Absent \/ store'[i].key = form'[c].new
  BY DEF CopiedOf
<1>1. Migrating(c)
  BY DEF Migrating, Alike
<1>2. form'[c].pc # "list" => form'[c].kinds = {}
  BY <1>1 DEF CopiedOf, Alike
<1>3. ASSUME NEW i \in Ids \ form'[c].missed, KindOf(i) \notin form'[c].kinds
      PROVE  IF form'[c].todo[i] # Absent THEN store'[i] = form'[c].todo[i]
             ELSE store'[i] = Absent \/ store'[i].key = form'[c].new
  <2>1. i \notin form[c].missed /\ KindOf(i) \notin form[c].kinds /\ store'[i] = store[i]
    BY <1>1, <1>3 DEF Alike
  <2> QED
    BY <1>1, <2>1 DEF CopiedOf, Alike
<1> QED
  BY <1>2, <1>3

\* Each step keeps what a change knows of the records it has listed.
LEMMA StepCopied == Inv /\ [Next]_vars => Copied'
<1> SUFFICES ASSUME Inv, [Next]_vars, NEW d \in Clients PROVE CopiedOf(d)'
  BY DEF Copied, CopiedOf
<1>t. /\ CopiedOf(d)
      /\ form \in [Clients -> {NoForm} \cup Form]
      /\ store \in Blobs
  BY DEF Inv, Copied, CopiedOf, TypeOK
<1>s. ASSUME store' = store, form'[d] = form[d] PROVE CopiedOf(d)'
  BY <1>t, <1>s, CopiedStays DEF Alike
<1>n. ASSUME form'[d].pc \notin {"list", "migrate", "cache"} PROVE CopiedOf(d)'
  BY <1>n DEF CopiedOf, Migrating
\* Somebody else writes i.
<1>m. ASSUME NEW i \in Ids, form'[d] = Missed(i)[d],
             \A j \in Ids \ {i} : store'[j] = store[j]
      PROVE  CopiedOf(d)'
  <2>1. Alike(form[d], form'[d])
    BY <1>t, <1>m, MissedForms
  <2>2. Migrating(d) => /\ form[d].missed \subseteq form'[d].missed
                        /\ KindOf(i) \notin form[d].kinds => i \in form'[d].missed
    BY <1>t, <1>m, MissedForms
  <2> QED
    BY <1>t, <1>m, <2>1, <2>2, CopiedStays
<1>0. CASE UNCHANGED vars
  BY <1>0, <1>s DEF vars
<1>1. ASSUME NEW c \in Clients, Enter(c) \/ EnterBlind(c) \/ SignOut(c) \/ SignOutLost(c)
      PROVE  CopiedOf(d)'
  BY <1>1, <1>s DEF Enter, EnterBlind, SignOut, SignOutLost
<1>2. ASSUME NEW c \in Clients, Reload(c) \/ IdleLock(c) \/ ChangeRefused(c) \/ Abandon(c)
      PROVE  CopiedOf(d)'
  <2>1. store' = store /\ form' = [form EXCEPT ![c] = NoForm]
    BY <1>2 DEF Reload, IdleLock, ChangeRefused, Abandon
  <2> QED
    BY <1>t, <1>s, <1>n, <2>1 DEF NoForm
<1>3. ASSUME NEW c \in Clients, NEW p \in Passphrases, SetupDerive(c, p)
      PROVE  CopiedOf(d)'
  BY <1>3, <1>t, <1>s, <1>n DEF SetupDerive
<1>4. ASSUME NEW c \in Clients, NEW ok \in BOOLEAN, SetupCreate(c, ok)
      PROVE  CopiedOf(d)'
  BY <1>4, <1>t, <1>s, <1>n DEF SetupCreate, NoForm
<1>5. ASSUME NEW c \in Clients, NEW p \in Passphrases, UnlockRead(c, p)
      PROVE  CopiedOf(d)'
  BY <1>5, <1>t, <1>s, <1>n DEF UnlockRead
<1>6. ASSUME NEW c \in Clients, UnlockOpen(c)
      PROVE  CopiedOf(d)'
  BY <1>6, <1>t, <1>s, <1>n DEF UnlockOpen, NoForm
<1>7. ASSUME NEW c \in Clients, NEW p \in Passphrases, NEW q \in Passphrases, ChangeRead(c, p, q)
      PROVE  CopiedOf(d)'
  BY <1>7, <1>t, <1>s, <1>n DEF ChangeRead
<1>8. ASSUME NEW c \in Clients, ChangeVerify(c)
      PROVE  CopiedOf(d)'
  <2>1. store' = store /\ (d # c => form'[d] = form[d])
    BY <1>8, <1>t DEF ChangeVerify
  <2>2. d = c => form'[d].pc = "list" /\ form'[d].kinds = Kinds
    BY <1>8, <1>t DEF ChangeVerify, Form, NoForm
  <2>3. d = c => CopiedOf(d)'
    BY <2>2, VaultAssumption DEF CopiedOf
  <2> QED
    BY <1>s, <2>1, <2>3
<1>9. ASSUME NEW c \in Clients, NEW k \in Kinds, ChangeList(c, k)
      PROVE  CopiedOf(d)'
  <2>1. store' = store /\ (d # c => form'[d] = form[d])
    BY <1>9, <1>t DEF ChangeList
  <2>2. ASSUME d = c PROVE CopiedOf(d)'
    <3>1. form[d] \in Form /\ form[d].pc = "list"
      BY <1>9, <1>t, <2>2 DEF ChangeList, NoForm
    <3>2. /\ form'[d].pc = "list" /\ form'[d].new = form[d].new
          /\ form'[d].kinds = form[d].kinds \ {k}
          /\ form'[d].missed = form[d].missed
          /\ form'[d].todo = Listing(form[d].todo, k)
      BY <1>9, <1>t, <2>2, <3>1 DEF ChangeList, Listed, Form
    <3>3. \A i \in Ids : form'[d].todo[i] = IF KindOf(i) = k THEN store[i] ELSE form[d].todo[i]
      BY <3>2 DEF Listing
    <3>4. Migrating(d)
      BY <3>1 DEF Migrating
    <3> QED
      BY <1>t, <2>1, <3>2, <3>3, <3>4 DEF CopiedOf
  <2> QED
    BY <1>s, <2>1, <2>2
<1>10. ASSUME NEW c \in Clients, ChangeListed(c)
       PROVE  CopiedOf(d)'
  <2>1. store' = store /\ (d # c => form'[d] = form[d])
    BY <1>10, <1>t DEF ChangeListed
  <2>2. ASSUME d = c PROVE CopiedOf(d)'
    <3>1. form[d] \in Form /\ form[d].pc = "list" /\ form[d].kinds = {}
      BY <1>10, <1>t, <2>2 DEF ChangeListed, NoForm
    <3>2. /\ form'[d].pc = "migrate" /\ form'[d].new = form[d].new
          /\ form'[d].kinds = form[d].kinds
          /\ form'[d].missed = form[d].missed
          /\ form'[d].todo = form[d].todo
      BY <1>10, <1>t, <2>2, <3>1 DEF ChangeListed, Form
    <3> QED
      BY <1>t, <2>1, <3>1, <3>2 DEF CopiedOf, Migrating
  <2> QED
    BY <1>s, <2>1, <2>2
<1>11. ASSUME NEW c \in Clients, NEW i \in Ids, NEW ok \in BOOLEAN, ChangePut(c, i, ok)
       PROVE  CopiedOf(d)'
  <2>1. store' = [store EXCEPT ![i] = Migrated(c, form[c].todo[i])]
    BY <1>11 DEF ChangePut
  <2>2. ASSUME d # c PROVE CopiedOf(d)'
    <3>1. form'[d] = Missed(i)[d]
      BY <1>11, <1>t, <2>2, MissedForms DEF ChangePut
    <3> QED
      BY <1>m, <1>t, <2>1, <3>1 DEF Blobs
  <2>3. ASSUME d = c, ~ok PROVE CopiedOf(d)'
    <3>1. form'[d] = NoForm
      BY <1>11, <1>t, <2>3, MissedForms DEF ChangePut
    <3> QED
      BY <1>n, <3>1 DEF NoForm
  <2>4. ASSUME d = c, ok PROVE CopiedOf(d)'
    <3>1. form[d] \in Form /\ form[d].pc = "migrate" /\ form[d].todo \in Blobs
      BY <1>11, <1>t, <2>4 DEF ChangePut, NoForm, Form
    <3>2. form'[d] = [form[d] EXCEPT !.todo[i] = Absent, !.missed = @ \ {i}]
      BY <1>11, <1>t, <2>4, MissedForms DEF ChangePut
    <3>3. /\ form'[d].pc = "migrate" /\ form'[d].new = form[d].new
          /\ form'[d].kinds = form[d].kinds
          /\ form'[d].missed = form[d].missed \ {i}
          /\ form'[d].todo = [form[d].todo EXCEPT ![i] = Absent]
      BY <3>1, <3>2 DEF Form
    <3>4. form'[d].pc # "list" => form'[d].kinds = {}
      BY <1>t, <3>1, <3>3 DEF CopiedOf, Migrating
    <3>5. ASSUME NEW j \in Ids \ form'[d].missed, KindOf(j) \notin form'[d].kinds
          PROVE  IF form'[d].todo[j] # Absent THEN store'[j] = form'[d].todo[j]
                 ELSE store'[j] = Absent \/ store'[j].key = form'[d].new
      <4>1. CASE j = i
        <5>1. store'[j].key = form[d].new
          BY <1>t, <2>1, <2>4, <4>1 DEF Migrated, Blobs
        <5>2. form'[d].todo[j] = Absent
          BY <3>1, <3>3, <4>1 DEF Blobs
        <5> QED
          BY <3>3, <5>1, <5>2
      <4>2. CASE j # i
        <5>1. store'[j] = store[j] /\ form'[d].todo[j] = form[d].todo[j] /\ j \notin form[d].missed
          BY <1>t, <2>1, <3>1, <3>3, <3>5, <4>2 DEF Blobs
        <5> QED
          BY <1>t, <3>1, <3>3, <3>5, <5>1 DEF CopiedOf, Migrating
      <4> QED
        BY <4>1, <4>2
    <3> QED
      BY <3>4, <3>5 DEF CopiedOf
  <2> QED
    BY <2>2, <2>3, <2>4
<1>12. ASSUME NEW c \in Clients, NEW i \in Ids, ChangeStuck(c, i)
       PROVE  CopiedOf(d)'
  BY <1>12, <1>t, <1>s, <1>n DEF ChangeStuck, NoForm
<1>13. ASSUME NEW c \in Clients, NEW ok \in BOOLEAN, ChangeSwap(c, ok)
       PROVE  CopiedOf(d)'
  <2>1. store' = store /\ (d # c => form'[d] = form[d])
    BY <1>13, <1>t DEF ChangeSwap
  <2>2. ASSUME d = c, ~ok PROVE CopiedOf(d)'
    BY <1>13, <1>t, <1>n, <2>2 DEF ChangeSwap, NoForm
  <2>3. ASSUME d = c, ok PROVE CopiedOf(d)'
    <3>1. form[d] \in Form /\ form[d].pc = "migrate"
      BY <1>13, <1>t, <2>3 DEF ChangeSwap, NoForm
    <3>2. form'[d] = [form[d] EXCEPT !.pc = "cache"]
      BY <1>13, <1>t, <2>3 DEF ChangeSwap
    <3>3. /\ form'[d].pc = "cache" /\ form'[d].new = form[d].new
          /\ form'[d].kinds = form[d].kinds
          /\ form'[d].missed = form[d].missed
          /\ form'[d].todo = form[d].todo
      BY <3>1, <3>2 DEF Form
    <3> QED
      BY <1>t, <2>1, <3>1, <3>3 DEF CopiedOf, Migrating
  <2> QED
    BY <1>s, <2>1, <2>2, <2>3
<1>14. ASSUME NEW c \in Clients, ChangeCache(c)
       PROVE  CopiedOf(d)'
  BY <1>14, <1>t, <1>s, <1>n DEF ChangeCache, NoForm
<1>15. ASSUME NEW c \in Clients, NEW i \in Ids, SaveBegin(c, i)
       PROVE  CopiedOf(d)'
  BY <1>15, <1>s DEF SaveBegin
<1>16. ASSUME NEW c \in Clients, SaveLost(c)
       PROVE  CopiedOf(d)'
  BY <1>16, <1>s DEF SaveLost
<1>17. ASSUME NEW c \in Clients, SaveArrive(c)
       PROVE  CopiedOf(d)'
  <2>1. put[c].id \in Ids
    BY <1>17 DEF SaveArrive, Sending, Inv, TypeOK, Put
  <2>2. form' = Missed(put[c].id) /\ \A j \in Ids \ {put[c].id} : store'[j] = store[j]
    BY <1>17, <1>t DEF SaveArrive, Blobs
  <2> QED
    BY <1>m, <2>1, <2>2
<1>18. ASSUME NEW c \in Clients, NEW i \in Ids, Remove(c, i)
       PROVE  CopiedOf(d)'
  <2>1. form' = Missed(i) /\ \A j \in Ids \ {i} : store'[j] = store[j]
    BY <1>18, <1>t DEF Remove, Blobs
  <2> QED
    BY <1>m, <2>1
<1> QED
  BY <1>0, <1>1, <1>2, <1>3, <1>4, <1>5, <1>6, <1>7, <1>8, <1>9, <1>10, <1>11, <1>12,
     <1>13, <1>14, <1>15, <1>16, <1>17, <1>18 DEF Next, Step

-----------------------------------------------------------------------------
(* What holds of every behaviour. *)

\* The invariant holds of every reachable state.
THEOREM Invariance == Spec => []Inv
<1>1. Init => Inv
  BY InitInv
<1>2. Inv /\ [Next]_vars => Inv'
  BY StepTypes, StepKeys, StepCopied DEF Inv, Keys
<1> QED
  BY <1>1, <1>2, PTL DEF Spec

\* The types: an envelope, a cached key, a ciphertext is under a derived key.
THEOREM TypeCorrect == Spec => []TypeOK
<1>1. Inv => TypeOK
  BY DEF Inv
<1> QED
  BY <1>1, Invariance, PTL

\* EX-PASS-2: only a browser that opened a stored envelope with the current
\* passphrase migrates records or swaps the envelope, and until it swaps its new key
\* is in no cache, in no save on its way and in no record it has still to do.
THEOREM OnlyProvenChange == Spec => []ChangeProven
<1>1. Inv => ChangeProven
  <2> SUFFICES ASSUME Inv, NEW c \in Clients, Migrating(c)
               PROVE  /\ form[c].old \in held
                      /\ derived[form[c].old].pass = form[c].current
                      /\ form[c].pc # "cache" =>
                            /\ form[c].new \notin held
                            /\ \A d \in Clients : cached[d] # form[c].new
                            /\ \A d \in Clients : Sending(d) => put[d].key # form[c].new
                            /\ \A i \in Present(form[c].todo) \cap Present(store) :
                                  store[i].key # form[c].new
    BY DEF ChangeProven
  <2>1. Reading(c) /\ (form[c].pc # "cache" => Private(c))
    BY DEF Migrating, Reading, Private
  <2> QED
    BY <2>1 DEF Inv, FormsKnown, NewFresh, Sending
<1> QED
  BY <1>1, Invariance, PTL

\* store.go, the one-setup invariant: a stored envelope is replaced by the swap of
\* a passphrase change and by nothing else.
LEMMA OneSetupStep ==
    Inv /\ [Next]_vars /\ envelope # 0 /\ envelope' # envelope =>
        \E c \in Clients : form[c].pc = "migrate" /\ envelope' = form[c].new
BY ZenonT(60) DEF Next, Step, vars, Enter, EnterBlind, Reload, IdleLock, SignOut, SignOutLost, SetupDerive, SetupCreate,
       Created, UnlockRead, UnlockOpen, ChangeRead, ChangeVerify, ChangeRefused, ChangeList,
       ChangeListed, ChangePut, ChangeStuck, ChangeSwap, ChangeCache, Abandon, SaveBegin,
       SaveArrive, SaveLost, Remove

\* The server's one-setup invariant (store.go Create): the stored envelope is replaced
\* by a passphrase change only, whatever the browsers do and whatever fails.
THEOREM OneSetup == Spec => SetupOnce
<1>1. Inv /\ [Next]_vars =>
        [envelope # 0 /\ envelope' # envelope =>
            \E c \in Clients : form[c].pc = "migrate" /\ envelope' = form[c].new]_vars
  BY OneSetupStep
<1> QED
  BY <1>1, Invariance, PTL DEF Spec, SetupOnce

-----------------------------------------------------------------------------
(* What a change leaves behind. *)

\* BR-PASS-2: a change that has listed everything has left under another key only what it
\* has still to do and what was written after it had listed it, in any number of browsers,
\* whatever fails and whoever saves meanwhile, the page of the change itself included.
THEOREM MigrationCompletes == Spec => []MigrationComplete
<1>1. Inv => MigrationComplete
  <2> SUFFICES ASSUME Inv, NEW c \in Clients, form[c].pc \in {"migrate", "cache"},
                      NEW i \in Present(store) \ (Present(form[c].todo) \cup form[c].missed)
               PROVE  store[i].key = form[c].new
    BY DEF MigrationComplete
  <2>1. Migrating(c) /\ form[c].kinds = {}
    BY DEF Migrating, Inv, Copied
  <2> QED
    BY <2>1 DEF Inv, Copied, Present
<1> QED
  BY <1>1, Invariance, PTL

\* The step in which the envelope moves to a new key.
LEMMA SwapStep ==
    Inv /\ [Next]_vars /\ envelope # 0 /\ envelope' # envelope =>
        \E c \in Clients :
            /\ form[c].pc = "migrate" /\ envelope' = form[c].new
            /\ \A i \in Present(store) \ form[c].missed : store[i].key = envelope'
<1> SUFFICES ASSUME Inv, [Next]_vars, envelope # 0, envelope' # envelope
             PROVE  \E c \in Clients :
                        /\ form[c].pc = "migrate" /\ envelope' = form[c].new
                        /\ \A i \in Present(store) \ form[c].missed : store[i].key = envelope'
  OBVIOUS
<1>1. PICK c \in Clients, ok \in BOOLEAN : ChangeSwap(c, ok)
  BY ZenonT(60) DEF Next, Step, vars, Enter, EnterBlind, Reload, IdleLock, SignOut, SignOutLost,
     SetupDerive, SetupCreate, Created, UnlockRead, UnlockOpen, ChangeRead, ChangeVerify,
     ChangeRefused, ChangeList, ChangeListed, ChangePut, ChangeStuck, ChangeCache, Abandon,
     SaveBegin, SaveArrive, SaveLost, Remove
<1>2. form[c].pc = "migrate" /\ envelope' = form[c].new /\ Present(form[c].todo) = {}
  BY <1>1 DEF ChangeSwap, SwapReady
<1>3. form[c].kinds = {} /\ Migrating(c)
  BY <1>2 DEF Inv, Copied, Migrating
<1> QED
  BY <1>2, <1>3 DEF Inv, Copied, Present

\* BR-PASS-2 "overwrites the envelope last": when the envelope moves to the key of a
\* change, every record is under it but those written after the change had listed them.
THEOREM SwapCovers == Spec => SwapCoversStore
<1>1. Inv /\ [Next]_vars =>
        [envelope # 0 /\ envelope' # envelope =>
            \E c \in Clients :
                /\ form[c].pc = "migrate" /\ envelope' = form[c].new
                /\ \A i \in Present(store) \ form[c].missed : store[i].key = envelope']_vars
  BY SwapStep
<1> QED
  BY <1>1, Invariance, PTL DEF Spec, SwapCoversStore

\* The put of a change writes back what it had listed.
LEMMA PutKeeps ==
    ASSUME Inv, NEW c \in Clients, NEW i \in Ids, NEW ok \in BOOLEAN, ChangePut(c, i, ok),
           NEW j \in Ids \ form[c].missed
    PROVE  /\ store'[j] # Absent <=> store[j] # Absent
           /\ store[j] # Absent => store'[j].val = store[j].val
<1>1. /\ form[c].pc = "migrate" /\ form[c].todo[i] # Absent
      /\ store' = [store EXCEPT ![i] = Migrated(c, form[c].todo[i])]
      /\ store \in Blobs
  BY DEF ChangePut, Present, Inv, TypeOK
<1>2. CASE j = i
  <2>1. store[i] = form[c].todo[i]
    BY <1>1, <1>2 DEF Inv, Copied, Migrating
  <2>2. store'[i] = [key |-> form[c].new, val |-> store[i].val]
    BY <1>1, <2>1 DEF Migrated, Blobs
  <2>3. store'[i].val = store[i].val /\ store'[i] # Absent
    BY <2>2 DEF Absent
  <2> QED
    BY <1>1, <1>2, <2>1, <2>3
<1>3. CASE j # i
  BY <1>1, <1>3 DEF Blobs
<1> QED
  BY <1>2, <1>3

\* A change of passphrase changes no content: it drops, alters or brings back no record
\* but one that was saved or removed after it had listed it.
THEOREM ChangeKeepsContent == Spec => ContentKept
<1>1. Inv => [\A c \in Clients : (\E i \in Ids, ok \in BOOLEAN : ChangePut(c, i, ok)) =>
                \A j \in Ids \ form[c].missed :
                    /\ store'[j] # Absent <=> store[j] # Absent
                    /\ store[j] # Absent => store'[j].val = store[j].val]_vars
  BY PutKeeps
<1> QED
  BY <1>1, Invariance, PTL DEF Spec, ContentKept

-----------------------------------------------------------------------------
(* What the user reads while nothing has failed and nothing has crossed. *)

Calm == faults = 0 /\ ~crossed

\* A browser inside has a key.  Whatever uses one uses the envelope's: what is cached
\* outside the forms that make a key, what a form has read, what is on its way.  What
\* a change has still to write back was under the key it has read, and what was written
\* after it had listed it was removed.
Own(c) ==
    /\ page[c] = "home" => cached[c] # 0
    /\ Sending(c) => envelope # 0 /\ put[c].key = envelope
    /\ form[c].pc \in {"idle", "unlock", "verify"} => cached[c] \in {0, envelope}
    /\ form[c].pc \in {"unlock", "verify", "list", "migrate"} => form[c].old = envelope
    /\ form[c].pc = "verify" => form[c].missed = {} /\ Present(form[c].todo) = {}
    /\ form[c].pc = "create" => cached[c] = form[c].new
    /\ form[c].pc = "cache" => form[c].new = envelope
    /\ Migrating(c) => \A i \in form[c].missed : store[i] = Absent
    /\ Private(c) => \A i \in Present(form[c].todo) : form[c].todo[i].key = form[c].old

\* Without an envelope there is no record, and only a change on its way to the swap has
\* records that do not open.
Whole ==
    /\ ~Crossing
    /\ envelope = 0 => Present(store) = {}
    /\ (\A c \in Clients : form[c].pc # "migrate") => Readable

Steady  == Whole /\ \A c \in Clients : Own(c)
CalmInv == Calm => Steady

\* The fields of what a browser is busy with.
LEMMA FormFields ==
    ASSUME TypeOK, NEW c \in Clients
    PROVE  /\ ~Busy(c) => form[c].pc = "idle"
           /\ Busy(c) => form[c] \in Form /\ form[c].pc # "idle" /\ form[c].todo \in Blobs
           /\ ~Sending(c) => put[c] = NoPut
           /\ Sending(c) => put[c] \in Put
BY DEF TypeOK, Busy, Sending, NoForm, Form

\* While nothing crosses a busy browser has no save on its way, and the others have
\* nothing.
LEMMA BusyAlone ==
    ASSUME ~Crossing, NEW c \in Clients, Busy(c)
    PROVE  /\ ~Sending(c) /\ page[c] # "out"
           /\ form[c].pc = "create" => envelope = 0
           /\ \A d \in Clients \ {c} : cached[d] = 0 /\ ~Busy(d) /\ ~Sending(d)
<1>1. Engaged(c)
  BY DEF Engaged
<1> QED
  BY <1>1 DEF Crossing, Engaged

\* A browser that comes to have nothing, and is not inside, is none of them.
LEMMA OwnNothing ==
    ASSUME NEW c \in Clients, form'[c] = NoForm, put'[c] = NoPut, cached'[c] = 0,
           page'[c] # "home"
    PROVE  Own(c)'
BY DEF Own, NoForm, Sending, Migrating, Private

\* What a browser has stays as it is when others write, as far as they remove what it
\* has listed.
LEMMA OwnStays ==
    ASSUME NEW c \in Clients, Own(c), Alike(form[c], form'[c]),
           ~Migrating(c) => form'[c] = form[c],
           put'[c] = put[c], cached'[c] = cached[c], page'[c] = page[c], envelope' = envelope,
           Migrating(c) => \A i \in form'[c].missed : store'[i] = Absent
    PROVE  Own(c)'
<1>1. \A x : form'[c].pc = x <=> form[c].pc = x
  BY DEF Alike
<1>2. /\ Sending(c)' <=> Sending(c)
      /\ Migrating(c)' <=> Migrating(c)
      /\ Private(c)' <=> Private(c)
  BY <1>1 DEF Sending, Migrating, Private
<1>3. form[c].pc = "verify" => form'[c] = form[c]
  BY DEF Migrating
<1> QED
  BY <1>1, <1>2, <1>3 DEF Own, Present, Alike

\* No step takes back a failure.
LEMMA FaultsGrow == [Next]_vars => faults' = faults \/ faults' = faults + 1
BY ZenonT(60) DEF Next, Step, vars, Enter, EnterBlind, Reload, IdleLock, SignOut, SignOutLost,
   SetupDerive, SetupCreate, UnlockRead, UnlockOpen, ChangeRead, ChangeVerify, ChangeRefused,
   ChangeList, ChangeListed, ChangePut, ChangeStuck, ChangeSwap, ChangeCache, Abandon, SaveBegin,
   SaveArrive, SaveLost, Remove, Faulty

\* In the initial states nothing is under way.
LEMMA InitCalm == Init => CalmInv
<1> SUFFICES ASSUME Init PROVE Steady
  BY DEF CalmInv
<1>1. \A c \in Clients : form[c] = NoForm /\ put[c] = NoPut /\ cached[c] = 0 /\ page[c] = "out"
  BY DEF Init
<1>2. \A c \in Clients : Own(c)
  BY <1>1 DEF Own, NoForm, Sending, Migrating, Private
<1>3. ~Crossing
  BY <1>1 DEF Crossing, Engaged, Busy, Sending, NoForm
<1>4. CASE Fresh
  <2>1. Present(store) = {}
    BY <1>4 DEF Fresh, Empty, Present
  <2> QED
    BY <1>2, <1>3, <2>1 DEF Steady, Whole, Readable
<1>5. CASE InUse
  <2>1. PICK there \in SUBSET Ids :
            store = [i \in Ids |-> IF i \in there THEN [key |-> 1, val |-> 0] ELSE Absent]
    BY <1>5 DEF InUse
  <2>2. envelope = 1 /\ \A i \in Present(store) : store[i].key = 1
    BY <1>5, <2>1 DEF InUse, Present
  <2> QED
    BY <1>2, <1>3, <2>2 DEF Steady, Whole, Readable
<1> QED
  BY <1>4, <1>5 DEF Init

\* Until something fails or crosses, each step keeps it so.
LEMMA StepCalm == Inv /\ CalmInv /\ [Next]_vars => CalmInv'
<1> SUFFICES ASSUME Inv, CalmInv, [Next]_vars, Calm' PROVE Steady'
  BY DEF CalmInv
<1>t. /\ TypeOK
      /\ envelope \in Nat /\ store \in Blobs /\ held \subseteq 1..Len(derived)
      /\ Len(derived) \in Nat
      /\ faults \in Nat
      /\ cached \in [Clients -> 0..Len(derived)]
      /\ page \in [Clients -> Pages]
      /\ form \in [Clients -> {NoForm} \cup Form]
      /\ put \in [Clients -> {NoPut} \cup Put]
  BY DEF Inv, TypeOK
<1>f. faults = 0 /\ faults' = 0
  BY <1>t, FaultsGrow DEF Calm
<1>0. CASE UNCHANGED vars
  <2>1. Steady
    BY <1>f, <1>0 DEF CalmInv, Calm, vars
  <2> QED
    BY <1>0, <2>1 DEF vars, Steady, Whole, Own, Crossing, Engaged, Readable, Present, Busy,
       Sending, Migrating, Private
<1>z. CASE Next
  <2>1. PICK c \in Clients : Step(c)
    BY <1>z DEF Next
  <2>2. ~crossed /\ ~Crossing'
    BY <1>z DEF Next, Calm
  <2>3. Steady
    BY <1>f, <2>2 DEF CalmInv, Calm
  <2>4. \A d \in Clients : Own(d)
    BY <2>3 DEF Steady
  <2>5. ~Crossing /\ (envelope = 0 => Present(store) = {})
        /\ ((\A d \in Clients : form[d].pc # "migrate") => Readable)
    BY <2>3 DEF Steady, Whole
  \* While this browser is busy, the others have nothing.
  <2>6. ASSUME Busy(c), NEW d \in Clients \ {c}
        PROVE  form[d] = NoForm /\ put[d] = NoPut /\ cached[d] = 0 /\ page[d] # "home"
    BY <2>4, <2>5, <2>6, BusyAlone DEF Busy, Sending, Own
  <2>7. ASSUME \A d \in Clients \ {c} : /\ form'[d] = form[d] /\ put'[d] = put[d]
                                        /\ cached'[d] = cached[d] /\ page'[d] = page[d],
               envelope' = envelope, store' = store, Own(c)',
               form[c].pc = "migrate" => form'[c].pc = "migrate"
        PROVE  Steady'
    <3>1. \A d \in Clients \ {c} : Own(d)'
      BY <2>4, <2>7, OwnStays DEF Alike, Own
    <3>2. (\A d \in Clients : form'[d].pc # "migrate") => \A d \in Clients : form[d].pc # "migrate"
      BY <2>7
    <3> QED
      BY <2>2, <2>5, <2>7, <3>1, <3>2 DEF Steady, Whole, Readable, Present
  \* The steps of a busy browser, which leave the others with nothing.
  <2>8. ASSUME Busy(c),
               \A d \in Clients \ {c} : /\ form'[d] = form[d] /\ put'[d] = put[d]
                                        /\ cached'[d] = cached[d] /\ page'[d] = page[d],
               Own(c)', Whole'
        PROVE  Steady'
    BY <2>6, <2>8, OwnNothing DEF Steady
  <2>e. Busy(c) => form[c] \in Form
    BY <1>t DEF Busy
  <2>k. /\ Reading(c) => form[c].old \in Nat \ {0}
        /\ Making(c) => form[c].new \in Nat \ {0}
    <3>1. \A k \in 1..Len(derived) : k \in Nat \ {0}
      OBVIOUS
    <3>2. /\ Reading(c) => form[c].old \in 1..Len(derived)
          /\ Making(c) => form[c].new \in 1..Len(derived)
      BY <1>t DEF Inv, FormsKnown
    <3> QED
      BY <3>1, <3>2
  <2>10. CASE Enter(c)
    <3>1. Own(c)'
      BY <1>t, <2>4, <2>10 DEF Enter, Own, Sending, Migrating, Private, Present
    <3> QED
      BY <1>t, <2>7, <2>10, <3>1 DEF Enter
  <2>11. CASE EnterBlind(c) \/ SignOutLost(c) \/ SaveLost(c)
    BY <1>f, <2>11 DEF EnterBlind, SignOutLost, SaveLost
  <2>12. CASE Reload(c) \/ IdleLock(c)
    <3>1. ~Busy(c)
      BY <1>f, <2>12 DEF Reload, IdleLock
    <3>2. /\ form[c] = NoForm /\ form'[c] = NoForm
          /\ cached'[c] \in {0, cached[c]} /\ page'[c] = "boot"
          /\ put' = put /\ envelope' = envelope /\ store' = store
      BY <1>t, <2>12, <3>1 DEF Reload, IdleLock, Busy
    <3>3. Own(c)'
      BY <2>4, <3>2 DEF Own, Sending, Migrating, Private, NoForm
    <3> QED
      BY <1>t, <2>7, <2>12, <3>2, <3>3 DEF Reload, IdleLock, NoForm
  <2>13. CASE SignOut(c)
    <3>1. form' = form /\ page'[c] = "out" /\ cached'[c] = 0 /\ put'[c] = NoPut
      BY <1>t, <2>13 DEF SignOut, ClearKey
    <3>2. form'[c] = NoForm
      BY <2>2, <3>1 DEF Crossing, Busy
    <3>3. Own(c)'
      BY <3>1, <3>2, OwnNothing
    <3> QED
      BY <1>t, <2>7, <2>13, <3>1, <3>2, <3>3 DEF SignOut, ClearKey, NoForm
  <2>14. ASSUME NEW p \in Passphrases, SetupDerive(c, p) PROVE Steady'
    <3>1. /\ form[c] = NoForm /\ page[c] = "setup" /\ page' = page /\ put' = put
          /\ envelope' = envelope /\ store' = store
          /\ form'[c].pc = "create" /\ cached'[c] = form'[c].new
      BY <1>t, <2>14 DEF SetupDerive, Busy
    <3>2. Own(c)'
      BY <2>4, <3>1 DEF Own, Sending, Migrating, Private
    <3> QED
      BY <1>t, <2>7, <2>14, <3>1, <3>2 DEF SetupDerive, NoForm
  <2>15. ASSUME NEW ok \in BOOLEAN, SetupCreate(c, ok) PROVE Steady'
    <3>1. Busy(c) /\ Making(c) /\ ok
      BY <1>f, <2>15 DEF SetupCreate, Faulty, Busy, Making, NoForm
    <3>2. envelope = 0 /\ ~Sending(c) /\ cached[c] = form[c].new
      BY <2>4, <2>5, <2>15, <3>1, BusyAlone DEF SetupCreate, Own
    <3>3. /\ envelope' = form[c].new /\ page'[c] = "home" /\ form'[c] = NoForm
          /\ store' = store /\ cached' = cached /\ put' = put
      BY <1>t, <2>15, <3>1, <3>2 DEF SetupCreate, Created
    <3>4. Own(c)'
      BY <2>k, <3>1, <3>2, <3>3 DEF Own, Sending, Migrating, Private, NoForm
    <3>5. Whole'
      BY <2>2, <2>5, <2>k, <3>1, <3>2, <3>3 DEF Whole, Readable, Present
    <3> QED
      BY <1>t, <2>8, <2>15, <3>1, <3>4, <3>5 DEF SetupCreate
  <2>16. ASSUME NEW p \in Passphrases, UnlockRead(c, p) PROVE Steady'
    <3>1. /\ form[c] = NoForm /\ page' = page /\ put' = put /\ cached' = cached
          /\ envelope' = envelope /\ store' = store
          /\ form'[c].pc = "unlock" /\ form'[c].old = envelope
      BY <1>t, <2>16 DEF UnlockRead, Busy
    <3>2. Own(c)'
      BY <2>4, <3>1 DEF Own, Sending, Migrating, Private, NoForm
    <3> QED
      BY <1>t, <2>7, <2>16, <3>1, <3>2 DEF UnlockRead, NoForm
  <2>17. CASE UnlockOpen(c)
    <3>1. form[c].pc = "unlock" /\ form[c].old = envelope /\ form[c].old \in Nat \ {0}
      BY <2>4, <2>k, <2>17 DEF UnlockOpen, Own, Reading
    <3>2. /\ form'[c] = NoForm /\ put' = put /\ envelope' = envelope /\ store' = store
          /\ \/ cached'[c] = form[c].old
             \/ cached'[c] = cached[c] /\ page'[c] = page[c]
      BY <1>t, <2>17 DEF UnlockOpen
    <3>3. Own(c)'
      BY <2>4, <3>1, <3>2 DEF Own, Sending, Migrating, Private, NoForm
    <3> QED
      BY <1>t, <2>7, <2>17, <3>1, <3>2, <3>3 DEF UnlockOpen
  <2>18. ASSUME NEW p \in Passphrases, NEW q \in Passphrases, ChangeRead(c, p, q) PROVE Steady'
    <3>1. /\ form[c] = NoForm /\ page' = page /\ put' = put /\ cached' = cached
          /\ envelope' = envelope /\ store' = store
          /\ form'[c].pc = "verify" /\ form'[c].old = envelope
          /\ form'[c].missed = {} /\ form'[c].todo = Empty
      BY <1>t, <2>18 DEF ChangeRead, Busy
    <3>2. Present(form'[c].todo) = {}
      BY <3>1 DEF Present, Empty
    <3>3. Own(c)'
      BY <2>4, <3>1, <3>2 DEF Own, Sending, Migrating, Private, NoForm, Present
    <3> QED
      BY <1>t, <2>7, <2>18, <3>1, <3>3 DEF ChangeRead, NoForm
  <2>19. CASE ChangeVerify(c)
    <3>0. form[c] \in Form /\ form[c].pc = "verify"
      BY <1>t, <2>19 DEF ChangeVerify, NoForm
    <3>1. /\ form[c].old = envelope /\ form[c].missed = {} /\ Present(form[c].todo) = {}
          /\ form[c].old \in Nat \ {0}
      BY <2>4, <2>k, <3>0 DEF Own, Reading
    <3>2. /\ form'[c].pc = "list" /\ form'[c].old = form[c].old /\ form'[c].missed = form[c].missed
          /\ form'[c].todo = form[c].todo
          /\ put' = put /\ envelope' = envelope /\ store' = store /\ page' = page
          /\ cached'[c] = form[c].old
      BY <1>t, <2>19, <3>0 DEF ChangeVerify, Form
    <3>3. Own(c)'
      BY <2>4, <3>0, <3>1, <3>2 DEF Own, Sending, Migrating, Private, Present
    <3> QED
      BY <1>t, <2>7, <2>19, <3>0, <3>3 DEF ChangeVerify
  <2>20. CASE ChangeRefused(c)
    <3>1. /\ form[c].pc = "verify" /\ form'[c] = NoForm /\ put' = put /\ envelope' = envelope
          /\ store' = store /\ page' = page /\ cached' = cached
      BY <1>t, <2>20 DEF ChangeRefused
    <3>2. Own(c)'
      BY <2>4, <3>1 DEF Own, Sending, Migrating, Private, NoForm
    <3> QED
      BY <1>t, <2>7, <2>20, <3>1, <3>2 DEF ChangeRefused
  <2>21. ASSUME NEW k \in Kinds, ChangeList(c, k) PROVE Steady'
    <3>1. form[c] \in Form /\ form[c].pc = "list" /\ form[c].old = envelope /\ Busy(c)
      BY <1>t, <2>4, <2>21 DEF ChangeList, Own, NoForm, Busy
    <3>2. /\ form'[c].pc = "list" /\ form'[c].old = form[c].old /\ form'[c].missed = form[c].missed
          /\ form'[c].todo = Listing(form[c].todo, k)
          /\ put' = put /\ envelope' = envelope /\ store' = store /\ page' = page /\ cached' = cached
      BY <1>t, <2>21, <3>1 DEF ChangeList, Listed, Form
    <3>3. \A d \in Clients : form[d].pc # "migrate"
      BY <2>6, <3>1 DEF NoForm
    <3>4. \A i \in Present(store) : store[i].key = envelope
      BY <2>5, <3>3 DEF Readable
    <3>5. \A i \in Present(form'[c].todo) : form'[c].todo[i].key = envelope
      <4> SUFFICES ASSUME NEW i \in Ids, form'[c].todo[i] # Absent
                   PROVE  form'[c].todo[i].key = envelope
        BY DEF Present
      <4>1. form'[c].todo[i] = IF KindOf(i) = k THEN store[i] ELSE form[c].todo[i]
        BY <3>2 DEF Listing
      <4> QED
        BY <2>4, <3>1, <3>4, <4>1 DEF Own, Private, Present
    <3>6. Own(c)'
      BY <2>4, <3>1, <3>2, <3>5 DEF Own, Sending, Migrating, Private, Present
    <3> QED
      BY <1>t, <2>7, <2>21, <3>1, <3>6 DEF ChangeList
  <2>22. CASE ChangeListed(c)
    <3>1. form[c] \in Form /\ form[c].pc = "list"
      BY <1>t, <2>22 DEF ChangeListed, NoForm
    <3>2. /\ form'[c].pc = "migrate" /\ form'[c].old = form[c].old
          /\ form'[c].missed = form[c].missed /\ form'[c].todo = form[c].todo
          /\ put' = put /\ envelope' = envelope /\ store' = store /\ page' = page /\ cached' = cached
      BY <1>t, <2>22, <3>1 DEF ChangeListed, Form
    <3>3. Own(c)'
      BY <2>4, <3>1, <3>2 DEF Own, Sending, Migrating, Private, Present
    <3> QED
      BY <1>t, <2>7, <2>22, <3>1, <3>3 DEF ChangeListed
  <2>23. ASSUME NEW i \in Ids, NEW ok \in BOOLEAN, ChangePut(c, i, ok) PROVE Steady'
    <3>1. /\ form[c] \in Form /\ form[c].pc = "migrate" /\ Busy(c) /\ ok
          /\ form[c].old = envelope /\ form[c].old \in Nat \ {0}
      BY <1>t, <1>f, <2>4, <2>k, <2>23 DEF ChangePut, Faulty, Own, NoForm, Busy, Reading
    <3>2. form' = [Missed(i) EXCEPT ![c] = [form[c] EXCEPT !.todo[i] = Absent, !.missed = @ \ {i}]]
      BY <2>23, <3>1 DEF ChangePut
    <3>3. Missed(i) \in [Clients -> {NoForm} \cup Form]
      BY <1>t, MissedForms
    <3>4. form[c].todo \in Blobs /\ form[c].missed \subseteq Ids
      BY <3>1 DEF Form
    <3>5. /\ form'[c].pc = "migrate" /\ form'[c].old = form[c].old
          /\ form'[c].missed = form[c].missed \ {i}
          /\ form'[c].todo = [form[c].todo EXCEPT ![i] = Absent]
      BY <3>1, <3>2, <3>3 DEF Form
    <3>6. /\ put' = put /\ envelope' = envelope /\ page' = page /\ cached' = cached
          /\ store' = [store EXCEPT ![i] = Migrated(c, form[c].todo[i])]
      BY <2>23 DEF ChangePut
    <3>7. \A d \in Clients \ {c} : form'[d] = form[d]
      <4> SUFFICES ASSUME NEW d \in Clients \ {c} PROVE form'[d] = form[d]
        OBVIOUS
      <4>1. form'[d] = Missed(i)[d] /\ form[d] = NoForm
        BY <2>6, <3>1, <3>2, <3>3
      <4> QED
        BY <1>t, <4>1, MissedForms
    <3>8. \A j \in form'[c].missed : store'[j] = Absent
      BY <1>t, <2>4, <3>1, <3>4, <3>5, <3>6 DEF Own, Migrating, Blobs
    <3>9. \A j \in Present(form'[c].todo) : form'[c].todo[j].key = form'[c].old
      BY <2>4, <3>1, <3>4, <3>5 DEF Own, Private, Present, Blobs
    <3>10. Own(c)'
      BY <2>4, <3>1, <3>5, <3>6, <3>8, <3>9 DEF Own, Sending, Migrating, Private, Present
    <3>11. Whole'
      BY <2>2, <3>1, <3>5, <3>6 DEF Whole
    <3> QED
      BY <2>8, <3>1, <3>6, <3>7, <3>10, <3>11
  <2>24. ASSUME NEW i \in Ids, ChangeStuck(c, i) PROVE Steady'
    BY <2>4, <2>24 DEF ChangeStuck, Own, Private, Opens
  <2>25. ASSUME NEW ok \in BOOLEAN, ChangeSwap(c, ok) PROVE Steady'
    <3>1. form[c] \in Form /\ form[c].pc = "migrate" /\ Busy(c) /\ ok /\ Making(c) /\ Migrating(c)
      BY <1>t, <1>f, <2>25 DEF ChangeSwap, Faulty, NoForm, Busy, Making, Migrating
    <3>2. /\ form'[c].pc = "cache" /\ form'[c].new = form[c].new /\ form'[c].missed = form[c].missed
          /\ put' = put /\ envelope' = form[c].new /\ store' = store /\ page' = page
          /\ cached' = cached
      BY <1>t, <2>25, <3>1 DEF ChangeSwap, Form
    <3>3. ~Sending(c)
      BY <2>5, <3>1, BusyAlone
    <3>4. Own(c)'
      BY <2>4, <3>1, <3>2, <3>3 DEF Own, Sending, Migrating, Private
    <3>5. \A i \in Present(store) : store[i].key = form[c].new
      <4> SUFFICES ASSUME NEW i \in Ids, store[i] # Absent PROVE store[i].key = form[c].new
        BY DEF Present
      <4>1. i \notin form[c].missed
        BY <2>4, <3>1 DEF Own
      <4>2. form[c].todo[i] = Absent
        BY <2>25 DEF ChangeSwap, SwapReady, Present
      <4> QED
        BY <3>1, <4>1, <4>2 DEF Inv, Copied
    <3>6. Whole'
      BY <2>2, <2>k, <3>1, <3>2, <3>5 DEF Whole, Readable, Present
    <3> QED
      BY <1>t, <2>8, <2>25, <3>1, <3>4, <3>6 DEF ChangeSwap
  <2>26. CASE ChangeCache(c)
    <3>1. form[c].pc = "cache" /\ form[c].new = envelope /\ form[c].new \in Nat \ {0}
      BY <2>4, <2>k, <2>26 DEF ChangeCache, Own, Making
    <3>2. /\ form'[c] = NoForm /\ put' = put /\ envelope' = envelope /\ store' = store /\ page' = page
          /\ cached'[c] = form[c].new
      BY <1>t, <2>26 DEF ChangeCache
    <3>3. Own(c)'
      BY <2>4, <3>1, <3>2 DEF Own, Sending, Migrating, Private, NoForm
    <3> QED
      BY <1>t, <2>7, <2>26, <3>1, <3>3 DEF ChangeCache
  <2>27. CASE Abandon(c)
    <3>1. Busy(c) /\ ~Authed(c)
      BY <1>f, <2>27 DEF Abandon, Busy, NoForm
    <3> QED
      BY <2>5, <3>1, BusyAlone DEF Authed
  <2>28. ASSUME NEW i \in Ids, SaveBegin(c, i) PROVE Steady'
    <3>1. /\ form' = form /\ envelope' = envelope /\ store' = store /\ page' = page /\ cached' = cached
          /\ put'[c] = [id |-> i, key |-> cached[c], val |-> saves + 1]
          /\ cached[c] # 0
      BY <1>t, <2>28 DEF SaveBegin
    <3>2. put'[c] # NoPut
      BY <3>1 DEF NoPut
    <3>3. form[c] = NoForm
      BY <2>2, <3>1, <3>2 DEF Crossing, Busy, Sending
    <3>4. cached[c] = envelope
      BY <2>4, <3>1, <3>3 DEF Own, NoForm
    <3>5. Own(c)'
      BY <2>4, <3>1, <3>3, <3>4 DEF Own, Sending, Migrating, Private, NoForm
    <3> QED
      BY <1>t, <2>7, <2>28, <3>1, <3>5 DEF SaveBegin
  <2>29. CASE SaveArrive(c)
    <3>1. Sending(c) /\ envelope # 0 /\ put[c].key = envelope /\ put[c].id \in Ids
      BY <1>t, <2>4, <2>29 DEF SaveArrive, Own, Sending, Put
    <3>2. \A d \in Clients : form[d] = NoForm
      BY <2>5, <3>1, BusyAlone DEF Busy
    <3>3. \A d \in Clients : form'[d] = NoForm
      BY <1>t, <2>29, <3>1, <3>2, MissedForms DEF SaveArrive
    <3>4. /\ envelope' = envelope /\ page' = page /\ cached' = cached
          /\ put' = [put EXCEPT ![c] = NoPut]
          /\ store' = [store EXCEPT ![put[c].id] = [key |-> put[c].key, val |-> put[c].val]]
      BY <2>29 DEF SaveArrive
    <3>5. ASSUME NEW d \in Clients PROVE Own(d)'
      <4>1. put'[d] = put[d] \/ put'[d] = NoPut
        BY <1>t, <3>4
      <4> QED
        BY <2>4, <3>2, <3>3, <3>4, <4>1 DEF Own, Sending, Migrating, Private, NoForm
    <3>6. Readable
      BY <2>5, <3>2 DEF NoForm
    <3>7. Whole'
      BY <1>t, <2>2, <3>1, <3>4, <3>6 DEF Whole, Readable, Present, Blobs
    <3> QED
      BY <3>5, <3>7 DEF Steady
  <2>30. ASSUME NEW i \in Ids, Remove(c, i) PROVE Steady'
    <3>1. /\ envelope' = envelope /\ page' = page /\ cached' = cached /\ put' = put
          /\ store' = [store EXCEPT ![i] = Absent] /\ form' = Missed(i)
      BY <2>30 DEF Remove
    <3>2. ASSUME NEW d \in Clients PROVE Own(d)' /\ (form[d].pc = "migrate" => form'[d].pc = "migrate")
      <4>1. Alike(form[d], form'[d])
        BY <1>t, <3>1, MissedForms
      <4>2. ~Migrating(d) => form'[d] = form[d]
        BY <3>1 DEF Missed
      <4>3. Migrating(d) => \A j \in form'[d].missed : store'[j] = Absent
        <5> SUFFICES ASSUME Migrating(d), NEW j \in form'[d].missed PROVE store'[j] = Absent
          OBVIOUS
        <5>1. j \in form[d].missed \cup {i}
          BY <1>t, <3>1, MissedForms
        <5>2. form[d] \in Form /\ form[d].missed \subseteq Ids
          BY <1>t DEF Migrating, NoForm, Form
        <5> QED
          BY <1>t, <2>4, <3>1, <5>1, <5>2 DEF Own, Blobs
      <4> QED
        BY <2>4, <3>1, <4>1, <4>2, <4>3, OwnStays DEF Alike
    <3>3. \A j \in Present(store)' : store'[j] = store[j] /\ j \in Present(store)
      BY <1>t, <3>1 DEF Present, Blobs
    <3>4. (\A d \in Clients : form'[d].pc # "migrate") => \A d \in Clients : form[d].pc # "migrate"
      BY <3>2
    <3>5. Whole'
      BY <2>2, <2>5, <3>1, <3>3, <3>4 DEF Whole, Readable
    <3> QED
      BY <3>2, <3>5 DEF Steady
  <2> QED
    BY <2>1, <2>10, <2>11, <2>12, <2>13, <2>14, <2>15, <2>16, <2>17, <2>18, <2>19, <2>20, <2>21,
       <2>22, <2>23, <2>24, <2>25, <2>26, <2>27, <2>28, <2>29, <2>30 DEF Step
<1> QED
  BY <1>0, <1>z

\* EX-PASS-1 as far as the code goes: until something fails or crosses, every record opens
\* under the envelope's key whenever nothing is in flight, in any number of browsers used
\* one after the other and after any number of changes of the passphrase.
THEOREM ReadableInTurn == Spec => []ReadableUncrossed
<1>1. Init => CalmInv
  BY InitCalm
<1>2. Inv /\ CalmInv /\ [Next]_vars => CalmInv'
  BY StepCalm
<1>3. TypeOK /\ CalmInv => ReadableUncrossed
  <2> SUFFICES ASSUME TypeOK, CalmInv, Quiet, faults = 0, ~crossed PROVE Readable
    BY DEF ReadableUncrossed
  <2>1. \A c \in Clients : form[c].pc # "migrate"
    BY DEF Quiet, Busy, NoForm
  <2> QED
    BY <2>1 DEF CalmInv, Calm, Steady, Whole
<1> QED
  BY <1>1, <1>2, <1>3, Invariance, TypeCorrect, PTL DEF Spec

=============================================================================
