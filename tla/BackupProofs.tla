----------------------------- MODULE BackupProofs -----------------------------
(* Proofs about Backup, for any browsers, passphrases, records and bounds.    *)
EXTENDS Backup, VaultKeysProofs

-----------------------------------------------------------------------------
(* The inductive invariant: that of VaultKeys, the types, and what is known of a   *)
(* file, wherever it is.                                                         *)

Types ==
    /\ export \in [Clients -> {NoExport} \cup Export]
    /\ file \in {NoFile} \cup File
    /\ restore \in [Clients -> {NoRestore} \cup Restore]
    /\ moved \in BOOLEAN

\* An envelope and records outside the server: no key in them is still to be derived,
\* and the new key of a change under way is in records only that it is done with.
Safe(env, records, keys, forms) ==
    /\ env \in 0..keys
    /\ \A i \in Present(records) : records[i].key \in 0..keys
    /\ \A c \in Clients : forms[c].pc \in {"list", "migrate"} =>
          /\ env # forms[c].new
          /\ \A i \in Present(records) : records[i].key = forms[c].new =>
                forms[c].pc = "migrate" /\ i \notin Present(forms[c].todo)

SafeNow(b) == Safe(b.env, b.records, Len(derived), form)

Bundles ==
    /\ \A c \in Clients : Exporting(c) =>
          /\ SafeNow(export[c])
          /\ "vault" \notin export[c].unread => export[c].env # 0
    /\ file # NoFile => SafeNow(file)
    /\ \A c \in Clients : Restoring(c) => SafeNow(restore[c]) /\ restore[c].env # 0

\* What a restore has put is there, but for what others wrote since; nothing is put
\* before the envelope is.
Restored ==
    \A c \in Clients : Restoring(c) =>
        \A i \in Present(restore[c].records) :
            \/ i \in restore[c].todo
            \/ /\ restore[c].pc = "records"
               /\ i \in restore[c].written \/ store[i] = restore[c].records[i]

\* What a download has read so far goes with the envelope of the account, but for the
\* records its history names.
ExportAgrees(c) ==
    Exporting(c) /\ export[c].odd # Ids =>
        /\ "vault" \notin export[c].unread => export[c].env = envelope
        /\ \A i \in Present(export[c].records) \ export[c].odd :
              envelope # 0 /\ export[c].records[i].key = envelope

\* A restore that nothing has overtaken puts records of the account's own envelope.
RestoreAgrees(c) ==
    restore[c].pc = "records" /\ ~restore[c].overtaken => restore[c].env = envelope

Agreed == FileOpens /\ \A c \in Clients : ExportAgrees(c) /\ RestoreAgrees(c)

BackupInv == Inv /\ Types /\ Bundles /\ Restored /\ Agreed

-----------------------------------------------------------------------------
(* The initial states.                                                     *)

\* The initial states satisfy it.
LEMMA BackupInitInv == BackupInit => BackupInv
<1> SUFFICES ASSUME BackupInit PROVE BackupInv
    OBVIOUS
<1>1. Inv
    BY InitInv DEF BackupInit
<1>2. Types /\ Bundles /\ Restored /\ Agreed
    BY DEF BackupInit, Types, Bundles, Restored, Agreed, Exporting, Restoring, NoRestore, FileOpens,
       ExportAgrees, RestoreAgrees
<1> QED
    BY <1>1, <1>2 DEF BackupInv

-----------------------------------------------------------------------------
(* A file stays safe whatever the browsers do.                             *)

\* No step forgets a key, and a change that lists or migrates did so before or has
\* just made its key.
FormsGrow ==
    /\ Len(derived) \in Nat /\ Len(derived') \in Nat /\ Len(derived') >= Len(derived)
    /\ \A c \in Clients : Private(c)' =>
          \/ /\ Private(c) /\ form'[c].new = form[c].new
             /\ form[c].pc = "migrate" =>
                   form'[c].pc = "migrate" /\ Present(form'[c].todo) \subseteq Present(form[c].todo)
          \/ form'[c].new > Len(derived)

\* Each step of a browser is such a step.
LEMMA StepFormsGrow == Inv /\ [Next]_vars => FormsGrow
<1> SUFFICES ASSUME Inv, [Next]_vars PROVE FormsGrow
    OBVIOUS
<1>t. /\ Len(derived) \in Nat /\ form \in [Clients -> {NoForm} \cup Form]
      /\ derived \in Seq([pass : Passphrases, by : {"setup", "change"}])
    BY DEF Inv, TypeOK
<1>1. ASSUME derived' = derived, \A c \in Clients : Alike(form[c], form'[c]) \/ ~Private(c)'
      PROVE  FormsGrow
    BY <1>1, <1>t DEF FormsGrow, Private, Alike
<1>2. CASE UNCHANGED vars
    BY <1>1, <1>2 DEF vars, Alike
<1>3. ASSUME NEW c \in Clients,
             \/ Enter(c) \/ EnterBlind(c) \/ Reload(c) \/ IdleLock(c) \/ SignOut(c) \/ SignOutLost(c)
             \/ UnlockOpen(c) \/ ChangeRefused(c) \/ ChangeCache(c) \/ Abandon(c) \/ SaveLost(c)
      PROVE  FormsGrow
    BY <1>1, <1>3, <1>t DEF Enter, EnterBlind, Reload, IdleLock, SignOut, SignOutLost, UnlockOpen,
       ChangeRefused, ChangeCache, Abandon, SaveLost, Private, NoForm, Alike
<1>4. ASSUME NEW c \in Clients, NEW p \in Passphrases, SetupDerive(c, p)
      PROVE  FormsGrow
    BY <1>4, <1>t DEF SetupDerive, FormsGrow, Private
<1>5. ASSUME NEW c \in Clients, NEW p \in Passphrases, NEW q \in Passphrases,
             UnlockRead(c, p) \/ ChangeRead(c, p, q)
      PROVE  FormsGrow
    BY <1>1, <1>5, <1>t DEF UnlockRead, ChangeRead, Private, Alike
<1>6. ASSUME NEW c \in Clients, NEW ok \in BOOLEAN, SetupCreate(c, ok) \/ ChangeSwap(c, ok)
      PROVE  FormsGrow
  <2>1. CASE SetupCreate(c, ok)
    BY <1>1, <1>t, <2>1 DEF SetupCreate, Private, NoForm, Alike
  <2>2. CASE ChangeSwap(c, ok)
    <3>1. form[c] \in Form
      BY <2>2, <1>t DEF ChangeSwap, NoForm
    <3>2. derived' = derived /\ ~Private(c)' /\ \A d \in Clients \ {c} : form'[d] = form[d]
      BY <2>2, <1>t, <3>1 DEF ChangeSwap, Private, NoForm, Form
    <3> QED
      BY <1>1, <3>2 DEF Alike
  <2> QED
    BY <1>6, <2>1, <2>2
<1>7. ASSUME NEW c \in Clients, ChangeVerify(c)
      PROVE  FormsGrow
  <2>1. form[c] \in Form
    BY <1>7, <1>t DEF ChangeVerify, NoForm
  <2>2. form'[c].new = Len(derived) + 1 /\ \A d \in Clients \ {c} : form'[d] = form[d]
    BY <1>7, <1>t, <2>1 DEF ChangeVerify, NewKey, Form
  <2>3. Len(derived') = Len(derived) + 1
    BY <1>7, <1>t, <2>1 DEF ChangeVerify, Form
  <2> QED
    BY <1>t, <2>2, <2>3 DEF FormsGrow, Private
<1>8. ASSUME NEW c \in Clients, NEW k \in Kinds, ChangeList(c, k)
      PROVE  FormsGrow
  <2>1. form[c] \in Form /\ form[c].pc = "list"
    BY <1>8, <1>t DEF ChangeList, NoForm
  <2>2. derived' = derived /\ form'[c].new = form[c].new /\ \A d \in Clients \ {c} : form'[d] = form[d]
    BY <1>8, <1>t, <2>1 DEF ChangeList, Listed, Form
  <2> QED
    BY <1>t, <2>1, <2>2 DEF FormsGrow, Private
<1>9. ASSUME NEW c \in Clients, ChangeListed(c)
      PROVE  FormsGrow
  <2>1. form[c] \in Form /\ form[c].pc = "list"
    BY <1>9, <1>t DEF ChangeListed, NoForm
  <2>2. derived' = derived /\ form'[c].new = form[c].new /\ \A d \in Clients \ {c} : form'[d] = form[d]
    BY <1>9, <1>t, <2>1 DEF ChangeListed, Form
  <2> QED
    BY <1>t, <2>1, <2>2 DEF FormsGrow, Private
<1>10. ASSUME NEW c \in Clients, NEW i \in Ids, NEW ok \in BOOLEAN, ChangePut(c, i, ok)
       PROVE  FormsGrow
  <2>1. form[c] \in Form /\ form[c].pc = "migrate"
    BY <1>10, <1>t DEF ChangePut, NoForm
  <2>2. derived' = derived /\ \A d \in Clients \ {c} : Alike(form[d], form'[d])
    BY <1>10, <1>t, MissedForms DEF ChangePut
  <2>3. form'[c] \in {NoForm, [form[c] EXCEPT !.todo[i] = Absent, !.missed = @ \ {i}]}
    BY <1>10, <1>t, MissedForms DEF ChangePut
  <2>4. ASSUME form'[c] # NoForm
        PROVE  /\ form'[c].pc = "migrate" /\ form'[c].new = form[c].new
               /\ Present(form'[c].todo) \subseteq Present(form[c].todo)
    <3>1. form'[c].pc = "migrate" /\ form'[c].new = form[c].new
          /\ form'[c].todo = [form[c].todo EXCEPT ![i] = Absent]
      BY <2>1, <2>3, <2>4 DEF Form
    <3> QED
      BY <2>1, <3>1 DEF Form, Blobs, Present
  <2> QED
    BY <1>t, <2>1, <2>2, <2>4 DEF FormsGrow, Private, NoForm, Alike
<1>11. ASSUME NEW c \in Clients, NEW i \in Ids, ChangeStuck(c, i) \/ SaveBegin(c, i)
       PROVE  FormsGrow
    BY <1>1, <1>11, <1>t DEF ChangeStuck, SaveBegin, Private, NoForm, Alike
<1>12. ASSUME NEW i \in Ids, form' = Missed(i), derived' = derived
       PROVE  FormsGrow
    BY <1>1, <1>12, <1>t, MissedForms
<1>13. ASSUME NEW c \in Clients, SaveArrive(c)
       PROVE  FormsGrow
  <2>1. put[c].id \in Ids
    BY <1>13 DEF SaveArrive, Sending, Inv, TypeOK, Put
  <2> QED
    BY <1>12, <1>13, <2>1 DEF SaveArrive
<1>14. ASSUME NEW c \in Clients, NEW i \in Ids, Remove(c, i)
       PROVE  FormsGrow
    BY <1>12, <1>14 DEF Remove
<1> QED
    BY <1>2, <1>3, <1>4, <1>5, <1>6, <1>7, <1>8, <1>9, <1>10, <1>11, <1>13, <1>14 DEF Next, Step

\* What is safe stays so.
LEMMA SafeStays ==
    ASSUME FormsGrow, NEW env, NEW records, Safe(env, records, Len(derived), form)
    PROVE  Safe(env, records, Len(derived'), form')
BY DEF FormsGrow, Safe, Private

\* What the server has is safe, whichever part of it is read.
LEMMA StoreSafe ==
    ASSUME Inv
    PROVE  /\ envelope \in 0..Len(derived)
           /\ \A i \in Present(store) : store[i].key \in 0..Len(derived)
           /\ \A c \in Clients : Private(c) =>
                 /\ envelope # form[c].new
                 /\ \A i \in Present(store) : store[i].key = form[c].new =>
                       form[c].pc = "migrate" /\ i \notin Present(form[c].todo)
BY DEF Inv, TypeOK, KeysKnown, FormsKnown, NewFresh, Private, Making

-----------------------------------------------------------------------------
(* Each step keeps the invariant.  First that of VaultKeys.                  *)

\* A download or a restore that begins, goes on or ends leaves the server and the
\* forms alone, but for the two calls of a restore that write.
LEMMA FaultOnly ==
    ASSUME Inv, faults' \in Nat,
           UNCHANGED <<envelope, store, derived, saves, cached, page, form, put, held, crossed>>
    PROVE  Inv'
BY DEF Inv, TypeOK, KeysKnown, FormsKnown, NewApart, NewFresh, Copied, Making, Reading, Private,
       Migrating, Present

\* Each step keeps the invariant of VaultKeys.
LEMMA BackupStepInv == BackupInv /\ [BackupNext]_allVars => Inv'
<1> SUFFICES ASSUME BackupInv, [BackupNext]_allVars PROVE Inv'
    OBVIOUS
<1>i. Inv /\ Types /\ Bundles
    BY DEF BackupInv
<1>f. faults \in Nat
    BY <1>i DEF Inv, TypeOK
<1>1. CASE UNCHANGED vars
    BY <1>1, <1>i, <1>f, FaultOnly DEF vars
<1>2. CASE VaultStep
    BY <1>2, <1>i, StepTypes, StepKeys, StepCopied DEF VaultStep, Inv, Keys
<1>3. CASE NewServer
  <2>1. /\ \A c \in Clients : form'[c] = NoForm /\ put'[c] = NoPut
        /\ envelope' = 0 /\ held' = {} /\ store' = Empty
        /\ UNCHANGED <<derived, saves, form, put, faults, crossed>>
        /\ cached' = [c \in Clients |-> 0] /\ page' = [c \in Clients |-> "out"]
    BY <1>3 DEF NewServer, Quiet, Busy, Sending
  <2>2. TypeOK'
    BY <1>i, <2>1 DEF Inv, TypeOK, Empty, Blobs, Pages
  <2>3. Present(store') = {}
    BY <2>1 DEF Present, Empty
  <2> QED
    BY <2>1, <2>2, <2>3 DEF Inv, KeysKnown, FormsKnown, NewApart, NewFresh, Copied, Making, Reading,
       Private, Migrating, NoForm
<1>4. ASSUME NEW c \in Clients, NEW ok \in BOOLEAN, RestoreEnvelope(c, ok)
      PROVE  Inv'
  <2>1. /\ restore[c].env \in 1..Len(derived)
        /\ \A d \in Clients : Private(d) => restore[c].env # form[d].new
    <3>1. Restoring(c)
      BY <1>4 DEF RestoreEnvelope, Restoring, NoRestore
    <3>2. SafeNow(restore[c]) /\ restore[c].env # 0
      BY <1>i, <3>1 DEF Bundles
    <3>3. Len(derived) \in Nat
      BY <1>i DEF Inv, TypeOK
    <3> QED
      BY <3>2, <3>3 DEF SafeNow, Safe, Private
  <2>2. /\ envelope' = IF envelope = 0 THEN restore[c].env ELSE envelope
        /\ held' = held \cup {envelope'} /\ faults' \in Nat
        /\ UNCHANGED <<store, derived, saves, cached, page, form, put, crossed>>
    BY <1>4, <1>f DEF RestoreEnvelope, Created, Faulty
  <2>3. TypeOK'
    <3>1. envelope \in 0..Len(derived) /\ Len(derived) \in Nat /\ held \subseteq 1..Len(derived)
      BY <1>i DEF Inv, TypeOK
    <3>2. envelope' \in 1..Len(derived)
      BY <2>1, <2>2, <3>1
    <3>3. held' \subseteq 1..Len(derived')
      BY <2>2, <3>1, <3>2
    <3> QED
      BY <1>i, <2>2, <3>2, <3>3 DEF Inv, TypeOK
  <2>4. KeysKnown' /\ FormsKnown' /\ NewApart' /\ Copied'
    BY <1>i, <2>2 DEF Inv, KeysKnown, FormsKnown, NewApart, Copied, Making, Reading, Migrating, Present
  <2>5. NewFresh'
    <3>1. \A d \in Clients : Private(d) => envelope' # form[d].new
      BY <1>i, <2>1, <2>2, StoreSafe
    <3> QED
      BY <1>i, <2>2, <3>1 DEF Inv, NewFresh, Private, Present
  <2> QED
    BY <2>3, <2>4, <2>5 DEF Inv
<1>5. ASSUME NEW c \in Clients, NEW i \in Ids, NEW ok \in BOOLEAN, RestorePut(c, i, ok)
      PROVE  Inv'
  <2>1. Restoring(c)
    BY <1>5 DEF RestorePut, Restoring, NoRestore
  <2>2. restore[c].records[i] \in Blob \cup {Absent}
    BY <1>i, <2>1 DEF Types, Restoring, Restore, Blobs
  <2>3. restore[c].records[i] # Absent =>
          /\ restore[c].records[i].key \in 0..Len(derived)
          /\ \A d \in Clients : Private(d) /\ restore[c].records[i].key = form[d].new =>
                form[d].pc = "migrate" /\ i \notin Present(form[d].todo)
    BY <1>i, <2>1 DEF Bundles, SafeNow, Safe, Present, Private
  <2>4. /\ store' = [store EXCEPT ![i] = restore[c].records[i]] /\ faults' \in Nat
        /\ form' = Missed(i)
        /\ UNCHANGED <<envelope, derived, saves, cached, page, put, held, crossed>>
    BY <1>5, <1>f DEF RestorePut, Faulty
  <2>m. /\ form' \in [Clients -> {NoForm} \cup Form]
        /\ \A d \in Clients : Alike(form[d], form'[d])
    BY <1>i, <2>4, MissedForms DEF Inv, TypeOK
  <2>5. TypeOK'
    BY <1>i, <2>2, <2>4, <2>m DEF Inv, TypeOK, Blobs
  <2>6. \A j \in Present(store') :
           \/ j \in Present(store) /\ store'[j] = store[j]
           \/ j = i /\ restore[c].records[i] # Absent /\ store'[j] = restore[c].records[i]
    BY <1>i, <2>4 DEF Inv, TypeOK, Blobs, Present
  <2>7. KeysKnown' /\ FormsKnown' /\ NewApart'
    <3>1. KeysKnown'
      BY <1>i, <2>3, <2>4, <2>6 DEF Inv, KeysKnown
    <3>2. FormsKnown'
      BY <1>i, <2>4, <2>m DEF Inv, FormsKnown, Making, Reading, Migrating, Alike
    <3>3. NewApart'
      BY <1>i, <2>m DEF Inv, NewApart, Making, Alike
    <3> QED
      BY <3>1, <3>2, <3>3
  <2>8. NewFresh'
    <3>1. ASSUME NEW d \in Clients, Private(d), NEW j \in Present(store'), store'[j].key = form[d].new
          PROVE  form[d].pc = "migrate" /\ j \notin Present(form[d].todo)
      BY <1>i, <2>3, <2>6, <3>1 DEF Inv, NewFresh
    <3>2. \A d \in Clients : Private(d)' => Private(d)
      BY <2>m DEF Private, Alike
    <3> SUFFICES ASSUME NEW d \in Clients, Private(d)'
                 PROVE  /\ form'[d].new \notin held'
                        /\ \A e \in Clients : cached'[e] # form'[d].new
                        /\ \A e \in Clients : put'[e] # NoPut => put'[e].key # form'[d].new
                        /\ \A j \in Present(store') : store'[j].key = form'[d].new =>
                              form'[d].pc = "migrate" /\ j \notin Present(form'[d].todo)
      BY DEF NewFresh
    <3>3. /\ Private(d) /\ form'[d].new = form[d].new /\ form'[d].pc = form[d].pc
          /\ form'[d].todo = form[d].todo
      BY <2>m, <3>2 DEF Alike
    <3> QED
      BY <1>i, <2>4, <3>1, <3>3 DEF Inv, NewFresh
  <2>9. Copied'
    <3>1. ASSUME NEW d \in Clients PROVE CopiedOf(d)'
      <4>1. /\ CopiedOf(d) /\ Alike(form[d], form'[d])
            /\ Migrating(d) => form[d].missed \subseteq form'[d].missed
        BY <1>i, <2>4, <2>m, MissedForms DEF Inv, Copied, CopiedOf, TypeOK
      <4>2. Migrating(d) => \A j \in Ids : \/ store'[j] = store[j]
                                           \/ KindOf(j) \in form[d].kinds
                                           \/ j \in form'[d].missed
        BY <1>i, <2>4, MissedForms DEF Inv, TypeOK, Blobs
      <4> QED
        BY <4>1, <4>2, CopiedStays
    <3> QED
      BY <3>1 DEF Copied, CopiedOf
  <2> QED
    BY <2>5, <2>7, <2>8, <2>9 DEF Inv
<1>6. ASSUME NEW c \in Clients, RestoreDone(c)
      PROVE  Inv'
  <2>1. page' \in [Clients -> Pages]
        /\ UNCHANGED <<envelope, store, derived, saves, cached, form, put, held, faults, crossed>>
    BY <1>6, <1>i DEF RestoreDone, Inv, TypeOK, Pages
  <2> QED
    BY <1>i, <2>1 DEF Inv, TypeOK, KeysKnown, FormsKnown, NewApart, NewFresh, Copied, Making, Reading,
       Private, Migrating, Present
<1>7. ASSUME NEW c \in Clients, ExportLost(c) \/ RestoreLost(c)
      PROVE  Inv'
    BY <1>7, <1>i, <1>f, FaultOnly DEF ExportLost, RestoreLost
<1>8. ASSUME NEW c \in Clients,
             ExportBegin(c) \/ ExportEnvelope(c) \/ ExportDone(c) \/ RestoreHelp(c) \/ RestoreSetup(c)
      PROVE  UNCHANGED vars
    BY <1>8 DEF ExportBegin, ExportEnvelope, ExportDone, RestoreHelp, RestoreSetup, Restores
<1>9. ASSUME NEW c \in Clients, NEW k \in Kinds, ExportList(c, k)
      PROVE  UNCHANGED vars
    BY <1>9 DEF ExportList
<1>10. CASE UNCHANGED allVars
    BY <1>1, <1>10 DEF allVars
<1> QED
    BY <1>1, <1>2, <1>3, <1>4, <1>5, <1>6, <1>7, <1>8, <1>9, <1>10
    DEF BackupNext, ExportSteps, RestoreSteps

-----------------------------------------------------------------------------
(* Then the types.                                                         *)

\* What others write while a restore goes on is noted in it, no more.
LEMMA NotedRestore ==
    ASSUME Types, NEW c \in Clients, Restoring(c), NEW changed
    PROVE  /\ Noted(c, changed) \in Restore
           /\ Noted(c, changed) # NoRestore
           /\ Noted(c, changed).pc = restore[c].pc
           /\ Noted(c, changed).env = restore[c].env
           /\ Noted(c, changed).records = restore[c].records
           /\ Noted(c, changed).todo = restore[c].todo
           /\ Noted(c, changed).written =
                 restore[c].written \cup (changed \cap (Present(restore[c].records) \ restore[c].todo))
           /\ Noted(c, changed).overtaken = (restore[c].overtaken \/ envelope' # envelope)
<1>1. restore[c] \in Restore
    BY DEF Types, Restoring
<1>2. Noted(c, changed) \in Restore
    BY <1>1 DEF Noted, Restore, Present
<1> QED
    BY <1>1, <1>2 DEF Noted, Restore, NoRestore

\* Each step keeps the types.
LEMMA BackupStepTypes == BackupInv /\ [BackupNext]_allVars => Types'
<1> SUFFICES ASSUME BackupInv, [BackupNext]_allVars PROVE Types'
    OBVIOUS
<1>i. Inv /\ Types /\ Bundles
    BY DEF BackupInv
<1>e. export \in [Clients -> {NoExport} \cup Export]
    BY <1>i DEF Types
<1>r. restore \in [Clients -> {NoRestore} \cup Restore]
    BY <1>i DEF Types
<1>f. file \in {NoFile} \cup File
    BY <1>i DEF Types
<1>0. CASE UNCHANGED allVars
    BY <1>0, <1>i DEF allVars, backup, Types
<1>1. CASE VaultStep
  <2>1. \A c \in Clients : export'[c] \in {NoExport} \cup Export
    BY <1>1, <1>e DEF VaultStep, Exporting, Export
  <2>2. \A c \in Clients : restore'[c] \in {NoRestore} \cup Restore
    BY <1>1, <1>i, NotedRestore DEF VaultStep
  <2>3. /\ export' = [c \in Clients |-> export'[c]] /\ restore' = [c \in Clients |-> restore'[c]]
    BY <1>1 DEF VaultStep
  <2>4. export' \in [Clients -> {NoExport} \cup Export] /\ restore' \in [Clients -> {NoRestore} \cup Restore]
    BY <2>1, <2>2, <2>3
  <2> QED
    BY <1>1, <1>i, <2>3, <2>4 DEF VaultStep, Types
<1>2. CASE NewServer
    BY <1>2, <1>i DEF NewServer, Types
<1>3. ASSUME NEW c \in Clients, ExportBegin(c)
      PROVE  Types'
  <2>1. [unread |-> Kinds \cup {"vault"}, env |-> 0, records |-> Empty, odd |-> {}] \in Export
    BY DEF Export, Empty, Blobs
  <2> QED
    BY <1>3, <1>i, <2>1 DEF ExportBegin, Types
<1>4. ASSUME NEW c \in Clients, ExportEnvelope(c)
      PROVE  Types'
  <2>1. export[c] \in Export /\ envelope \in Nat
    BY <1>4, <1>e, <1>i DEF ExportEnvelope, Exporting, Inv, TypeOK
  <2>2. Fetched(export[c]) \in {NoExport} \cup Export
    BY <2>1 DEF Fetched, Export
  <2> QED
    BY <1>4, <1>i, <2>2 DEF ExportEnvelope, Types
<1>5. ASSUME NEW c \in Clients, NEW k \in Kinds, ExportList(c, k)
      PROVE  Types'
  <2>1. export[c] \in Export /\ store \in Blobs
    BY <1>5, <1>e, <1>i DEF ExportList, Exporting, Inv, TypeOK
  <2>2. Listing(export[c].records, k) \in Blobs
    BY <2>1 DEF Listing, Export, Blobs
  <2>3. [export[c] EXCEPT !.unread = @ \ {k}, !.records = Listing(@, k), !.odd = @ \cup Odd(k)] \in Export
    BY <2>1, <2>2 DEF Export, Odd, Present
  <2>4. export' \in [Clients -> {NoExport} \cup Export]
    BY <1>5, <1>e, <2>3 DEF ExportList
  <2> QED
    BY <1>5, <1>i, <2>4 DEF ExportList, Types
<1>6. ASSUME NEW c \in Clients, ExportDone(c)
      PROVE  Types'
  <2>1. export[c] \in Export /\ export[c].env # 0
    BY <1>6, <1>e, <1>i DEF ExportDone, Exporting, Gathered, Bundles
  <2>2. file' \in File
    BY <1>6, <2>1 DEF ExportDone, File, Export
  <2> QED
    BY <1>6, <1>i, <2>2 DEF ExportDone, Types
<1>7. ASSUME NEW c \in Clients, ExportLost(c)
      PROVE  Types'
    BY <1>7, <1>i DEF ExportLost, Types
<1>8. ASSUME NEW c \in Clients, RestoreHelp(c) \/ RestoreSetup(c)
      PROVE  Types'
  <2>1. PICK pc \in {"envelope", "records"} : Restores(c, pc) /\ Parsed(file)
    BY <1>8 DEF RestoreHelp, RestoreSetup
  <2>2. file \in File
    BY <1>f, <2>1 DEF Parsed
  <2>3. [pc |-> pc, env |-> file.env, records |-> file.records,
           todo |-> Present(file.records), written |-> {},
           overtaken |-> pc = "records" /\ cached[c] # envelope] \in Restore
    BY <2>2 DEF File, Restore, Present
  <2> QED
    BY <2>1, <2>3, <1>i DEF Restores, Types
<1>9. ASSUME NEW c \in Clients, NEW ok \in BOOLEAN, RestoreEnvelope(c, ok)
      PROVE  Types'
  <2>1. restore[c] \in Restore
    BY <1>9, <1>r DEF RestoreEnvelope, NoRestore
  <2>2. [restore[c] EXCEPT !.pc = "records"] \in Restore
    BY <2>1 DEF Restore
  <2> QED
    BY <1>9, <1>i, <2>2 DEF RestoreEnvelope, Types
<1>10. ASSUME NEW c \in Clients, NEW i \in Ids, NEW ok \in BOOLEAN, RestorePut(c, i, ok)
       PROVE  Types'
  <2>1. restore[c] \in Restore
    BY <1>10, <1>r DEF RestorePut, NoRestore
  <2>2. [restore[c] EXCEPT !.todo = @ \ {i}] \in Restore
    BY <2>1 DEF Restore
  <2>3. \A d \in Clients : restore'[d] \in {NoRestore} \cup Restore
    BY <1>10, <1>i, <2>2, NotedRestore DEF RestorePut
  <2>4. restore' \in [Clients -> {NoRestore} \cup Restore]
    BY <1>10, <2>3 DEF RestorePut
  <2> QED
    BY <1>10, <1>i, <2>4 DEF RestorePut, Types
<1>11. ASSUME NEW c \in Clients, RestoreDone(c) \/ RestoreLost(c)
       PROVE  Types'
    BY <1>11, <1>i DEF RestoreDone, RestoreLost, Types
<1> QED
    BY <1>0, <1>1, <1>2, <1>3, <1>4, <1>5, <1>6, <1>7, <1>8, <1>9, <1>10, <1>11
    DEF BackupNext, ExportSteps, RestoreSteps

-----------------------------------------------------------------------------
(* Then what is known of the files.                                        *)

\* No step forgets a key.
LEMMA BackupFormsGrow == BackupInv /\ [BackupNext]_allVars => FormsGrow
<1> SUFFICES ASSUME BackupInv, [BackupNext]_allVars PROVE FormsGrow
    OBVIOUS
<1>i. Inv /\ Len(derived) \in Nat
    BY DEF BackupInv, Inv, TypeOK
<1>1. CASE VaultStep
    BY <1>1, <1>i, StepFormsGrow DEF VaultStep
<1>2. CASE UNCHANGED <<derived, form>>
    BY <1>2, <1>i DEF FormsGrow, Private
<1>3. CASE UNCHANGED allVars
    BY <1>2, <1>3 DEF allVars, vars
<1>4. CASE NewServer
    BY <1>2, <1>4 DEF NewServer
<1>5. ASSUME NEW c \in Clients,
             \/ ExportBegin(c) \/ ExportEnvelope(c) \/ ExportDone(c) \/ ExportLost(c)
             \/ RestoreHelp(c) \/ RestoreSetup(c) \/ RestoreDone(c) \/ RestoreLost(c)
      PROVE  UNCHANGED <<derived, form>>
    BY <1>5 DEF ExportBegin, ExportEnvelope, ExportDone, ExportLost, RestoreHelp, RestoreSetup,
       Restores, RestoreDone, RestoreLost, vars
<1>6. ASSUME NEW c \in Clients, NEW k \in Kinds, ExportList(c, k)
      PROVE  UNCHANGED <<derived, form>>
    BY <1>6 DEF ExportList, vars
<1>7. ASSUME NEW c \in Clients, NEW ok \in BOOLEAN, RestoreEnvelope(c, ok)
      PROVE  UNCHANGED <<derived, form>>
    BY <1>7 DEF RestoreEnvelope
<1>8. ASSUME NEW c \in Clients, NEW i \in Ids, NEW ok \in BOOLEAN, RestorePut(c, i, ok)
      PROVE  FormsGrow
  <2>1. derived' = derived /\ \A d \in Clients : Alike(form[d], form'[d])
    BY <1>8, <1>i, MissedForms DEF RestorePut, Inv, TypeOK
  <2> QED
    BY <1>i, <2>1 DEF FormsGrow, Private, Alike
<1> QED
    BY <1>1, <1>2, <1>3, <1>4, <1>5, <1>6, <1>7, <1>8 DEF BackupNext, ExportSteps, RestoreSteps

\* Each step keeps what is in a file, a download or a restore safe.
LEMMA StepBundles == BackupInv /\ [BackupNext]_allVars => Bundles'
<1> SUFFICES ASSUME BackupInv, [BackupNext]_allVars PROVE Bundles'
    OBVIOUS
<1>i. Inv /\ Types /\ Bundles
    BY DEF BackupInv
<1>e. export \in [Clients -> {NoExport} \cup Export]
    BY <1>i DEF Types
<1>r. restore \in [Clients -> {NoRestore} \cup Restore]
    BY <1>i DEF Types
<1>g. \A env, records : Safe(env, records, Len(derived), form) => Safe(env, records, Len(derived'), form')
    BY BackupFormsGrow, SafeStays
<1> DEFINE ExportKept(d) == /\ export'[d] # NoExport =>
                               /\ Safe(export'[d].env, export'[d].records, Len(derived'), form')
                               /\ "vault" \notin export'[d].unread => export'[d].env # 0
           FileKept == file' # NoFile => Safe(file'.env, file'.records, Len(derived'), form')
           RestoreKept(d) == restore'[d] # NoRestore =>
                               /\ Safe(restore'[d].env, restore'[d].records, Len(derived'), form')
                               /\ restore'[d].env # 0
<1>q. ASSUME \A d \in Clients : ExportKept(d) /\ RestoreKept(d), FileKept
      PROVE  Bundles'
    BY <1>q DEF Bundles, Exporting, Restoring, SafeNow
<1>o. ASSUME NEW d \in Clients,
             export'[d] # NoExport =>
                /\ Exporting(d) /\ export'[d].unread = export[d].unread
                /\ export'[d].env = export[d].env /\ export'[d].records = export[d].records
      PROVE  ExportKept(d)
    BY <1>i, <1>g, <1>o DEF Bundles, SafeNow
<1>x. \A d \in Clients : export'[d] \in {export[d], NoExport} => ExportKept(d)
    BY <1>o DEF Exporting
<1>y. file' = file => FileKept
    BY <1>i, <1>g DEF Bundles, SafeNow
<1>z. ASSUME NEW d \in Clients,
             restore'[d] # NoRestore =>
                Restoring(d) /\ restore'[d].env = restore[d].env /\ restore'[d].records = restore[d].records
      PROVE  RestoreKept(d)
    BY <1>i, <1>g, <1>z DEF Bundles, SafeNow
<1>w. \A d \in Clients : restore'[d] \in {restore[d], NoRestore} => RestoreKept(d)
    BY <1>z DEF Restoring
<1> HIDE DEF ExportKept, FileKept, RestoreKept
<1>0. CASE UNCHANGED backup
    BY <1>0, <1>q, <1>x, <1>y, <1>w DEF backup
<1>1. CASE VaultStep
  <2>1. \A d \in Clients : ExportKept(d)
    BY <1>1, <1>e, <1>o DEF VaultStep, Exporting, Export
  <2>2. \A d \in Clients : RestoreKept(d)
    BY <1>1, <1>i, <1>z, NotedRestore DEF VaultStep
  <2> QED
    BY <1>1, <1>q, <1>y, <2>1, <2>2 DEF VaultStep
<1>2. CASE NewServer
  <2>1. \A d \in Clients : export'[d] = NoExport /\ restore'[d] = NoRestore
    BY <1>2 DEF NewServer
  <2> QED
    BY <1>2, <1>q, <1>x, <1>y, <1>w, <2>1 DEF NewServer
<1>3. ASSUME NEW c \in Clients, NEW e,
             export' = [export EXCEPT ![c] = e], UNCHANGED <<file, restore>>, ExportKept(c)
      PROVE  Bundles'
  <2>1. \A d \in Clients \ {c} : export'[d] = export[d]
    BY <1>3, <1>e
  <2> QED
    BY <1>3, <1>q, <1>x, <1>y, <1>w, <2>1
<1>4. ASSUME NEW c \in Clients, ExportBegin(c)
      PROVE  Bundles'
  <2>1. export'[c] = [unread |-> Kinds \cup {"vault"}, env |-> 0, records |-> Empty, odd |-> {}]
    BY <1>4, <1>e DEF ExportBegin
  <2>2. Safe(0, Empty, Len(derived), form)
    BY <1>i DEF Inv, TypeOK, FormsKnown, Making, Safe, Present, Empty
  <2>3. ExportKept(c)
    BY <1>g, <2>1, <2>2 DEF ExportKept
  <2> QED
    BY <1>3, <1>4, <2>3 DEF ExportBegin
<1>5. ASSUME NEW c \in Clients, ExportEnvelope(c)
      PROVE  Bundles'
  <2>1. export[c] \in Export /\ SafeNow(export[c]) /\ export'[c] = Fetched(export[c])
    BY <1>5, <1>i, <1>e DEF ExportEnvelope, Exporting, Bundles
  <2>2. CASE envelope = 0
    BY <1>3, <1>5, <1>x, <2>1, <2>2 DEF ExportEnvelope, Fetched
  <2>3. CASE envelope # 0
    <3>1. export'[c].env = envelope /\ export'[c].records = export[c].records
      BY <2>1, <2>3 DEF Fetched, Export
    <3>2. Safe(envelope, export[c].records, Len(derived), form)
      BY <1>i, <2>1, StoreSafe DEF SafeNow, Safe, Private
    <3>3. ExportKept(c)
      BY <1>g, <2>3, <3>1, <3>2 DEF ExportKept
    <3> QED
      BY <1>3, <1>5, <3>3 DEF ExportEnvelope
  <2> QED
    BY <2>2, <2>3
<1>6. ASSUME NEW c \in Clients, NEW k \in Kinds, ExportList(c, k)
      PROVE  Bundles'
  <2>1. export[c] \in Export /\ SafeNow(export[c]) /\ ("vault" \notin export[c].unread => export[c].env # 0)
    BY <1>6, <1>i, <1>e DEF ExportList, Exporting, Bundles
  <2>2. /\ export'[c].unread = export[c].unread \ {k} /\ export'[c].env = export[c].env
        /\ export'[c].records = Listing(export[c].records, k)
    BY <1>6, <1>e, <2>1 DEF ExportList, Export
  <2>3. Safe(export[c].env, Listing(export[c].records, k), Len(derived), form)
    <3>1. \A i \in Present(Listing(export[c].records, k)) :
             \/ i \in Present(store) /\ Listing(export[c].records, k)[i] = store[i]
             \/ i \in Present(export[c].records) /\ Listing(export[c].records, k)[i] = export[c].records[i]
      BY DEF Listing, Present
    <3> QED
      BY <1>i, <2>1, <3>1, StoreSafe DEF SafeNow, Safe, Private
  <2>4. "vault" \notin export'[c].unread => "vault" \notin export[c].unread
    BY <2>2, BackupAssumption
  <2>5. ExportKept(c)
    BY <1>g, <2>1, <2>2, <2>3, <2>4 DEF ExportKept
  <2> QED
    BY <1>3, <1>6, <2>5 DEF ExportList
<1>7. ASSUME NEW c \in Clients, ExportDone(c)
      PROVE  Bundles'
  <2>1. \A d \in Clients : export'[d] \in {export[d], NoExport}
    BY <1>7, <1>e DEF ExportDone
  <2>2. SafeNow(export[c]) /\ file'.env = export[c].env /\ file'.records = export[c].records
    BY <1>7, <1>i DEF ExportDone, Exporting, Bundles
  <2>3. FileKept
    BY <1>g, <2>2 DEF FileKept, SafeNow
  <2> QED
    BY <1>7, <1>q, <1>x, <1>w, <2>1, <2>3 DEF ExportDone
<1>8. ASSUME NEW c \in Clients, ExportLost(c) \/ RestoreDone(c) \/ RestoreLost(c)
      PROVE  Bundles'
  <2>1. /\ \A d \in Clients : export'[d] \in {export[d], NoExport} /\ restore'[d] \in {restore[d], NoRestore}
        /\ file' = file
    BY <1>8, <1>e, <1>r DEF ExportLost, RestoreDone, RestoreLost
  <2> QED
    BY <1>q, <1>x, <1>y, <1>w, <2>1
<1>9. ASSUME NEW c \in Clients, RestoreHelp(c) \/ RestoreSetup(c)
      PROVE  Bundles'
  <2>1. PICK pc \in {"envelope", "records"} : Restores(c, pc) /\ Parsed(file)
    BY <1>9 DEF RestoreHelp, RestoreSetup
  <2>2. /\ restore'[c].env = file.env /\ restore'[c].records = file.records
        /\ \A d \in Clients \ {c} : restore'[d] = restore[d]
        /\ UNCHANGED <<export, file>>
    BY <1>r, <2>1 DEF Restores
  <2>3. SafeNow(file) /\ file.env # 0
    BY <1>i, <2>1 DEF Bundles, Parsed, Types, File
  <2>4. RestoreKept(c)
    BY <1>g, <2>2, <2>3 DEF RestoreKept, SafeNow
  <2> QED
    BY <1>q, <1>x, <1>y, <1>w, <2>2, <2>4
<1>10. ASSUME NEW c \in Clients, NEW ok \in BOOLEAN, RestoreEnvelope(c, ok)
       PROVE  Bundles'
  <2>1. restore[c] \in Restore
    BY <1>10, <1>r DEF RestoreEnvelope, NoRestore
  <2>2. restore'[c] # NoRestore =>
           restore'[c].env = restore[c].env /\ restore'[c].records = restore[c].records
    BY <1>10, <1>r, <2>1 DEF RestoreEnvelope, Restore
  <2>3. \A d \in Clients \ {c} : restore'[d] = restore[d]
    BY <1>10, <1>r DEF RestoreEnvelope
  <2>4. RestoreKept(c)
    BY <1>z, <2>1, <2>2 DEF Restoring, NoRestore, Restore
  <2> QED
    BY <1>10, <1>q, <1>x, <1>y, <1>w, <2>3, <2>4 DEF RestoreEnvelope
<1>11. ASSUME NEW c \in Clients, NEW i \in Ids, NEW ok \in BOOLEAN, RestorePut(c, i, ok)
       PROVE  Bundles'
  <2>1. restore[c] \in Restore
    BY <1>11, <1>r DEF RestorePut, NoRestore
  <2>2. restore'[c] # NoRestore =>
           restore'[c].env = restore[c].env /\ restore'[c].records = restore[c].records
    BY <1>11, <2>1 DEF RestorePut, Restore
  <2>3. RestoreKept(c)
    BY <1>z, <2>1, <2>2 DEF Restoring, NoRestore, Restore
  <2>4. \A d \in Clients \ {c} : RestoreKept(d)
    BY <1>11, <1>i, <1>z, NotedRestore DEF RestorePut
  <2> QED
    BY <1>11, <1>q, <1>x, <1>y, <2>3, <2>4 DEF RestorePut
<1>12. CASE UNCHANGED allVars
    BY <1>0, <1>12 DEF allVars
<1> QED
    BY <1>1, <1>2, <1>4, <1>5, <1>6, <1>7, <1>8, <1>9, <1>10, <1>11, <1>12
    DEF BackupNext, ExportSteps, RestoreSteps

\* Each step keeps what a restore has put, or notes who replaced it.
LEMMA StepRestored == BackupInv /\ [BackupNext]_allVars => Restored'
<1> SUFFICES ASSUME BackupInv, [BackupNext]_allVars PROVE Restored'
    OBVIOUS
<1>i. Inv /\ Types /\ Restored
    BY DEF BackupInv
<1>r. restore \in [Clients -> {NoRestore} \cup Restore]
    BY <1>i DEF Types
<1>s. store \in Blobs
    BY <1>i DEF Inv, TypeOK
<1> DEFINE There(d) ==
        restore'[d] # NoRestore =>
            \A i \in Present(restore'[d].records) :
                \/ i \in restore'[d].todo
                \/ /\ restore'[d].pc = "records"
                   /\ i \in restore'[d].written \/ store'[i] = restore'[d].records[i]
<1>q. ASSUME \A d \in Clients : There(d)
      PROVE  Restored'
    BY <1>q DEF Restored, Restoring
<1>x. ASSUME NEW d \in Clients, restore'[d] \in {restore[d], NoRestore}, store' = store
      PROVE  There(d)
    BY <1>x, <1>i DEF Restored, Restoring
<1>z. ASSUME NEW d \in Clients, NEW changed, Restoring(d), restore'[d] = Noted(d, changed),
             \A i \in Ids : i \in changed \/ store'[i] = store[i]
      PROVE  There(d)
  <2> SUFFICES ASSUME NEW i \in Present(restore[d].records), i \notin restore[d].todo
               PROVE  /\ restore[d].pc = "records"
                      /\ i \in restore'[d].written \/ store'[i] = restore[d].records[i]
    BY <1>z, <1>i, NotedRestore
  <2>1. restore[d].pc = "records" /\ (i \in restore[d].written \/ store[i] = restore[d].records[i])
    BY <1>z, <1>i DEF Restored
  <2>2. restore'[d].written =
           restore[d].written \cup (changed \cap (Present(restore[d].records) \ restore[d].todo))
    BY <1>z, <1>i, NotedRestore
  <2>3. i \in changed => i \in restore'[d].written
    BY <2>2
  <2> QED
    BY <1>z, <2>1, <2>2, <2>3 DEF Present
<1> HIDE DEF There
<1>0. ASSUME UNCHANGED <<store, restore>>
      PROVE  Restored'
    BY <1>0, <1>q, <1>x
<1>1. CASE VaultStep
  <2>1. \A i \in Ids : i \in Changed \/ store'[i] = store[i]
    BY DEF Changed
  <2>2. ASSUME NEW d \in Clients PROVE There(d)
    <3>1. CASE restore'[d] = NoRestore
      BY <3>1 DEF There
    <3>2. CASE Restoring(d) /\ restore'[d] = Noted(d, Changed)
      BY <1>z, <2>1, <3>2
    <3> QED
      BY <1>1, <3>1, <3>2 DEF VaultStep
  <2> QED
    BY <1>q, <2>2
<1>2. CASE NewServer
    BY <1>2, <1>q DEF NewServer, There
<1>3. ASSUME NEW c \in Clients, ExportBegin(c) \/ ExportEnvelope(c) \/ ExportDone(c) \/ ExportLost(c)
      PROVE  Restored'
    BY <1>0, <1>3 DEF ExportBegin, ExportEnvelope, ExportDone, ExportLost, vars
<1>4. ASSUME NEW c \in Clients, NEW k \in Kinds, ExportList(c, k)
      PROVE  Restored'
    BY <1>0, <1>4 DEF ExportList, vars
<1>5. ASSUME NEW c \in Clients, RestoreHelp(c) \/ RestoreSetup(c)
      PROVE  Restored'
  <2>1. PICK pc : Restores(c, pc)
    BY <1>5 DEF RestoreHelp, RestoreSetup
  <2>2. /\ restore'[c].records = file.records /\ restore'[c].todo = Present(file.records)
        /\ \A d \in Clients \ {c} : restore'[d] = restore[d]
        /\ store' = store
    BY <1>r, <2>1 DEF Restores, vars
  <2>3. There(c)
    BY <2>2 DEF There
  <2> QED
    BY <1>q, <1>x, <2>2, <2>3
<1>6. ASSUME NEW c \in Clients, NEW ok \in BOOLEAN, RestoreEnvelope(c, ok)
      PROVE  Restored'
  <2>1. restore[c] \in Restore /\ Restoring(c) /\ restore[c].pc = "envelope"
    BY <1>6, <1>r DEF RestoreEnvelope, NoRestore, Restoring
  <2>2. restore'[c] # NoRestore =>
           restore'[c].records = restore[c].records /\ restore'[c].todo = restore[c].todo
    BY <1>6, <1>r, <2>1 DEF RestoreEnvelope, Restore
  <2>3. \A d \in Clients \ {c} : restore'[d] = restore[d]
    BY <1>6, <1>r DEF RestoreEnvelope
  <2>4. There(c)
    BY <1>i, <2>1, <2>2 DEF There, Restored
  <2> QED
    BY <1>6, <1>q, <1>x, <2>3, <2>4 DEF RestoreEnvelope
<1>7. ASSUME NEW c \in Clients, NEW i \in Ids, NEW ok \in BOOLEAN, RestorePut(c, i, ok)
      PROVE  Restored'
  <2>1. restore[c] \in Restore /\ Restoring(c) /\ restore[c].pc = "records"
    BY <1>7, <1>r DEF RestorePut, NoRestore, Restoring
  <2>2. /\ store'[i] = restore[c].records[i]
        /\ \A j \in Ids : j \in {i} \/ store'[j] = store[j]
    BY <1>7, <1>s DEF RestorePut, Blobs
  <2>3. ASSUME restore'[c] = NoRestore
        PROVE  There(c)
    BY <2>3 DEF There
  <2>4. ASSUME restore'[c] = [restore[c] EXCEPT !.todo = @ \ {i}]
        PROVE  There(c)
    <3>1. /\ restore'[c].records = restore[c].records /\ restore'[c].todo = restore[c].todo \ {i}
          /\ restore'[c].pc = "records" /\ restore'[c].written = restore[c].written
      BY <2>1, <2>4 DEF Restore
    <3> QED
      BY <1>i, <2>1, <2>2, <3>1 DEF There, Restored, Present
  <2>5. There(c)
    BY <1>7, <2>3, <2>4 DEF RestorePut
  <2>6. ASSUME NEW d \in Clients, d # c PROVE There(d)
    <3>1. CASE restore'[d] = NoRestore
      BY <3>1 DEF There
    <3>2. CASE Restoring(d) /\ restore'[d] = Noted(d, {i})
      BY <1>z, <2>2, <3>2
    <3> QED
      BY <1>7, <2>6, <3>1, <3>2 DEF RestorePut
  <2> QED
    BY <1>q, <2>5, <2>6
<1>8. ASSUME NEW c \in Clients, RestoreDone(c) \/ RestoreLost(c)
      PROVE  Restored'
    BY <1>8, <1>q, <1>x, <1>r DEF RestoreDone, RestoreLost
<1>9. CASE UNCHANGED allVars
    BY <1>0, <1>9 DEF allVars, vars, backup
<1> QED
    BY <1>1, <1>2, <1>3, <1>4, <1>5, <1>6, <1>7, <1>8, <1>9 DEF BackupNext, ExportSteps, RestoreSteps

\* Each step keeps downloads, files and restores in agreement with the account's envelope,
\* or their history says why not.
LEMMA StepAgreed == BackupInv /\ [BackupNext]_allVars => Agreed'
<1> SUFFICES ASSUME BackupInv, [BackupNext]_allVars PROVE Agreed'
    OBVIOUS
<1>i. Inv /\ Types /\ Bundles /\ Agreed
    BY DEF BackupInv
<1>e. export \in [Clients -> {NoExport} \cup Export]
    BY <1>i DEF Types
<1>r. restore \in [Clients -> {NoRestore} \cup Restore]
    BY <1>i DEF Types
<1>q. ASSUME \A d \in Clients : ExportAgrees(d)' /\ RestoreAgrees(d)', FileOpens'
      PROVE  Agreed'
    BY <1>q DEF Agreed
<1>x. ASSUME envelope' = envelope, NEW d \in Clients, export'[d] \in {export[d], NoExport}
      PROVE  ExportAgrees(d)'
    BY <1>i, <1>x DEF Agreed, ExportAgrees, Exporting
<1>w. ASSUME envelope' = envelope, NEW d \in Clients,
             \/ restore'[d] = NoRestore
             \/ /\ restore'[d].pc = restore[d].pc /\ restore'[d].env = restore[d].env
                /\ restore'[d].overtaken = restore[d].overtaken
      PROVE  RestoreAgrees(d)'
    BY <1>i, <1>w DEF Agreed, RestoreAgrees, NoRestore
<1>y. ASSUME file' = file PROVE FileOpens'
    BY <1>i, <1>y DEF Agreed, FileOpens
<1>0. ASSUME envelope' = envelope, file' = file,
             \A d \in Clients : /\ export'[d] \in {export[d], NoExport}
                               /\ restore'[d] \in {restore[d], NoRestore}
      PROVE  Agreed'
    BY <1>0, <1>q, <1>x, <1>w, <1>y
<1>1. CASE VaultStep
  <2>1. ASSUME NEW d \in Clients PROVE ExportAgrees(d)'
    <3>1. CASE export'[d] = NoExport
      BY <3>1 DEF ExportAgrees, Exporting
    <3>2. CASE envelope' = envelope /\ export'[d] = export[d]
      BY <1>x, <3>2
    <3>3. CASE Exporting(d) /\ export'[d] = [export[d] EXCEPT !.odd = Ids]
      <4>1. export'[d].odd = Ids
        BY <1>e, <3>3 DEF Exporting, Export
      <4> QED
        BY <4>1 DEF ExportAgrees
    <3> QED
      BY <1>1, <3>1, <3>2, <3>3 DEF VaultStep
  <2>2. ASSUME NEW d \in Clients PROVE RestoreAgrees(d)'
    <3>1. CASE restore'[d] = NoRestore
      BY <3>1 DEF RestoreAgrees, NoRestore
    <3>2. CASE Restoring(d) /\ restore'[d] = Noted(d, Changed)
      <4>1. /\ restore'[d].pc = restore[d].pc /\ restore'[d].env = restore[d].env
            /\ restore'[d].overtaken = (restore[d].overtaken \/ envelope' # envelope)
        BY <1>i, <3>2, NotedRestore
      <4> QED
        BY <1>i, <4>1 DEF Agreed, RestoreAgrees
    <3> QED
      BY <1>1, <3>1, <3>2 DEF VaultStep
  <2> QED
    BY <1>1, <1>q, <1>y, <2>1, <2>2 DEF VaultStep
<1>2. CASE NewServer
  <2>1. \A d \in Clients : export'[d] = NoExport /\ restore'[d] = NoRestore
    BY <1>2 DEF NewServer
  <2> QED
    BY <1>2, <1>q, <1>y, <2>1 DEF NewServer, ExportAgrees, RestoreAgrees, Exporting, NoRestore
<1>3. ASSUME NEW c \in Clients, NEW e,
             export' = [export EXCEPT ![c] = e], UNCHANGED <<vars, file, restore>>,
             ExportAgrees(c)'
      PROVE  Agreed'
  <2>1. \A d \in Clients \ {c} : export'[d] = export[d]
    BY <1>3, <1>e
  <2> QED
    BY <1>3, <1>q, <1>x, <1>w, <1>y, <2>1 DEF vars
<1>4. ASSUME NEW c \in Clients, ExportBegin(c)
      PROVE  Agreed'
  <2>1. export'[c] = [unread |-> Kinds \cup {"vault"}, env |-> 0, records |-> Empty, odd |-> {}]
    BY <1>4, <1>e DEF ExportBegin
  <2>2. ExportAgrees(c)'
    BY <2>1 DEF ExportAgrees, Present, Empty
  <2> QED
    BY <1>3, <1>4, <2>2 DEF ExportBegin
<1>5. ASSUME NEW c \in Clients, ExportEnvelope(c)
      PROVE  Agreed'
  <2>1. export[c] \in Export /\ Exporting(c) /\ export'[c] = Fetched(export[c]) /\ envelope' = envelope
    BY <1>5, <1>e DEF ExportEnvelope, Exporting, vars
  <2>2. \/ export'[c] = NoExport
        \/ /\ export'[c].env = envelope /\ export'[c].records = export[c].records
           /\ export'[c].odd = export[c].odd
    BY <2>1 DEF Fetched, Export
  <2>3. ExportAgrees(c)'
    BY <1>i, <2>1, <2>2 DEF Agreed, ExportAgrees, Exporting
  <2> QED
    BY <1>3, <1>5, <2>3 DEF ExportEnvelope
<1>6. ASSUME NEW c \in Clients, NEW k \in Kinds, ExportList(c, k)
      PROVE  Agreed'
  <2>1. export[c] \in Export /\ Exporting(c) /\ envelope' = envelope
    BY <1>6, <1>e DEF ExportList, Exporting, vars
  <2>2. /\ export'[c].unread = export[c].unread \ {k} /\ export'[c].env = export[c].env
        /\ export'[c].records = Listing(export[c].records, k)
        /\ export'[c].odd = export[c].odd \cup Odd(k)
    BY <1>6, <1>e, <2>1 DEF ExportList, Export
  <2>3. ExportAgrees(c)'
    <3> SUFFICES ASSUME export'[c].odd # Ids
                 PROVE  /\ "vault" \notin export'[c].unread => export'[c].env = envelope
                        /\ \A i \in Present(export'[c].records) \ export'[c].odd :
                              envelope # 0 /\ export'[c].records[i].key = envelope
      BY <2>1 DEF ExportAgrees
    <3>1. export[c].odd # Ids
      BY <2>1, <2>2 DEF Export, Odd, Present
    <3>2. /\ "vault" \notin export[c].unread => export[c].env = envelope
          /\ \A i \in Present(export[c].records) \ export[c].odd :
                envelope # 0 /\ export[c].records[i].key = envelope
      BY <1>i, <2>1, <3>1 DEF Agreed, ExportAgrees
    <3>3. "vault" \notin export'[c].unread => "vault" \notin export[c].unread
      BY <2>2, BackupAssumption
    <3>4. ASSUME NEW i \in Present(export'[c].records) \ export'[c].odd
          PROVE  envelope # 0 /\ export'[c].records[i].key = envelope
      <4>1. CASE KindOf(i) = k
        <5>1. export'[c].records[i] = store[i] /\ i \in Present(store) /\ i \notin Odd(k)
          BY <2>2, <3>4, <4>1 DEF Listing, Present
        <5> QED
          BY <4>1, <5>1 DEF Odd
      <4>2. CASE KindOf(i) # k
        <5>1. export'[c].records[i] = export[c].records[i] /\ i \in Present(export[c].records) \ export[c].odd
          BY <2>2, <3>4, <4>2 DEF Listing, Present
        <5> QED
          BY <3>2, <5>1
      <4> QED
        BY <4>1, <4>2
    <3> QED
      BY <2>2, <3>2, <3>3, <3>4
  <2> QED
    BY <1>3, <1>6, <2>3 DEF ExportList
<1>7. ASSUME NEW c \in Clients, ExportDone(c)
      PROVE  Agreed'
  <2>1. /\ Exporting(c) /\ export[c].unread = {}
        /\ file'.env = export[c].env /\ file'.records = export[c].records /\ file'.odd = export[c].odd
        /\ UNCHANGED <<vars, restore>>
        /\ \A d \in Clients : export'[d] \in {export[d], NoExport}
    BY <1>7, <1>e DEF ExportDone, Gathered
  <2>2. FileOpens'
    <3>1. CASE export[c].odd = Ids
      BY <2>1, <3>1 DEF FileOpens, Present
    <3>2. CASE export[c].odd # Ids
      BY <1>i, <2>1, <3>2 DEF Agreed, ExportAgrees, FileOpens
    <3> QED
      BY <3>1, <3>2
  <2> QED
    BY <1>q, <1>x, <1>w, <2>1, <2>2 DEF vars
<1>8. ASSUME NEW c \in Clients, RestoreHelp(c) \/ RestoreSetup(c)
      PROVE  Agreed'
  <2>1. PICK pc \in {"envelope", "records"} :
           /\ Restores(c, pc)
           /\ pc = "records" => cached[c] = file.env
    BY <1>8 DEF RestoreHelp, RestoreSetup, MatchesKey
  <2>2. /\ restore'[c] = [pc |-> pc, env |-> file.env, records |-> file.records,
                          todo |-> Present(file.records), written |-> {},
                          overtaken |-> pc = "records" /\ cached[c] # envelope]
        /\ \A d \in Clients \ {c} : restore'[d] = restore[d]
        /\ UNCHANGED <<envelope, export, file>>
    BY <1>r, <2>1 DEF Restores, vars
  <2>3. RestoreAgrees(c)'
    <3>1. restore'[c].pc = pc /\ restore'[c].env = file.env
      BY <2>2
    <3>4. restore'[c].overtaken = (pc = "records" /\ cached[c] # envelope)
      BY <2>2
    <3>2. restore'[c].overtaken <=> (pc = "records" /\ cached[c] # envelope)
      BY <3>4, Zenon
    <3>3. pc = "records" /\ ~restore'[c].overtaken => file.env = envelope
      BY <2>1, <3>2, Zenon
    <3> QED
      BY <2>2, <3>1, <3>3 DEF RestoreAgrees
  <2> QED
    BY <1>q, <1>x, <1>w, <1>y, <2>2, <2>3
<1>9. ASSUME NEW c \in Clients, NEW ok \in BOOLEAN, RestoreEnvelope(c, ok)
      PROVE  Agreed'
  <2>1. restore[c] \in Restore
    BY <1>9, <1>r DEF RestoreEnvelope, NoRestore
  <2>2. /\ envelope' = IF envelope = 0 THEN restore[c].env ELSE envelope
        /\ UNCHANGED <<export, file>>
        /\ \A d \in Clients \ {c} : restore'[d] = restore[d]
        /\ restore'[c] = IF ok /\ envelope = 0 THEN [restore[c] EXCEPT !.pc = "records"] ELSE NoRestore
    BY <1>9, <1>r DEF RestoreEnvelope, Created
  <2>3. RestoreAgrees(c)'
    BY <2>1, <2>2 DEF RestoreAgrees, Restore, NoRestore
  <2>4. ASSUME NEW d \in Clients \ {c} PROVE RestoreAgrees(d)'
    <3>1. restore[d].pc = "records" => restore[d].env # 0
      BY <1>i DEF Bundles, Restoring, NoRestore
    <3> QED
      BY <1>i, <2>2, <3>1 DEF Agreed, RestoreAgrees
  <2>5. ASSUME NEW d \in Clients PROVE ExportAgrees(d)'
    BY <1>i, <2>2 DEF Agreed, ExportAgrees, Bundles, Exporting
  <2> QED
    BY <1>q, <1>y, <2>2, <2>3, <2>4, <2>5
<1>10. ASSUME NEW c \in Clients, NEW i \in Ids, NEW ok \in BOOLEAN, RestorePut(c, i, ok)
       PROVE  Agreed'
  <2>1. restore[c] \in Restore /\ UNCHANGED <<envelope, export, file>>
    BY <1>10, <1>r DEF RestorePut, NoRestore
  <2>2. \/ restore'[c] = NoRestore
        \/ /\ restore'[c].pc = restore[c].pc /\ restore'[c].env = restore[c].env
           /\ restore'[c].overtaken = restore[c].overtaken
    BY <1>10, <2>1 DEF RestorePut, Restore
  <2>3. ASSUME NEW d \in Clients \ {c}
        PROVE  \/ restore'[d] = NoRestore
               \/ /\ restore'[d].pc = restore[d].pc /\ restore'[d].env = restore[d].env
                  /\ restore'[d].overtaken = restore[d].overtaken
    <3>1. CASE ~Restoring(d)
      BY <1>10, <3>1 DEF RestorePut
    <3>2. CASE Restoring(d)
      <4>1. restore'[d] = Noted(d, {i})
        BY <1>10, <2>3, <3>2 DEF RestorePut
      <4>2. restore[d].overtaken \in BOOLEAN
        BY <1>r, <3>2 DEF Restoring, Restore
      <4>3. /\ restore'[d].pc = restore[d].pc /\ restore'[d].env = restore[d].env
            /\ restore'[d].overtaken = (restore[d].overtaken \/ envelope' # envelope)
        BY <1>i, <3>2, <4>1, NotedRestore
      <4> QED
        BY <2>1, <4>2, <4>3
    <3> QED
      BY <3>1, <3>2
  <2> QED
    BY <1>q, <1>x, <1>w, <1>y, <2>1, <2>2, <2>3
<1>11. ASSUME NEW c \in Clients, ExportLost(c) \/ RestoreDone(c) \/ RestoreLost(c)
       PROVE  Agreed'
    BY <1>11, <1>0, <1>e, <1>r DEF ExportLost, RestoreDone, RestoreLost
<1>12. CASE UNCHANGED allVars
    BY <1>0, <1>12 DEF allVars, vars, backup
<1> QED
    BY <1>1, <1>2, <1>4, <1>5, <1>6, <1>7, <1>8, <1>9, <1>10, <1>11, <1>12
    DEF BackupNext, ExportSteps, RestoreSteps

-----------------------------------------------------------------------------
(* What holds with any number of browsers, whatever they do at once.         *)

\* The invariant holds in every reachable state.
THEOREM BackupInvariance == BackupSpec => []BackupInv
<1>1. BackupInv /\ [BackupNext]_allVars => BackupInv'
  BY BackupStepInv, BackupStepTypes, StepBundles, StepRestored, StepAgreed DEF BackupInv
<1> QED
  BY <1>1, BackupInitInv, PTL DEF BackupSpec

\* The variables have the types the model gives them: no envelope, record, file or
\* cache ever names a key that was not derived.
THEOREM BackupTypeCorrect == BackupSpec => []BackupTypeOK
<1>1. BackupInv => BackupTypeOK
  BY DEF BackupInv, Inv, Types, BackupTypeOK
<1> QED
  BY <1>1, BackupInvariance, PTL

\* "Backup restored." is true: when a restore ends well, every record of the file is in
\* the store as it was in the file, but for those that others saved or removed after
\* the restore had put them.
THEOREM RestoreIsComplete == BackupSpec => RestoresAll
<1> DEFINE Complete == \A c \in Clients : RestoreDone(c) =>
                          \A i \in Present(restore[c].records) \ restore[c].written :
                              store[i] = restore[c].records[i]
<1>1. BackupInv => Complete
  <2> SUFFICES ASSUME BackupInv, NEW c \in Clients, RestoreDone(c),
                      NEW i \in Present(restore[c].records) \ restore[c].written
               PROVE  store[i] = restore[c].records[i]
    OBVIOUS
  <2>1. Restoring(c) /\ restore[c].todo = {}
    BY DEF RestoreDone, Finished, Restoring, NoRestore
  <2> QED
    BY <2>1 DEF BackupInv, Restored
<1>2. BackupInv /\ [BackupNext]_allVars => [Complete]_allVars
  BY <1>1
<1> QED
  BY <1>2, BackupInvariance, PTL DEF BackupSpec, RestoresAll

\* A restore never replaces an envelope: besides the swap of a passphrase change only
\* the move to a new server takes one away.
THEOREM RestoreKeepsEnvelope == BackupSpec => EnvelopeStays
<1> DEFINE Stays == envelope # 0 /\ envelope' \notin {0, envelope} =>
                       \E c \in Clients : form[c].pc = "migrate" /\ envelope' = form[c].new
<1>1. ASSUME BackupInv, [BackupNext]_allVars PROVE Stays
  <2>1. CASE envelope' = envelope
    BY <2>1
  <2>2. CASE VaultStep
    BY <1>1, <2>2, OneSetupStep DEF VaultStep, BackupInv
  <2>3. CASE NewServer
    BY <2>3 DEF NewServer
  <2>4. ASSUME NEW c \in Clients,
               \/ ExportBegin(c) \/ ExportEnvelope(c) \/ ExportDone(c) \/ ExportLost(c)
               \/ RestoreHelp(c) \/ RestoreSetup(c) \/ RestoreDone(c) \/ RestoreLost(c)
        PROVE  envelope' = envelope
    BY <2>4 DEF ExportBegin, ExportEnvelope, ExportDone, ExportLost, RestoreHelp, RestoreSetup,
       Restores, RestoreDone, RestoreLost, vars
  <2>5. ASSUME NEW c \in Clients, NEW k \in Kinds, ExportList(c, k)
        PROVE  envelope' = envelope
    BY <2>5 DEF ExportList, vars
  <2>6. ASSUME NEW c \in Clients, NEW ok \in BOOLEAN, RestoreEnvelope(c, ok)
        PROVE  Stays
    BY <2>6 DEF RestoreEnvelope, Created
  <2>7. ASSUME NEW c \in Clients, NEW i \in Ids, NEW ok \in BOOLEAN, RestorePut(c, i, ok)
        PROVE  envelope' = envelope
    BY <2>7 DEF RestorePut
  <2>8. CASE UNCHANGED allVars
    BY <2>1, <2>8 DEF allVars, vars
  <2> QED
    BY <1>1, <2>1, <2>2, <2>3, <2>4, <2>5, <2>6, <2>7, <2>8 DEF BackupNext, ExportSteps, RestoreSteps
<1>2. BackupInv /\ [BackupNext]_allVars => [Stays]_allVars
  BY <1>1
<1> QED
  BY <1>2, BackupInvariance, PTL DEF BackupSpec, EnvelopeStays

-----------------------------------------------------------------------------
(* What a file, and what a restore brings, opens under.                       *)

\* BR-EXP-1: every record of a downloaded file opens under the file's envelope, but for
\* those the account's envelope did not open when they were read, unless the envelope was
\* replaced while the download ran: with any number of browsers, whatever failed before.
THEOREM DownloadOpens == BackupSpec => []FileOpens
<1>1. BackupInv => FileOpens
  BY DEF BackupInv, Agreed
<1> QED
  BY <1>1, BackupInvariance, PTL

\* BR-IMP-2/3: what a restore puts opens under the account's envelope if it did under the
\* file's, also when the restore breaks off, unless the file was checked against a key that
\* was not the account's or a change of passphrase has swapped since; and each change takes
\* along all records but those written after it had listed them, restored ones included.
THEOREM RestoreIsReadable == BackupSpec => RestoredReadable
<1> DEFINE Brought == \A c \in Clients, i \in Ids, ok \in BOOLEAN :
                         /\ RestorePut(c, i, ok) /\ ~restore[c].overtaken
                         /\ restore[c].records[i].key = restore[c].env
                         => store'[i].key = envelope
           Taken == \A c \in Clients, ok \in BOOLEAN : ChangeSwap(c, ok) =>
                         \A i \in Present(store) \ form[c].missed : store[i].key = envelope'
<1>1. ASSUME BackupInv PROVE Brought
  <2> SUFFICES ASSUME NEW c \in Clients, NEW i \in Ids, NEW ok \in BOOLEAN,
                      RestorePut(c, i, ok), ~restore[c].overtaken,
                      restore[c].records[i].key = restore[c].env
               PROVE  store'[i].key = envelope
    OBVIOUS
  <2>1. restore[c].env = envelope
    BY <1>1 DEF RestorePut, BackupInv, Agreed, RestoreAgrees
  <2>2. store'[i] = restore[c].records[i]
    BY <1>1 DEF RestorePut, BackupInv, Inv, TypeOK, Blobs
  <2> QED
    BY <2>1, <2>2
<1>2. ASSUME BackupInv PROVE Taken
  <2> SUFFICES ASSUME NEW c \in Clients, NEW ok \in BOOLEAN, ChangeSwap(c, ok),
                      NEW i \in Present(store) \ form[c].missed
               PROVE  store[i].key = envelope'
    OBVIOUS
  <2>1. /\ Migrating(c) /\ form[c].pc # "list" /\ i \notin Present(form[c].todo)
        /\ envelope' = form[c].new
    BY DEF ChangeSwap, SwapReady, Migrating
  <2>2. i \in Ids /\ form[c].todo[i] = Absent /\ form[c].kinds = {} /\ store[i] # Absent
    BY <1>2, <2>1 DEF BackupInv, Inv, Copied, Present
  <2> QED
    BY <1>2, <2>1, <2>2 DEF BackupInv, Inv, Copied
<1>3. BackupInv /\ [BackupNext]_allVars => [Brought /\ Taken]_allVars
  BY <1>1, <1>2
<1> QED
  BY <1>3, BackupInvariance, PTL DEF BackupSpec, RestoredReadable
=============================================================================
