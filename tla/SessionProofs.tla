---------------------------- MODULE SessionProofs ----------------------------
(* Proofs about Session, for any views and any bounds. *)
EXTENDS Session, SequenceTheorems, TLAPS

-----------------------------------------------------------------------------
(* Entries and tasks: what the helpers of the actions do to them. *)

Pcs == {"idle", "me", "vault", "get", "fill", "derive", "put", "post", "delete", "api"}

Routed == Views \cup {None}

\* The paths of the pages before the workspace are not views.
LEMMA GatesApart == /\ Gates \cap Views = {} /\ Gates \subseteq Paths /\ Views \subseteq Paths
                    /\ Home \in Views
BY SessionAssumption DEF Gates, Paths

\* Entries are of the router.
LEMMA EntryType ==
    ASSUME NEW p \in Paths, NEW f \in Routed
    PROVE  Entry(p, f) \in Entries /\ Entry(p, f).path = p /\ Entry(p, f).from = f
BY DEF Entry, Entries, Routed

\* What is rendered: the entry, or a page before the workspace.
LEMMA RenderedIs ==
    ASSUME NEW e \in Entries
    PROVE  /\ Rendered(e) \in Entries
           /\ \/ Rendered(e) = e
              \/ /\ e.path \in Views /\ ~user' /\ ~booting' /\ ~signingOut'
                 /\ Rendered(e).path = "/login" /\ Rendered(e).from = e.path
              \/ /\ e.path \in {"/setup", "/unlock"} /\ ~user' /\ ~booting'
                 /\ Rendered(e).path = "/" /\ Rendered(e).from = None
           /\ e.path \in Views /\ ~user' /\ ~booting' /\ ~signingOut' => Rendered(e) # e
           /\ e.path \in {"/setup", "/unlock"} /\ ~user' /\ ~booting' => Rendered(e) # e
<1>1. e.path \in Views => Entry("/login", e.path) \in Entries /\ "/login" \notin Views
    BY EntryType, GatesApart DEF Gates, Routed
<1>2. Entry("/", None) \in Entries /\ "/setup" \notin Views /\ "/unlock" \notin Views
    BY EntryType, GatesApart DEF Gates, Routed
<1> QED
    BY <1>1, <1>2 DEF Rendered, Entry

\* Going to an entry.
LEMMA PushType ==
    ASSUME TypeOK, NEW e \in Entries, Push(e)
    PROVE  here' = Rendered(e) /\ here' \in Entries /\ past' \in Seq(Entries) /\ Len(past') <= MaxPast
<1>1. here' = Rendered(e) /\ here' \in Entries
    BY RenderedIs DEF Push
<1>2. past \in Seq(Entries) /\ Len(past) <= MaxPast /\ here \in Entries /\ MaxPast \in Nat
    BY SessionAssumption DEF TypeOK
<1>3. CASE Len(past) < MaxPast
  <2>1. past' = Append(past, here)
      BY <1>3 DEF Push
  <2>2. past' \in Seq(Entries) /\ Len(past') = Len(past) + 1
      BY <1>2, <2>1
  <2> QED
      BY <1>1, <1>2, <1>3, <2>2
<1>4. CASE ~(Len(past) < MaxPast) /\ MaxPast = 0
  <2>1. past' = <<>>
      BY <1>4 DEF Push
  <2> QED
      BY <1>1, <1>4, <2>1
<1>5. CASE ~(Len(past) < MaxPast) /\ MaxPast # 0
  <2>1. past' = Append(Tail(past), here)
      BY <1>5 DEF Push
  <2>2. Len(past) \in Nat /\ Len(past) = MaxPast /\ past # <<>>
      BY <1>2, <1>5
  <2>3. Tail(past) \in Seq(Entries) /\ Len(Tail(past)) = Len(past) - 1
      BY <1>2, <2>2
  <2>4. past' \in Seq(Entries) /\ Len(past') = Len(Tail(past)) + 1
      BY <1>2, <2>1, <2>3
  <2> QED
      BY <1>1, <1>2, <2>2, <2>3, <2>4
<1> QED
    BY <1>3, <1>4, <1>5

\* Replacing the entry.
LEMMA ReplaceType ==
    ASSUME TypeOK, NEW e \in Entries, Replace(e)
    PROVE  here' = Rendered(e) /\ here' \in Entries /\ past' \in Seq(Entries) /\ Len(past') <= MaxPast
BY RenderedIs DEF Replace, TypeOK

\* A task that goes on keeps what it started with.
LEMMA TaskGoes ==
    ASSUME TypeOK, NEW t \in Tasks, NEW pc \in Pcs, Goes(t, pc)
    PROVE  /\ task' \in [Tasks -> Runs] /\ \A u \in Tasks \ {t} : task'[u] = task[u]
           /\ task'[t].pc = pc /\ task'[t].from = task[t].from
           /\ task'[t].target = task[t].target /\ task'[t].got = task[t].got
BY DEF TypeOK, Goes, Runs, Pcs

\* A task that ends is idle.
LEMMA TaskEnds ==
    ASSUME TypeOK, NEW t \in Tasks, Ends(t)
    PROVE  /\ task' \in [Tasks -> Runs] /\ \A u \in Tasks \ {t} : task'[u] = task[u]
           /\ task'[t] = Idle /\ task'[t].pc = "idle"
<1>1. Idle \in Runs /\ Idle.pc = "idle"
    BY GatesApart DEF Idle, Runs
<1> QED
    BY <1>1 DEF TypeOK, Ends

\* A task that has read the database.
LEMMA TaskGot ==
    ASSUME TypeOK, NEW t \in Tasks, Got(t)
    PROVE  /\ task' \in [Tasks -> Runs] /\ \A u \in Tasks \ {t} : task'[u] = task[u]
           /\ task'[t].pc = "fill" /\ task'[t].from = task[t].from
           /\ task'[t].target = task[t].target /\ task'[t].got = disk
BY DEF TypeOK, Got, Runs

\* A task that begins.
LEMMA TaskAt ==
    ASSUME TypeOK, NEW t \in Tasks, NEW pc \in Pcs, NEW f \in Routed, NEW g \in Views,
           task' = [task EXCEPT ![t] = At(pc, f, g)]
    PROVE  /\ task' \in [Tasks -> Runs] /\ \A u \in Tasks \ {t} : task'[u] = task[u]
           /\ task'[t].pc = pc /\ task'[t].from = f /\ task'[t].target = g /\ task'[t].got = FALSE
<1>1. /\ At(pc, f, g) \in Runs /\ At(pc, f, g).pc = pc /\ At(pc, f, g).from = f
      /\ At(pc, f, g).target = g /\ At(pc, f, g).got = FALSE
    BY DEF At, Runs, Pcs, Routed
<1> QED
    BY <1>1 DEF TypeOK

\* A form's function begins on the page at hand.
LEMMA TaskBegins ==
    ASSUME TypeOK, NEW t \in Tasks, NEW pc \in Pcs, Begins(t, pc)
    PROVE  /\ task' \in [Tasks -> Runs] /\ \A u \in Tasks \ {t} : task'[u] = task[u]
           /\ task'[t].pc = pc /\ task'[t].from = here.from /\ task'[t].got = FALSE
           /\ task[t].pc = "idle" /\ (mixed' <=> mixed \/ Clearing)
<1>1. here.from \in Routed /\ Home \in Views
    BY GatesApart DEF TypeOK, Entries, Routed
<1>2. task' = [task EXCEPT ![t] = At(pc, here.from, Home)]
    BY DEF Begins
<1>3. task[t] = Idle /\ (mixed' <=> mixed \/ Clearing)
    BY Zenon DEF Begins, MayBegin
<1>4. Idle.pc = "idle"
    BY DEF Idle
<1> QED
    BY ZenonT(60), <1>1, <1>2, <1>3, <1>4, TaskAt

\* A clearing begins.
LEMMA TaskClears ==
    ASSUME TypeOK, NEW t \in Tasks, Clears(t)
    PROVE  /\ task' \in [Tasks -> Runs] /\ \A u \in Tasks \ {t} : task'[u] = task[u]
           /\ task'[t].pc = "delete" /\ task[t].pc = "idle"
<1>1. task[t] = Idle /\ task' = [task EXCEPT ![t].pc = "delete"]
    BY DEF Clears, MayBegin
<1>2. task[t].pc = "idle"
    BY <1>1 DEF Idle
<1>3. Goes(t, "delete") /\ "delete" \in Pcs
    BY <1>1 DEF Goes, Pcs
<1> QED
    BY <1>2, <1>3, TaskGoes

\* A new document runs nothing but the check on load.
LEMMA DocumentIs ==
    ASSUME TypeOK, NEW e \in Entries, Document(e)
    PROVE  /\ task' \in [Tasks -> Runs]
           /\ \A u \in Tasks \ {"boot"} : task'[u] = Idle /\ task'[u].pc = "idle"
           /\ task'["boot"].pc = "me" /\ task'["boot"].from = None
           /\ e.path \in Views => task'["boot"].target = e.path
           /\ e.path \notin Views => task'["boot"].target = Home
           /\ here' = e /\ mem' = FALSE /\ user' = FALSE /\ booting' = TRUE
           /\ signingOut' = FALSE /\ email' = FALSE /\ strayed' = FALSE
           /\ loads' \in 0..MaxLoads
<1>1. Idle \in Runs /\ Idle.pc = "idle"
    BY GatesApart DEF Idle, Runs
<1> DEFINE g == IF e.path \in Views THEN e.path ELSE Home
<1>2. g \in Views
    BY GatesApart
<1>3. /\ At("me", None, g) \in Runs /\ At("me", None, g).pc = "me" /\ At("me", None, g).from = None
      /\ At("me", None, g).target = g
    BY <1>2 DEF At, Runs
<1>4. task' = [t \in Tasks |-> IF t = "boot" THEN At("me", None, g) ELSE Idle]
    BY DEF Document
<1>5. "boot" \in Tasks
    BY DEF Tasks
<1>6. loads' \in 0..MaxLoads
    BY SessionAssumption DEF Document, TypeOK
<1> HIDE DEF g
<1>7. (e.path \in Views => g = e.path) /\ (e.path \notin Views => g = Home)
    BY DEF g
<1> QED
    BY <1>1, <1>3, <1>4, <1>5, <1>6, <1>7 DEF Document

-----------------------------------------------------------------------------
(* Types. *)

\* The initial states are typed.
LEMMA InitTyped == Init => TypeOK
<1> SUFFICES ASSUME Init PROVE TypeOK
    OBVIOUS
<1>1. PICK p \in Paths :
          /\ here = Entry(p, None)
          /\ goal = IF p \in Views THEN p ELSE None
          /\ task = [t \in Tasks |->
                IF t = "boot" THEN At("me", None, IF p \in Views THEN p ELSE Home) ELSE Idle]
    BY DEF Init
<1>2. here \in Entries /\ goal \in Views \cup {None}
    BY <1>1, EntryType DEF Routed
<1>3. Idle \in Runs /\ \A v \in Views : At("me", None, v) \in Runs
    BY GatesApart DEF Idle, At, Runs
<1>4. task \in [Tasks -> Runs]
    BY <1>1, <1>3, GatesApart
<1>5. past \in Seq(Entries) /\ Len(past) <= MaxPast
    BY SessionAssumption DEF Init
<1>6. loads \in 0..MaxLoads /\ faults \in 0..MaxFaults
    BY SessionAssumption DEF Init
<1> QED
    BY <1>2, <1>4, <1>5, <1>6 DEF Init, TypeOK

\* The parts of the type invariant.
FlagsTyped ==
    /\ cookie \in BOOLEAN /\ vault \in BOOLEAN /\ mem \in BOOLEAN /\ disk \in BOOLEAN
    /\ user \in BOOLEAN /\ booting \in BOOLEAN /\ signingOut \in BOOLEAN /\ email \in BOOLEAN
    /\ goal \in Views \cup {None} /\ forgotten \in BOOLEAN
    /\ erased \in BOOLEAN /\ mixed \in BOOLEAN /\ strayed \in BOOLEAN
RouteTyped  == here \in Entries /\ past \in Seq(Entries) /\ Len(past) <= MaxPast
TasksTyped  == task \in [Tasks -> Runs]
BoundsTyped == loads \in 0..MaxLoads /\ faults \in 0..MaxFaults

\* They are the type invariant.
LEMMA Parts == TypeOK <=> FlagsTyped /\ RouteTyped /\ TasksTyped /\ BoundsTyped
BY DEF TypeOK, FlagsTyped, RouteTyped, TasksTyped, BoundsTyped

\* A fault or none.
LEMMA FaultTyped == TypeOK /\ (Fine \/ Fault) => BoundsTyped'
BY SessionAssumption DEF TypeOK, BoundsTyped, Fine, Fault, bounds

\* The browser's own steps keep the types.
LEMMA BrowserTyped ==
    ASSUME TypeOK,
           (\E p \in Paths : Open(p)) \/ Reload \/ Back \/ Expire \/ IdleDelete
    PROVE  TypeOK'
<1> USE DEF FlagsTyped, RouteTyped, TasksTyped, BoundsTyped, keys, route, bounds, told,
           Wants, Turns, Same, Forgets
<1> DEFINE Loaded(e) ==
        /\ TasksTyped' /\ here' = e /\ mem' \in BOOLEAN /\ user' \in BOOLEAN
        /\ booting' \in BOOLEAN /\ signingOut' \in BOOLEAN /\ email' \in BOOLEAN
        /\ strayed' \in BOOLEAN /\ loads' \in 0..MaxLoads
<1>0. \A e \in Entries : Document(e) => Loaded(e)
    BY DocumentIs
<1> HIDE DEF Loaded
<1>1. ASSUME NEW p \in Paths, Open(p) PROVE TypeOK'
  <2>1. Entry(p, None) \in Entries
      BY EntryType DEF Routed
  <2>2. past' \in Seq(Entries) /\ Len(past') <= MaxPast
      BY <1>1, SessionAssumption DEF Open
  <2>3. Loaded(Entry(p, None))
      BY <1>0, <1>1, <2>1 DEF Open
  <2> QED
      BY <1>1, <2>1, <2>2, <2>3 DEF Open, TypeOK, Loaded
<1>2. ASSUME Reload PROVE TypeOK'
  <2>1. here \in Entries /\ Document(here)
      BY <1>2 DEF Reload, TypeOK
  <2>2. Loaded(here)
      BY <1>0, <2>1
  <2> QED
      BY <1>2, <2>1, <2>2 DEF Reload, TypeOK, Loaded
<1>3. ASSUME Back PROVE TypeOK'
  <2>1. past \in Seq(Entries) /\ Len(past) <= MaxPast /\ Len(past) \in Nat \ {0} /\ MaxPast \in Nat
      BY <1>3, SessionAssumption DEF Back, TypeOK
  <2>2. past[Len(past)] \in Entries
      BY <2>1
  <2>3. SubSeq(past, 1, Len(past) - 1) \in Seq(Entries)
        /\ Len(SubSeq(past, 1, Len(past) - 1)) = Len(past) - 1
    <3> DEFINE n == Len(past) - 1
    <3>1. n \in Nat /\ 1 \in Int /\ n \in Int
        BY <2>1
    <3>2. \A i \in 1..n : past[i] \in Entries
        BY <2>1
    <3> HIDE DEF n
    <3>3. /\ SubSeq(past, 1, n) \in Seq(Entries)
          /\ Len(SubSeq(past, 1, n)) = IF 1 <= n THEN n - 1 + 1 ELSE 0
        BY <3>1, <3>2, SubSeqProperties
    <3>4. Len(SubSeq(past, 1, n)) = n
        BY <3>1, <3>3
    <3> QED
        BY <3>3, <3>4 DEF n
  <2>4. RouteTyped'
      BY <1>3, <2>1, <2>2, <2>3, RenderedIs DEF Back
  <2> QED
      BY <1>3, <2>4 DEF Back, TypeOK
<1>4. ASSUME Expire PROVE TypeOK'
    BY ZenonT(60), <1>4, FaultTyped DEF Expire, TypeOK
<1>5. ASSUME IdleDelete PROVE TypeOK'
  <2>1. ASSUME Document(Entry("/unlock", None)), UNCHANGED faults, past' = <<>>, disk' = Deleted,
               erased' = TRUE, Turns, UNCHANGED <<mixed, cookie, vault>>
        PROVE  TypeOK'
    <3>1. Entry("/unlock", None) \in Entries
        BY EntryType, GatesApart DEF Routed, Gates
    <3>2. past' \in Seq(Entries) /\ Len(past') <= MaxPast
        BY <2>1, SessionAssumption
    <3>3. Loaded(Entry("/unlock", None))
        BY <1>0, <2>1, <3>1
    <3> QED
        BY <2>1, <3>1, <3>2, <3>3 DEF Deleted, TypeOK, Loaded
  <2>2. ASSUME Fault, Ends("idle"), mixed' = TRUE,
               UNCHANGED <<keys, route, user, booting, signingOut, email, goal, forgotten,
                           erased, strayed, cookie, vault>>
        PROVE  TypeOK'
      BY <2>2, FaultTyped, TaskEnds DEF TypeOK, Tasks
  <2> QED
      BY <1>5, <2>1, <2>2 DEF IdleDelete
<1> QED
    BY <1>1, <1>2, <1>3, <1>4, <1>5

\* The check on load and routeAfterAuth keep the types.
LEMMA RoutingTyped ==
    ASSUME TypeOK, NEW t \in {"boot", "signin"},
           BootMe \/ SignInMe \/ RouteVault(t) \/ RouteGet(t) \/ RouteFill(t)
    PROVE  TypeOK'
<1> USE DEF FlagsTyped, RouteTyped, TasksTyped, BoundsTyped, keys, route, bounds, told,
           Wants, Turns, Same, Forgets
<1>1. t \in Tasks /\ "boot" \in Tasks /\ "signin" \in Tasks
    BY DEF Tasks
<1>2. here \in Entries
    BY DEF TypeOK
<1>3. task[t].target \in Views /\ task[t].from \in Routed /\ task[t].got \in BOOLEAN
    BY <1>1 DEF TypeOK, Runs, Routed
<1>4. \A v \in Views, f \in Routed : Entry(v, f) \in Entries
    BY EntryType, GatesApart
<1>5. \A f \in Routed : Entry("/setup", f) \in Entries /\ Entry("/unlock", f) \in Entries
    BY EntryType, GatesApart DEF Gates
<1>6. \A u \in Tasks : Done(u) => TasksTyped' /\ booting' \in BOOLEAN
    BY TaskEnds DEF Done, TypeOK
<1>7. \A u \in Tasks, pc \in Pcs : Goes(u, pc) => TasksTyped'
    BY TaskGoes
<1>8. {"vault", "get"} \subseteq Pcs
    BY DEF Pcs
<1>9. Fine \/ Fault => BoundsTyped'
    BY FaultTyped
<1>10. \A e \in Entries : Push(e) \/ Replace(e) => RouteTyped'
    BY PushType, ReplaceType
<1>11. None \in Routed
    BY DEF Routed
<1>12. ASSUME BootMe PROVE TypeOK'
  <2>1. TasksTyped' /\ booting' \in BOOLEAN
      BY <1>1, <1>6, <1>7, <1>8, <1>12 DEF BootMe, TypeOK
  <2>2. RouteTyped'
      BY <1>2, <1>10, <1>12 DEF BootMe, TypeOK
  <2>3. BoundsTyped'
      BY <1>9, <1>12 DEF BootMe
  <2> QED
      BY ZenonT(60), <1>12, <2>1, <2>2, <2>3 DEF BootMe, TypeOK
<1>13. ASSUME SignInMe PROVE TypeOK'
  <2>1. TasksTyped'
      BY <1>1, <1>7, <1>8, <1>13, TaskEnds DEF SignInMe
  <2>2. RouteTyped'
      BY <1>2, <1>10, <1>13 DEF SignInMe, TypeOK
  <2>3. BoundsTyped'
      BY <1>9, <1>13 DEF SignInMe
  <2> QED
      BY ZenonT(60), <1>13, <2>1, <2>2, <2>3 DEF SignInMe, TypeOK
<1>14. ASSUME RouteVault(t) PROVE TypeOK'
  <2>1. TasksTyped' /\ booting' \in BOOLEAN
      BY <1>1, <1>6, <1>7, <1>8, <1>14 DEF RouteVault, TypeOK
  <2>2. RouteTyped'
      BY <1>3, <1>4, <1>5, <1>10, <1>11, <1>14 DEF RouteVault, TypeOK
  <2>3. BoundsTyped'
      BY <1>9, <1>14 DEF RouteVault
  <2>4. /\ goal' \in Views \cup {None} /\ forgotten' \in BOOLEAN
        /\ mixed' \in BOOLEAN /\ strayed' \in BOOLEAN
      BY <1>14 DEF RouteVault, TypeOK
  <2> QED
      BY <1>14, <2>1, <2>2, <2>3, <2>4 DEF RouteVault, TypeOK
<1>15. ASSUME RouteGet(t) PROVE TypeOK'
  <2>1. TasksTyped' /\ booting' \in BOOLEAN
      BY <1>1, <1>6, <1>15, TaskGot DEF RouteGet, TypeOK
  <2>2. RouteTyped'
      BY <1>3, <1>4, <1>10, <1>11, <1>15 DEF RouteGet, TypeOK
  <2>3. BoundsTyped'
      BY <1>9, <1>15 DEF RouteGet
  <2> QED
      BY ZenonT(60), <1>15, <2>1, <2>2, <2>3 DEF RouteGet, TypeOK
<1>16. ASSUME RouteFill(t) PROVE TypeOK'
  <2>1. TasksTyped' /\ booting' \in BOOLEAN
      BY <1>1, <1>6, <1>16 DEF RouteFill
  <2>2. Carried(t) \in Routed
      BY <1>3 DEF Carried, Or, Routed
  <2>3. RouteTyped'
      BY <1>3, <1>4, <1>5, <1>10, <1>16, <2>2 DEF RouteFill
  <2> QED
      BY <1>3, <1>16, <2>1, <2>3 DEF RouteFill, TypeOK
<1> QED
    BY <1>12, <1>13, <1>14, <1>15, <1>16

\* The pages keep the types.
LEMMA PagesTyped ==
    ASSUME TypeOK,
           \/ GoLogin \/ LeaveLogin \/ CodeSent \/ ChangeEmail \/ Verified
           \/ UnlockSubmit \/ UnlockDerive \/ UnlockPut
           \/ SetupSubmit \/ SetupDerive \/ SetupPut \/ SetupPost \/ Restored
    PROVE  TypeOK'
<1> USE DEF FlagsTyped, RouteTyped, TasksTyped, BoundsTyped, keys, route, bounds, told,
           Wants, Turns, Same, Forgets
<1>1. {"signin", "unlock", "setup"} \subseteq Tasks
    BY DEF Tasks
<1>2. {"me", "derive", "put", "post"} \subseteq Pcs
    BY DEF Pcs
<1>3. here.from \in Routed /\ None \in Routed /\ \A f \in Routed : Or(f, Home) \in Views
    BY GatesApart DEF TypeOK, Entries, Routed, Or
<1>4. \A f \in Routed, p \in Gates \cup Views : Entry(p, f) \in Entries
    BY EntryType, GatesApart
<1>5. {"/", "/login", "/code", "/setup", "/unlock"} \subseteq Gates \cup Views
    BY DEF Gates
<1>6. \A e \in Entries : Push(e) => RouteTyped'
    BY PushType
<1>7. Fine \/ Fault => BoundsTyped'
    BY FaultTyped
<1>8. \A u \in Tasks, pc \in Pcs : Goes(u, pc) \/ Begins(u, pc) \/ Ends(u) => TasksTyped'
    BY TaskGoes, TaskBegins, TaskEnds
<1>9. \A u \in Tasks, pc \in Pcs : Begins(u, pc) => mixed' \in BOOLEAN
    BY DEF Begins
<1>10. \A u \in Tasks : task[u].from \in Routed
    BY DEF TypeOK, Runs, Routed
<1>11. ASSUME NEW e \in Entries, Link(e), goal' \in Views \cup {None}, forgotten' \in BOOLEAN, email' \in BOOLEAN
       PROVE  TypeOK'
  <2>1. RouteTyped'
      BY <1>6, <1>11 DEF Link
  <2> QED
      BY <1>11, <2>1 DEF Link, TypeOK
<1>12. CASE GoLogin
    BY <1>3, <1>4, <1>5, <1>11, <1>12 DEF GoLogin, TypeOK
<1>13. CASE LeaveLogin
    BY <1>3, <1>4, <1>5, <1>11, <1>13 DEF LeaveLogin, TypeOK
<1>14. CASE CodeSent
    BY <1>3, <1>4, <1>5, <1>11, <1>14 DEF CodeSent, TypeOK
<1>15. CASE ChangeEmail
    BY <1>3, <1>4, <1>5, <1>11, <1>15 DEF ChangeEmail, TypeOK
<1>16. CASE Verified
  <2>1. TasksTyped'
      BY <1>1, <1>2, <1>3, <1>16, TaskAt DEF Verified
  <2> QED
      BY <1>16, <2>1 DEF Verified, TypeOK
<1>17. CASE UnlockSubmit
    BY <1>1, <1>2, <1>8, <1>9, <1>17 DEF UnlockSubmit, TypeOK
<1>18. CASE UnlockDerive
  <2>1. TasksTyped'
      BY <1>1, <1>2, <1>8, <1>18 DEF UnlockDerive
  <2> QED
      BY ZenonT(60), <1>18, <2>1 DEF UnlockDerive, TypeOK
<1>19. CASE UnlockPut
  <2>1. TasksTyped' /\ BoundsTyped'
      BY <1>1, <1>2, <1>7, <1>8, <1>19 DEF UnlockPut
  <2>2. RouteTyped'
    <3>1. Entry(Or(task["unlock"].from, Home), None) \in Entries
        BY <1>1, <1>3, <1>4, <1>10
    <3> QED
        BY <1>6, <1>19, <3>1 DEF UnlockPut, TypeOK
  <2> QED
      BY ZenonT(60), <1>19, <2>1, <2>2 DEF UnlockPut, TypeOK
<1>20. CASE SetupSubmit
    BY <1>1, <1>2, <1>8, <1>9, <1>20 DEF SetupSubmit, TypeOK
<1>24. CASE SetupDerive
  <2>1. TasksTyped'
      BY <1>1, <1>2, <1>8, <1>24 DEF SetupDerive
  <2> QED
      BY ZenonT(60), <1>24, <2>1 DEF SetupDerive, TypeOK
<1>21. CASE SetupPut
  <2>1. TasksTyped'
      BY <1>1, <1>2, <1>8, <1>21 DEF SetupPut
  <2>2. BoundsTyped'
      BY <1>7, <1>21 DEF SetupPut
  <2> QED
      BY ZenonT(60), <1>21, <2>1, <2>2 DEF SetupPut, TypeOK
<1>22. CASE SetupPost
  <2>1. TasksTyped'
      BY <1>1, <1>22, TaskEnds DEF SetupPost
  <2>2. Fine \/ Fault
      BY <1>22 DEF SetupPost
  <2>3. RouteTyped'
    <3>1. Entry(Or(task["setup"].from, Home), None) \in Entries
        BY <1>1, <1>3, <1>4, <1>10
    <3> QED
        BY <1>6, <1>22, <3>1 DEF SetupPost, TypeOK
  <2>4. vault' \in BOOLEAN
      BY <1>22 DEF SetupPost, TypeOK
  <2> QED
      BY <1>7, <1>22, <2>1, <2>2, <2>3, <2>4 DEF SetupPost, TypeOK
<1>23. CASE Restored
  <2>1. RouteTyped' /\ BoundsTyped'
      BY <1>3, <1>4, <1>5, <1>6, <1>7, <1>23 DEF Restored, TypeOK
  <2> QED
      BY <1>23, <2>1 DEF Restored, TypeOK
<1> QED
    BY <1>12, <1>13, <1>14, <1>15, <1>16, <1>17, <1>18, <1>19, <1>20, <1>21, <1>22, <1>23,
       <1>24

\* The workspace keeps the types.
LEMMA InsideTyped ==
    ASSUME TypeOK,
           \/ (\E v \in Views : Navigate(v)) \/ ReadKey \/ ReadGet \/ ReadFill
           \/ SignOut \/ IdleLock \/ SignOutDelete \/ (\E ok \in BOOLEAN : SignOutCall(ok))
    PROVE  TypeOK'
<1> USE DEF FlagsTyped, RouteTyped, TasksTyped, BoundsTyped, keys, route, bounds, told,
           Wants, Turns, Same, Forgets
<1>1. {"read", "signout", "idle"} \subseteq Tasks
    BY DEF Tasks
<1>2. {"get", "api"} \subseteq Pcs
    BY DEF Pcs
<1>3. Fine \/ Fault => BoundsTyped'
    BY FaultTyped
<1>4. \A u \in Tasks : Got(u) \/ Clears(u) \/ Ends(u) => TasksTyped'
    BY TaskGot, TaskClears, TaskEnds
<1>5. \A u \in Tasks, pc \in Pcs : Goes(u, pc) \/ Begins(u, pc) => TasksTyped'
    BY TaskGoes, TaskBegins
<1>6. ASSUME NEW v \in Views, Navigate(v) PROVE TypeOK'
  <2>1. Entry(v, None) \in Entries
      BY EntryType, GatesApart DEF Routed
  <2>2. RouteTyped'
      BY <1>6, <2>1, PushType DEF Navigate, Link
  <2> QED
      BY <1>6, <2>2 DEF Navigate, Link, TypeOK
<1>7. CASE ReadKey
  <2>1. TasksTyped' /\ mixed' \in BOOLEAN
      BY <1>1, <1>2, <1>5, <1>7 DEF ReadKey, Begins
  <2> QED
      BY <1>7, <2>1 DEF ReadKey, TypeOK
<1>8. CASE ReadGet
  <2>1. TasksTyped' /\ BoundsTyped'
      BY <1>1, <1>3, <1>4, <1>8 DEF ReadGet
  <2> QED
      BY ZenonT(60), <1>8, <2>1 DEF ReadGet, TypeOK
<1>9. CASE ReadFill
  <2>1. TasksTyped' /\ task["read"].got \in BOOLEAN
      BY <1>1, <1>4, <1>9 DEF ReadFill, TypeOK, Runs
  <2> QED
      BY <1>9, <2>1 DEF ReadFill, TypeOK
<1>10. \A u \in Tasks : Clears(u) =>
          mem' \in BOOLEAN /\ erased' \in BOOLEAN /\ mixed' \in BOOLEAN /\ strayed' \in BOOLEAN
    BY DEF Clears, Dropped
<1>11. CASE SignOut
    BY <1>1, <1>4, <1>10, <1>11 DEF SignOut, TypeOK
<1>12. CASE IdleLock
    BY <1>1, <1>4, <1>10, <1>12 DEF IdleLock, TypeOK
<1>13. CASE SignOutDelete
  <2>1. TasksTyped' /\ BoundsTyped'
      BY <1>1, <1>2, <1>3, <1>4, <1>5, <1>13 DEF SignOutDelete
  <2> QED
      BY ZenonT(60), <1>13, <2>1 DEF SignOutDelete, Deleted, TypeOK
<1>14. ASSUME NEW ok \in BOOLEAN, SignOutCall(ok) PROVE TypeOK'
  <2>1. TasksTyped' /\ BoundsTyped'
      BY <1>1, <1>3, <1>4, <1>14 DEF SignOutCall
  <2>2. Entry("/", None) \in Entries
      BY EntryType, GatesApart DEF Routed, Gates
  <2>3. RouteTyped'
      BY <1>14, <2>2, PushType DEF SignOutCall, Leaves
  <2>4. cookie' \in BOOLEAN /\ user' \in BOOLEAN /\ goal' \in Views \cup {None}
        /\ forgotten' \in BOOLEAN
      BY <1>14 DEF SignOutCall, Leaves, TypeOK
  <2> QED
      BY <1>14, <2>1, <2>3, <2>4 DEF SignOutCall, TypeOK
<1> QED
    BY <1>6, <1>7, <1>8, <1>9, <1>11, <1>12, <1>13, <1>14

\* Every step keeps the types.
LEMMA StepTyped == TypeOK /\ [Next]_vars => TypeOK'
<1> SUFFICES ASSUME TypeOK, [Next]_vars PROVE TypeOK'
    OBVIOUS
<1>1. CASE UNCHANGED vars
    BY <1>1 DEF vars, keys, route, bounds, told, TypeOK
<1>2. CASE Next
    BY <1>2, BrowserTyped, RoutingTyped, PagesTyped, InsideTyped
    DEF Next, Visitor, BootSteps, SignInSteps, UnlockSteps, SetupSteps, ReadSteps,
        SignOutSteps, Routing
<1> QED
    BY <1>1, <1>2

\* The router's entries, the key layers and the functions under way are what App.tsx and
\* keystore.ts make of them, whatever the user does.
THEOREM SessionTyped == Spec => []TypeOK
BY InitTyped, StepTyped, PTL DEF Spec

-----------------------------------------------------------------------------
(* The key.  A clearing that no read or caching overlaps leaves nothing that  *)
(* could bring the key back, and what a read has got is still in IndexedDB.    *)

Active(t) == task[t].pc # "idle"

\* While the key is being cleared the cache is empty and nobody is filling it.
Dropping ==
    /\ Clearing => strayed
    /\ Clearing /\ ~mixed => ~mem /\ ~Touching

\* After that neither layer has the key and no function carries it.
Gone ==
    erased /\ ~mixed =>
        /\ ~mem /\ ~disk
        /\ \A t \in Tasks :
              /\ task[t].pc \notin {"derive", "put"}
              /\ task[t].pc = "fill" => ~task[t].got

\* What was read is there.
Filled == ~mixed => \A t \in Tasks : task[t].pc = "fill" /\ task[t].got => disk

KeyInv == Dropping /\ Gone /\ Filled /\ LayersAgree

\* Steps that touch neither the key nor a function.
LEMMA KeyStill ==
    ASSUME KeyInv, UNCHANGED <<task, mem, disk, erased, mixed>>, strayed => strayed'
    PROVE  KeyInv'
BY DEF KeyInv, Dropping, Gone, Filled, LayersAgree, Clearing, Touching

\* The steps of a function that have nothing to do with the key.
Plain == {"idle", "me", "vault", "post", "api"}

LEMMA KeyPlain ==
    ASSUME KeyInv, NEW t \in Tasks, \A u \in Tasks \ {t} : task'[u] = task[u],
           task[t].pc \in Plain, task'[t].pc \in Plain,
           UNCHANGED <<mem, disk, erased, mixed>>, strayed => strayed'
    PROVE  KeyInv'
<1>1. Clearing' <=> Clearing
    BY DEF Clearing, Plain, Tasks
<1>2. Touching' <=> Touching
    BY DEF Touching, Plain
<1>3. \A u \in Tasks : task'[u].pc \in {"derive", "put", "fill"} => task'[u] = task[u]
    BY DEF Plain
<1>4. /\ task'["unlock"].pc = "put" <=> task["unlock"].pc = "put"
      /\ task'["setup"].pc = "put" <=> task["setup"].pc = "put"
    BY DEF Plain, Tasks
<1> QED
    BY <1>1, <1>2, <1>3, <1>4 DEF KeyInv, Dropping, Gone, Filled, LayersAgree

\* A function is about to ask for the key or to derive it.
LEMMA KeyBegins ==
    ASSUME TypeOK, KeyInv, NEW t \in Tasks, \A u \in Tasks \ {t} : task'[u] = task[u],
           task[t].pc \in Plain, task'[t].pc \in {"get", "derive", "put"},
           mixed' <=> mixed \/ Clearing,
           task'[t].pc # "get" => ~erased',
           task'[t].pc = "put" => t \in {"unlock", "setup"},
           mem' <=> (mem \/ task'[t].pc = "put"), UNCHANGED disk, UNCHANGED strayed,
           erased' => erased
    PROVE  KeyInv'
<1>1. Clearing' <=> Clearing
    BY DEF Clearing, Plain, Tasks
<1>2. \A u \in Tasks : task'[u].pc = "fill" => task'[u] = task[u]
    OBVIOUS
<1>3. Dropping'
    BY <1>1 DEF KeyInv, Dropping
<1>4. Gone'
    BY DEF KeyInv, Gone
<1>5. Filled'
    BY <1>2 DEF KeyInv, Filled
<1>6. LayersAgree'
  <2> SUFFICES ASSUME ~mixed', ~Clearing', task'["unlock"].pc # "put", task'["setup"].pc # "put", mem'
               PROVE  disk'
      BY DEF LayersAgree
  <2>1. task["unlock"].pc # "put" /\ task["setup"].pc # "put"
      BY DEF Plain, Tasks
  <2>2. task'[t].pc # "put"
      OBVIOUS
  <2> QED
      BY <1>1, <2>1, <2>2 DEF KeyInv, LayersAgree
<1> QED
    BY <1>3, <1>4, <1>5, <1>6 DEF KeyInv

\* A function fills the cache with what it has read, and ends.
LEMMA KeyFills ==
    ASSUME TypeOK, KeyInv, NEW t \in Tasks, \A u \in Tasks \ {t} : task'[u] = task[u],
           task[t].pc = "fill", task'[t].pc = "idle",
           mem' = (mem \/ task[t].got), UNCHANGED <<disk, erased, mixed, strayed>>
    PROVE  KeyInv'
<1>1. Clearing' <=> Clearing
    BY DEF Clearing, Tasks
<1>2. Touching
    BY DEF Touching
<1>3. \A u \in Tasks : task'[u].pc \in {"derive", "put", "fill"} => task'[u] = task[u]
    OBVIOUS
<1>4. ~mixed => (task[t].got => disk)
    BY DEF KeyInv, Filled
<1>5. erased /\ ~mixed => ~task[t].got
    BY DEF KeyInv, Gone
<1>6. mem' <=> mem \/ task[t].got
    OBVIOUS
<1>7. Dropping'
    BY <1>1, <1>2 DEF KeyInv, Dropping
<1>8. Gone'
    BY <1>3, <1>5, <1>6 DEF KeyInv, Gone
<1>9. Filled'
    BY <1>3 DEF KeyInv, Filled
<1>10. LayersAgree'
  <2>1. /\ task'["unlock"].pc # "put" => task["unlock"].pc # "put"
        /\ task'["setup"].pc # "put" => task["setup"].pc # "put"
      BY DEF Tasks
  <2> QED
      BY <1>1, <1>4, <1>6, <2>1 DEF KeyInv, LayersAgree
<1> QED
    BY <1>7, <1>8, <1>9, <1>10 DEF KeyInv

\* IndexedDB failed: nothing is claimed of the key any more.
LEMMA KeyFails ==
    ASSUME mixed', Clearing' => Clearing, KeyInv, strayed => strayed'
    PROVE  KeyInv'
BY DEF KeyInv, Dropping, Gone, Filled, LayersAgree

\* The database is read.
LEMMA KeyGot ==
    ASSUME TypeOK, KeyInv, NEW t \in Tasks, \A u \in Tasks \ {t} : task'[u] = task[u],
           task[t].pc = "get", task'[t].pc = "fill", task'[t].got = disk,
           UNCHANGED <<mem, disk, erased, mixed, strayed>>
    PROVE  KeyInv'
<1>1. Clearing' <=> Clearing
    BY DEF Clearing, Tasks
<1>2. Touching
    BY DEF Touching
<1>3. task'[t].got <=> disk
    OBVIOUS
<1>4. Dropping'
    BY <1>1, <1>2 DEF KeyInv, Dropping
<1>5. Gone'
    BY <1>3 DEF KeyInv, Gone
<1>6. Filled'
    BY <1>3 DEF KeyInv, Filled
<1>7. LayersAgree'
  <2>1. /\ task'["unlock"].pc # "put" => task["unlock"].pc # "put"
        /\ task'["setup"].pc # "put" => task["setup"].pc # "put"
      BY DEF Tasks
  <2> QED
      BY <1>1, <2>1 DEF KeyInv, LayersAgree
<1> QED
    BY <1>4, <1>5, <1>6, <1>7 DEF KeyInv

\* Unlocking proves a passphrase: the key is in memory, and goes to the database.
LEMMA KeyUnlock ==
    ASSUME TypeOK, KeyInv, UnlockDerive \/ UnlockPut \/ SetupDerive \/ SetupPut
    PROVE  KeyInv'
<1>1. {"unlock", "setup"} \subseteq Tasks /\ {"put", "post"} \subseteq Pcs
    BY DEF Tasks, Pcs
<1>2. ASSUME NEW t \in {"unlock", "setup"}, \A u \in Tasks \ {t} : task'[u] = task[u],
             task[t].pc \in {"derive", "put"}
      PROVE  (Clearing' <=> Clearing) /\ Touching /\ (task'["read"] = task["read"])
    BY <1>1, <1>2 DEF Clearing, Touching, Tasks
<1>3. ASSUME NEW t \in {"unlock", "setup"}, NEW o \in {"unlock", "setup"} \ {t},
             task[t].pc = "derive", UNCHANGED <<disk, erased, mixed, strayed>>,
             (Goes(t, "put") /\ mem' = TRUE) \/ (Ends(t) /\ mem' = mem)
      PROVE  KeyInv'
  <2>1. /\ \A u \in Tasks \ {t} : task'[u] = task[u]
        /\ \/ task'[t].pc = "put" /\ mem' = TRUE
           \/ task'[t].pc = "idle" /\ mem' = mem
      BY <1>1, <1>3, TaskGoes, TaskEnds
  <2>3. (Clearing' <=> Clearing) /\ Touching
      BY <1>2, <1>3, <2>1
  <2>4. Dropping'
      BY <1>3, <2>3 DEF KeyInv, Dropping
  <2>5. Gone'
      BY <1>1, <1>3, <2>1 DEF KeyInv, Gone
  <2>6. Filled'
      BY <1>3, <2>1 DEF KeyInv, Filled
  <2>7. LayersAgree'
    <3>1. task'[o] = task[o]
        BY <1>1, <2>1
    <3> QED
        BY <1>3, <2>1, <2>3, <3>1 DEF KeyInv, LayersAgree
  <2> QED
      BY <2>4, <2>5, <2>6, <2>7 DEF KeyInv
<1>4. ASSUME NEW t \in {"unlock", "setup"}, \A u \in Tasks \ {t} : task'[u] = task[u],
             task[t].pc = "put", task'[t].pc \in {"idle", "post"},
             UNCHANGED <<mem, erased, strayed>>,
             (disk' = TRUE /\ UNCHANGED mixed) \/ mixed' = TRUE
      PROVE  KeyInv'
  <2>1. (Clearing' <=> Clearing) /\ Touching
      BY <1>2, <1>4
  <2>2. CASE mixed' = TRUE
      BY <1>4, <2>1, <2>2, KeyFails
  <2>3. CASE disk' = TRUE /\ UNCHANGED mixed
    <3>1. Dropping'
        BY <1>4, <2>1, <2>3 DEF KeyInv, Dropping
    <3>2. Gone'
        BY <1>1, <1>4, <2>3 DEF KeyInv, Gone
    <3>3. Filled' /\ LayersAgree'
        BY <2>3 DEF Filled, LayersAgree
    <3> QED
        BY <3>1, <3>2, <3>3 DEF KeyInv
  <2> QED
      BY <1>4, <2>2, <2>3
<1>5. CASE UnlockPut
  <2>1. /\ \A u \in Tasks \ {"unlock"} : task'[u] = task[u]
        /\ task'["unlock"].pc = "idle" /\ task["unlock"].pc = "put"
      BY <1>1, <1>5, TaskEnds DEF UnlockPut
  <2>2. /\ UNCHANGED <<mem, erased, strayed>>
        /\ (disk' = TRUE /\ UNCHANGED mixed) \/ mixed' = TRUE
      BY <1>5 DEF UnlockPut
  <2> QED
      BY <1>4, <2>1, <2>2
<1>7. CASE UnlockDerive
    BY <1>3, <1>7 DEF UnlockDerive, told
<1>8. CASE SetupDerive
    BY <1>3, <1>8 DEF SetupDerive, told
<1>6. CASE SetupPut
  <2>1. /\ \A u \in Tasks \ {"setup"} : task'[u] = task[u]
        /\ task'["setup"].pc \in {"idle", "post"} /\ task["setup"].pc = "put"
      BY <1>1, <1>6, TaskGoes, TaskEnds DEF SetupPut
  <2>2. /\ UNCHANGED <<mem, erased, strayed>>
        /\ (disk' = TRUE /\ UNCHANGED mixed) \/ mixed' = TRUE
      BY <1>6 DEF SetupPut
  <2> QED
      BY <1>4, <2>1, <2>2
<1> QED
    BY <1>5, <1>6, <1>7, <1>8

\* A clearing begins: the cache is empty at once.
LEMMA KeyClears ==
    ASSUME TypeOK, KeyInv, NEW t \in {"signout", "idle"}, Clears(t)
    PROVE  KeyInv'
<1>1. t \in Tasks
    BY DEF Tasks
<1>2. /\ \A u \in Tasks \ {t} : task'[u] = task[u]
      /\ task'[t].pc = "delete" /\ task[t].pc = "idle"
    BY <1>1, TaskClears
<1>3. /\ mem' = FALSE /\ erased' = FALSE /\ strayed' = TRUE
      /\ mixed' <=> (Touching \/ (Clearing /\ mixed))
    BY DEF Clears, Dropped
<1>4. Clearing'
    BY <1>2 DEF Clearing
<1>5. Touching' <=> Touching
    BY <1>2 DEF Touching
<1>6. ~mixed' => \A u \in Tasks : task'[u].pc # "fill"
    BY <1>2, <1>3 DEF Touching
<1> QED
    BY <1>3, <1>4, <1>5, <1>6 DEF KeyInv, Dropping, Gone, Filled, LayersAgree

\* The database's key is deleted, or could not be.
LEMMA KeyDeleted ==
    ASSUME TypeOK, KeyInv, SignOutDelete
    PROVE  KeyInv'
<1>1. "signout" \in Tasks /\ "api" \in Pcs
    BY DEF Tasks, Pcs
<1>2. /\ \A u \in Tasks \ {"signout"} : task'[u] = task[u]
      /\ task'["signout"].pc \in {"api", "idle"} /\ task["signout"].pc = "delete"
    BY <1>1, TaskGoes, TaskEnds DEF SignOutDelete
<1>3. Clearing /\ strayed' = strayed /\ mem' = mem
    BY <1>2 DEF Clearing, SignOutDelete
<1>4. CASE mixed' = TRUE
    BY <1>3, <1>4, KeyFails
<1>5. CASE disk' = Deleted /\ erased' = TRUE /\ UNCHANGED mixed
  <2>1. ~mixed => ~mem /\ \A u \in Tasks : task'[u].pc \notin {"get", "fill", "derive", "put"}
      BY <1>2, <1>3 DEF KeyInv, Dropping, Touching
  <2> QED
      BY <1>3, <1>5, <2>1 DEF KeyInv, Dropping, Gone, Filled, LayersAgree, Touching, Deleted
<1> QED
    BY <1>4, <1>5 DEF SignOutDelete

\* A new document starts without a key in memory; the idle lock's has deleted the other.
LEMMA KeyDocument ==
    ASSUME TypeOK, KeyInv, NEW e \in Entries, Document(e), UNCHANGED mixed,
           UNCHANGED <<disk, erased>> \/ disk' = FALSE
    PROVE  KeyInv'
<1>1. mem' = FALSE /\ \A t \in Tasks : task'[t].pc \in {"idle", "me"}
    BY DocumentIs
<1>2. ~Clearing' /\ ~Touching'
    BY <1>1 DEF Clearing, Touching, Tasks
<1> QED
    BY <1>1, <1>2 DEF KeyInv, Dropping, Gone, Filled, LayersAgree

\* Every step keeps what is said of the key.
LEMMA KeyStep == TypeOK /\ KeyInv /\ [Next]_vars => KeyInv'
<1> SUFFICES ASSUME TypeOK, KeyInv, [Next]_vars PROVE KeyInv'
    OBVIOUS
<1> USE DEF keys, told
<1>1. Tasks = {"boot", "signin", "unlock", "setup", "read", "signout", "idle"}
    BY DEF Tasks
<1>2. {"me", "vault", "get", "derive", "put"} \subseteq Pcs
    BY DEF Pcs
<1>3. CASE UNCHANGED vars
    BY <1>3, KeyStill DEF vars
<1>4. ASSUME NEW e \in Entries, Link(e) PROVE KeyInv'
    BY <1>4, KeyStill DEF Link
<1>5. CASE Back \/ Expire \/ Restored
    BY <1>5, KeyStill DEF Back, Expire, Restored
<1>6. CASE GoLogin \/ LeaveLogin \/ CodeSent \/ ChangeEmail \/ \E v \in Views : Navigate(v)
  <2>1. here.from \in Routed /\ None \in Routed
      BY DEF TypeOK, Entries, Routed
  <2>2. \A p \in Gates \cup Views, f \in Routed : Entry(p, f) \in Entries
      BY EntryType, GatesApart
  <2> QED
      BY <1>4, <1>6, <2>1, <2>2 DEF GoLogin, LeaveLogin, CodeSent, ChangeEmail, Navigate, Gates
<1>7. CASE (\E p \in Paths : Open(p)) \/ Reload
  <2>1. here \in Entries /\ \A p \in Paths : Entry(p, None) \in Entries
      BY EntryType DEF TypeOK, Routed
  <2> QED
      BY <1>7, <2>1, KeyDocument DEF Open, Reload
<1>8. ASSUME NEW t \in Tasks, Ends(t) \/ (\E pc \in {"me", "vault"} : Goes(t, pc)),
             task[t].pc \in Plain, UNCHANGED <<mem, disk, erased, mixed>>, strayed => strayed'
      PROVE  KeyInv'
  <2>1. /\ \A u \in Tasks \ {t} : task'[u] = task[u]
        /\ task'[t].pc \in {"idle", "me", "vault"}
      BY <1>2, <1>8, TaskEnds, TaskGoes
  <2> QED
      BY <1>8, <2>1, KeyPlain DEF Plain
<1>9. CASE BootMe
  <2>1. task["boot"].pc \in Plain
      BY <1>9 DEF BootMe, Plain
  <2> QED
      BY <1>1, <1>8, <1>9, <2>1 DEF BootMe, Done
<1>10. CASE SignInMe
  <2>1. task["signin"].pc \in Plain
      BY <1>10 DEF SignInMe, Plain
  <2> QED
      BY <1>1, <1>8, <1>10, <2>1 DEF SignInMe
<1>11. ASSUME NEW t \in {"boot", "signin"}, RouteVault(t) PROVE KeyInv'
  <2>1. task[t].pc \in Plain /\ t \in Tasks
      BY <1>1, <1>11 DEF RouteVault, Plain
  <2>2. /\ UNCHANGED <<mem, disk, erased>> /\ (strayed' = strayed \/ strayed' = TRUE)
        /\ \/ Done(t) /\ UNCHANGED mixed
           \/ Goes(t, "get") /\ mixed' = (mixed \/ Clearing) /\ UNCHANGED strayed
      BY <1>11 DEF RouteVault
  <2>3. CASE Done(t) /\ UNCHANGED mixed
      BY <1>8, <2>1, <2>2, <2>3 DEF Done
  <2>4. CASE Goes(t, "get") /\ mixed' = (mixed \/ Clearing) /\ UNCHANGED strayed
    <3>1. (\A u \in Tasks \ {t} : task'[u] = task[u]) /\ task'[t].pc = "get"
        BY <1>2, <2>1, <2>4, TaskGoes
    <3> QED
        BY <2>1, <2>2, <2>4, <3>1, KeyBegins
  <2> QED
      BY <2>2, <2>3, <2>4
<1>12. ASSUME NEW t \in Tasks, task[t].pc = "get", UNCHANGED <<mem, disk, erased>>,
              \/ Got(t) /\ UNCHANGED <<mixed, strayed>>
              \/ Ends(t) /\ mixed' = TRUE /\ (strayed => strayed')
       PROVE  KeyInv'
  <2>1. CASE Got(t) /\ UNCHANGED <<mixed, strayed>>
    <3>1. /\ \A u \in Tasks \ {t} : task'[u] = task[u]
          /\ task'[t].pc = "fill" /\ task'[t].got = disk
        BY <2>1, TaskGot
    <3> QED
        BY <1>12, <2>1, <3>1, KeyGot
  <2>2. CASE Ends(t) /\ mixed' = TRUE /\ (strayed => strayed')
    <3>1. (\A u \in Tasks \ {t} : task'[u] = task[u]) /\ task'[t].pc = "idle"
        BY <2>2, TaskEnds
    <3>2. Clearing' => Clearing
        BY <1>1, <3>1 DEF Clearing
    <3> QED
        BY <2>2, <3>2, KeyFails
  <2> QED
      BY <1>12, <2>1, <2>2
<1>13. ASSUME NEW t \in {"boot", "signin"}, RouteGet(t) PROVE KeyInv'
    BY <1>1, <1>12, <1>13 DEF RouteGet, Done
<1>14. CASE ReadGet
    BY <1>1, <1>12, <1>14 DEF ReadGet
<1>15. ASSUME NEW t \in Tasks, task[t].pc = "fill", Ends(t),
              mem' = (mem \/ task[t].got), UNCHANGED <<disk, erased, mixed, strayed>>
       PROVE  KeyInv'
  <2>1. (\A u \in Tasks \ {t} : task'[u] = task[u]) /\ task'[t].pc = "idle"
      BY <1>15, TaskEnds
  <2> QED
      BY <1>15, <2>1, KeyFills
<1>16. ASSUME NEW t \in {"boot", "signin"}, RouteFill(t) PROVE KeyInv'
    BY <1>1, <1>15, <1>16 DEF RouteFill, Done
<1>17. CASE ReadFill
    BY <1>1, <1>15, <1>17 DEF ReadFill
<1>18. CASE Verified
  <2>1. (\A u \in Tasks \ {"signin"} : task'[u] = task[u]) /\ task'["signin"].pc = "me"
    <3>1. here.from \in Routed /\ Or(here.from, Home) \in Views
        BY GatesApart DEF TypeOK, Entries, Routed, Or
    <3> QED
        BY <1>1, <1>2, <1>18, <3>1, TaskAt DEF Verified
  <2>2. task["signin"].pc = "idle"
      BY <1>18 DEF Verified, MayBegin, Idle
  <2> QED
      BY <1>1, <1>18, <2>1, <2>2, KeyPlain DEF Verified, Plain
<1>19. ASSUME NEW t \in Tasks, NEW pc \in {"get", "derive", "put"}, Begins(t, pc),
              pc = "put" => t = "setup", pc # "get" => erased' = FALSE, erased' = erased \/ erased' = FALSE,
              IF pc = "put" THEN mem' = TRUE ELSE mem' = mem, UNCHANGED <<disk, strayed>>
       PROVE  KeyInv'
  <2>1. /\ \A u \in Tasks \ {t} : task'[u] = task[u]
        /\ task'[t].pc = pc /\ task[t].pc = "idle" /\ (mixed' <=> mixed \/ Clearing)
      BY <1>2, <1>19, TaskBegins
  <2>2. mem' <=> (mem \/ task'[t].pc = "put")
      BY <1>19, <2>1
  <2>3. task[t].pc \in Plain
      BY <2>1 DEF Plain
  <2> QED
      BY <1>19, <2>1, <2>2, <2>3, KeyBegins
<1>20. CASE UnlockSubmit
    BY <1>1, <1>19, <1>20 DEF UnlockSubmit
<1>21. CASE SetupSubmit
    BY <1>1, <1>19, <1>21 DEF SetupSubmit
<1>22. CASE ReadKey
    BY <1>1, <1>19, <1>22 DEF ReadKey
<1>23. CASE UnlockSteps \/ SetupDerive \/ SetupPut
    BY <1>23, KeyUnlock DEF UnlockSteps
<1>24. CASE SetupPost
  <2>1. task["setup"].pc \in Plain
      BY <1>24 DEF SetupPost, Plain
  <2> QED
      BY <1>1, <1>8, <1>24, <2>1 DEF SetupPost
<1>25. CASE SignOut \/ IdleLock
    BY <1>25, KeyClears DEF SignOut, IdleLock
<1>26. CASE SignOutDelete
    BY <1>26, KeyDeleted
<1>27. ASSUME NEW ok \in BOOLEAN, SignOutCall(ok) PROVE KeyInv'
  <2>1. task["signout"].pc \in Plain
      BY <1>27 DEF SignOutCall, Plain
  <2> QED
      BY <1>1, <1>8, <1>27, <2>1 DEF SignOutCall
<1>28. CASE IdleDelete
  <2>1. ASSUME Document(Entry("/unlock", None)), disk' = Deleted, UNCHANGED mixed PROVE KeyInv'
    <3>1. Entry("/unlock", None) \in Entries
        BY EntryType, GatesApart DEF Routed, Gates
    <3> QED
        BY <2>1, <3>1, KeyDocument DEF Deleted
  <2>2. ASSUME Ends("idle"), mixed' = TRUE, UNCHANGED strayed PROVE KeyInv'
    <3>1. (\A u \in Tasks \ {"idle"} : task'[u] = task[u]) /\ task'["idle"].pc = "idle"
        BY <1>1, <2>2, TaskEnds
    <3>2. Clearing' => Clearing
        BY <1>1, <3>1 DEF Clearing
    <3> QED
        BY <2>2, <3>2, KeyFails
  <2> QED
      BY <1>28, <2>1, <2>2 DEF IdleDelete
<1> QED
    BY <1>3, <1>5, <1>6, <1>7, <1>9, <1>10, <1>11, <1>13, <1>14, <1>16, <1>17, <1>18, <1>20,
       <1>21, <1>22, <1>23, <1>24, <1>25, <1>26, <1>27, <1>28
    DEF Next, Visitor, BootSteps, SignInSteps, UnlockSteps, SetupSteps, ReadSteps,
        SignOutSteps, Routing

\* The initial states say nothing wrong of the key.
LEMMA KeyInit == Init => KeyInv
<1> SUFFICES ASSUME Init PROVE KeyInv
    OBVIOUS
<1>1. \A t \in Tasks : task[t].pc \in {"idle", "me"}
    BY DEF Init, At, Idle
<1>2. ~Clearing /\ ~Touching
    BY <1>1 DEF Clearing, Touching, Tasks
<1> QED
    BY <1>1, <1>2 DEF Init, KeyInv, Dropping, Gone, Filled, LayersAgree

\* What is said of the key holds of every reachable state.
THEOREM KeySafe == Spec => []KeyInv
<1>1. Init => TypeOK /\ KeyInv
    BY InitTyped, KeyInit
<1>2. TypeOK /\ KeyInv /\ [Next]_vars => TypeOK' /\ KeyInv'
    BY StepTyped, KeyStep
<1> QED
    BY <1>1, <1>2, PTL DEF Spec

\* A key erased at sign-out or by the idle lock is in neither layer until a passphrase is
\* given, unless a read or a caching of it overlapped with the clearing (keystore.ts).
THEOREM ErasedIsErased == Spec => []ErasedStaysErased
<1>1. KeyInv => ErasedStaysErased
    BY DEF KeyInv, Gone, ErasedStaysErased
<1> QED
    BY KeySafe, <1>1, PTL

\* Memory never has a key the database lacks, once the functions that write them are over.
THEOREM LayersTogether == Spec => []LayersAgree
<1>1. KeyInv => LayersAgree
    BY DEF KeyInv
<1> QED
    BY KeySafe, <1>1, PTL

-----------------------------------------------------------------------------
(* Inside means a key.  Until the check on load has an answer, nothing else    *)
(* runs; and no way into the workspace goes past a key.                        *)

BootFirst ==
    /\ Active("boot") <=> booting
    /\ task["boot"].pc = "me" =>
          ~user /\ ~signingOut /\ \A t \in Tasks \ {"boot"} : ~Active(t)

Keyed ==
    ~strayed /\ ~mixed =>
        /\ here.path \in Views => mem \/ disk \/ (Active("boot") /\ ~Active("signin"))
        /\ task["setup"].pc = "post" => disk

\* Whatever goes on once the check has its answer leaves the check alone.
LEMMA BootOther ==
    ASSUME BootFirst, task["boot"].pc # "me", task'["boot"].pc = task["boot"].pc, booting' = booting
    PROVE  BootFirst'
BY DEF BootFirst, Active

\* Every step lets the check go first.
LEMMA BootStep == TypeOK /\ BootFirst /\ [Next]_vars => BootFirst'
<1> SUFFICES ASSUME TypeOK, BootFirst, [Next]_vars PROVE BootFirst'
    OBVIOUS
<1> USE DEF keys, told
<1>1. Tasks = {"boot", "signin", "unlock", "setup", "read", "signout", "idle"}
    BY DEF Tasks
<1>2. {"me", "vault", "get", "derive", "put", "post", "api"} \subseteq Pcs
    BY DEF Pcs
<1>3. ASSUME UNCHANGED <<task, user, booting, signingOut>> PROVE BootFirst'
    BY <1>3 DEF BootFirst, Active
<1>4. CASE UNCHANGED vars
    BY <1>3, <1>4 DEF vars
<1>5. CASE Back \/ Expire \/ Restored \/ GoLogin \/ LeaveLogin \/ CodeSent \/ ChangeEmail
           \/ (\E v \in Views : Navigate(v))
    BY <1>3, <1>5 DEF Back, Expire, Restored, GoLogin, LeaveLogin, CodeSent, ChangeEmail,
                      Navigate, Link
<1>6. ASSUME NEW e \in Entries, Document(e) PROVE BootFirst'
    BY <1>6, DocumentIs DEF BootFirst, Active
<1>7. here \in Entries /\ \A p \in Paths : Entry(p, None) \in Entries
    BY EntryType DEF TypeOK, Routed
<1>8. CASE (\E p \in Paths : Open(p)) \/ Reload
    BY <1>6, <1>7, <1>8 DEF Open, Reload
<1>9. ASSUME Done("boot") PROVE BootFirst'
  <2>1. task'["boot"].pc = "idle" /\ booting' = FALSE
      BY <1>1, <1>9, TaskEnds DEF Done
  <2> QED
      BY <2>1 DEF BootFirst, Active
<1>10. ASSUME task["boot"].pc \in {"me", "vault", "get"}, booting' = booting,
              Goes("boot", "vault") \/ Goes("boot", "get") \/ Got("boot")
       PROVE  BootFirst'
  <2>1. task'["boot"].pc \in {"vault", "get", "fill"}
      BY <1>1, <1>2, <1>10, TaskGoes, TaskGot
  <2>2. booting
      BY <1>10 DEF BootFirst, Active
  <2> QED
      BY <1>10, <2>1, <2>2 DEF BootFirst, Active
<1>11. CASE BootMe
    BY <1>9, <1>10, <1>11 DEF BootMe
<1>12. CASE Routing("boot")
  <2>1. CASE RouteVault("boot")
      BY <1>9, <1>10, <2>1 DEF RouteVault
  <2>2. CASE RouteGet("boot")
      BY <1>9, <1>10, <2>2 DEF RouteGet
  <2>3. CASE RouteFill("boot")
      BY <1>9, <2>3 DEF RouteFill
  <2> QED
      BY <1>12, <2>1, <2>2, <2>3 DEF Routing
<1>13. \A t \in Tasks \ {"boot"} : Active(t) => task["boot"].pc # "me"
    BY DEF BootFirst
<1>14. user \/ ~booting => task["boot"].pc # "me"
    BY DEF BootFirst, Active
<1>15. ASSUME NEW t \in Tasks \ {"boot"}, NEW pc \in Pcs,
              Ends(t) \/ Goes(t, pc) \/ Got(t) \/ Begins(t, pc) \/ Clears(t)
       PROVE  task'["boot"].pc = task["boot"].pc
  <2>1. "boot" \in Tasks \ {t} /\ t \in Tasks
      BY <1>1
  <2>2. CASE Ends(t)
      BY <2>1, <2>2, TaskEnds
  <2>3. CASE Goes(t, pc)
      BY <2>1, <2>3, TaskGoes
  <2>4. CASE Got(t)
      BY <2>1, <2>4, TaskGot
  <2>5. CASE Begins(t, pc)
      BY <2>1, <2>5, TaskBegins
  <2>6. CASE Clears(t)
      BY <2>1, <2>6, TaskClears
  <2> QED
      BY <1>15, <2>2, <2>3, <2>4, <2>5, <2>6
<1>16. ASSUME Done("signin") PROVE booting' = booting
    BY <1>16 DEF Done, TypeOK
<1>17. CASE SignInMe
  <2>1. task["boot"].pc # "me" /\ task'["boot"].pc = task["boot"].pc /\ booting' = booting
      BY <1>1, <1>2, <1>13, <1>15, <1>17 DEF SignInMe, Active
  <2> QED
      BY <2>1, BootOther
<1>18. CASE Routing("signin")
  <2>1. task["signin"].pc \in {"vault", "get", "fill"}
      BY <1>18 DEF Routing, RouteVault, RouteGet, RouteFill
  <2>2. task["boot"].pc # "me"
      BY <1>1, <1>13, <2>1 DEF Active
  <2>3. CASE RouteVault("signin")
    <3>1. Done("signin") \/ (Goes("signin", "get") /\ booting' = booting)
        BY <2>3 DEF RouteVault
    <3> QED
        BY <1>1, <1>2, <1>15, <1>16, <2>2, <3>1, BootOther DEF Done
  <2>4. CASE RouteGet("signin")
    <3>1. Done("signin") \/ (Got("signin") /\ booting' = booting)
        BY <2>4 DEF RouteGet
    <3> QED
        BY <1>1, <1>2, <1>15, <1>16, <2>2, <3>1, BootOther DEF Done
  <2>5. CASE RouteFill("signin")
      BY <1>1, <1>2, <1>15, <1>16, <2>2, <2>5, BootOther DEF RouteFill, Done
  <2> QED
      BY <1>18, <2>3, <2>4, <2>5 DEF Routing
<1>19. CASE Verified
  <2>1. task'["boot"].pc = task["boot"].pc
    <3>1. here.from \in Routed /\ Or(here.from, Home) \in Views
        BY GatesApart DEF TypeOK, Entries, Routed, Or
    <3> QED
        BY <1>1, <1>2, <1>19, <3>1, TaskAt DEF Verified
  <2> QED
      BY <1>14, <1>19, <2>1, BootOther DEF Verified, On
<1>20. CASE UnlockSubmit \/ SetupSubmit \/ ReadKey
  <2>1. task["boot"].pc # "me" /\ booting' = booting
      BY <1>14, <1>20 DEF UnlockSubmit, SetupSubmit, ReadKey, On, Inside
  <2>2. task'["boot"].pc = task["boot"].pc
      BY <1>1, <1>2, <1>15, <1>20 DEF UnlockSubmit, SetupSubmit, ReadKey
  <2> QED
      BY <2>1, <2>2, BootOther
<1>21. CASE UnlockSteps \/ SetupSteps \/ ReadSteps
  <2>1. /\ Active("unlock") \/ Active("setup") \/ Active("read")
        /\ booting' = booting
      BY <1>21 DEF UnlockSteps, SetupSteps, ReadSteps, UnlockDerive, UnlockPut,
                   SetupDerive, SetupPut, SetupPost,
                   ReadGet, ReadFill, Active
  <2>2. task'["boot"].pc = task["boot"].pc
    <3>1. CASE UnlockSteps
        BY <1>1, <1>2, <1>15, <3>1 DEF UnlockSteps, UnlockDerive, UnlockPut
    <3>2. CASE SetupSteps
        BY <1>1, <1>2, <1>15, <3>2 DEF SetupSteps, SetupDerive, SetupPut, SetupPost
    <3>3. CASE ReadSteps
        BY <1>1, <1>2, <1>15, <3>3 DEF ReadSteps, ReadGet, ReadFill
    <3> QED
        BY <1>21, <3>1, <3>2, <3>3
  <2> QED
      BY <1>1, <1>13, <2>1, <2>2, BootOther
<1>22. CASE SignOut \/ IdleLock
  <2>1. task["boot"].pc # "me" /\ booting' = booting
      BY <1>14, <1>22 DEF SignOut, IdleLock, Inside
  <2>2. task'["boot"].pc = task["boot"].pc
      BY <1>1, <1>2, <1>15, <1>22 DEF SignOut, IdleLock
  <2> QED
      BY <2>1, <2>2, BootOther
<1>23. CASE SignOutSteps
  <2>1. Active("signout") /\ booting' = booting
      BY <1>23 DEF SignOutSteps, SignOutDelete, SignOutCall, Active
  <2>2. task'["boot"].pc = task["boot"].pc
      BY <1>1, <1>2, <1>15, <1>23 DEF SignOutSteps, SignOutDelete, SignOutCall
  <2> QED
      BY <1>1, <1>13, <2>1, <2>2, BootOther
<1>24. CASE IdleDelete
  <2>1. CASE Document(Entry("/unlock", None))
      BY <1>6, <1>7, <2>1, GatesApart DEF Gates
  <2>2. CASE Ends("idle") /\ booting' = booting
    <3>1. Active("idle")
        BY <1>24 DEF IdleDelete, Active
    <3> QED
        BY <1>1, <1>2, <1>13, <1>15, <2>2, <3>1, BootOther
  <2> QED
      BY <1>24, <2>1, <2>2 DEF IdleDelete
<1> QED
    BY <1>4, <1>5, <1>8, <1>11, <1>12, <1>17, <1>18, <1>19, <1>20, <1>21, <1>22, <1>23, <1>24
    DEF Next, Visitor, BootSteps, SignInSteps

\* What holds of the key's presence stays when no way in is opened, no key lost.
LEMMA KeyedSame ==
    ASSUME Keyed, strayed => strayed', mixed => mixed', mem => mem', disk => disk',
           here'.path \in Views => here.path \in Views,
           Active("boot") /\ ~Active("signin") => (Active("boot") /\ ~Active("signin"))',
           task'["setup"].pc = "post" => task["setup"].pc = "post"
    PROVE  Keyed'
BY DEF Keyed

\* A rendered view was asked for.
LEMMA RenderedView ==
    ASSUME NEW e \in Entries, Rendered(e).path \in Views
    PROVE  Rendered(e) = e
BY RenderedIs, GatesApart DEF Gates

\* Every step keeps a key inside.
LEMMA KeyedStep == TypeOK /\ KeyInv /\ BootFirst /\ Keyed /\ [Next]_vars => Keyed'
<1> SUFFICES ASSUME TypeOK, KeyInv, BootFirst, Keyed, [Next]_vars PROVE Keyed'
    OBVIOUS
<1> USE DEF keys, told, route
<1>1. Tasks = {"boot", "signin", "unlock", "setup", "read", "signout", "idle"}
    BY DEF Tasks
<1>2. {"me", "vault", "get", "derive", "put", "post", "api"} \subseteq Pcs
    BY DEF Pcs
<1>3. /\ here \in Entries /\ here.from \in Routed /\ None \in Routed
      /\ \A p \in Gates \cup Views, f \in Routed :
            Entry(p, f) \in Entries /\ Entry(p, f).path = p
      /\ Gates \cap Views = {}
    BY EntryType, GatesApart DEF TypeOK, Entries, Routed
<1>4. {"/", "/login", "/code", "/setup", "/unlock"} = Gates
    BY DEF Gates
<1>5. CASE strayed'
    BY <1>5 DEF Keyed
<1>6. CASE mixed'
    BY <1>6 DEF Keyed
<1>7. CASE UNCHANGED vars
    BY <1>7, KeyedSame DEF vars, Active
<1>8. ASSUME NEW e \in Entries, e.path \in Gates, Push(e) PROVE here'.path \notin Views
    BY <1>3, <1>8, PushType, RenderedView
<1>9. ASSUME NEW p \in Gates, NEW f \in Routed, Link(Entry(p, f)) PROVE Keyed'
  <2>1. here'.path \notin Views
      BY <1>3, <1>8, <1>9 DEF Link
  <2> QED
      BY <1>9, <2>1, KeyedSame DEF Link, Active
<1>10. CASE GoLogin \/ LeaveLogin \/ CodeSent \/ ChangeEmail
    BY <1>3, <1>4, <1>9, <1>10 DEF GoLogin, LeaveLogin, CodeSent, ChangeEmail
<1>11. ASSUME NEW v \in Views, Navigate(v) PROVE Keyed'
    BY <1>11, KeyedSame DEF Navigate, Link, Inside, Active
<1>12. ASSUME NEW e \in Entries, Document(e) PROVE Keyed'
    BY <1>1, <1>12, DocumentIs DEF Keyed, Active
<1>13. CASE (\E p \in Paths : Open(p)) \/ Reload
  <2>1. \A p \in Paths : Entry(p, None) \in Entries
      BY <1>3, EntryType
  <2> QED
      BY <1>3, <1>12, <1>13, <2>1 DEF Open, Reload
<1>14. CASE Expire
    BY <1>14, KeyedSame DEF Expire, Active
<1>15. CASE Back
    BY <1>5, <1>15 DEF Back
<1>16. CASE Restored
  <2>1. here'.path \in Views => here.path \in Views
      BY <1>3, <1>4, <1>8, <1>16 DEF Restored
  <2> QED
      BY <1>16, <2>1, KeyedSame DEF Restored, Active
<1>17. CASE BootMe
  <2>1. UNCHANGED <<mem, disk, mixed, strayed>> /\ task["boot"].pc = "me"
      BY <1>17 DEF BootMe
  <2>2. ~user /\ ~signingOut
      BY <2>1 DEF BootFirst
  <2>3. CASE Goes("boot", "vault") /\ UNCHANGED route
    <3>1. task'["boot"].pc = "vault" /\ \A u \in Tasks \ {"boot"} : task'[u] = task[u]
        BY <1>1, <1>2, <2>3, TaskGoes
    <3> QED
        BY <1>1, <2>1, <2>3, <3>1, KeyedSame DEF Active
  <2>4. CASE Done("boot") /\ Replace(here) /\ UNCHANGED <<user, signingOut>>
    <3>1. \A u \in Tasks \ {"boot"} : task'[u] = task[u]
        BY <1>1, <2>4, TaskEnds DEF Done
    <3>2. ~booting' /\ ~user' /\ ~signingOut'
        BY <2>2, <2>4 DEF Done
    <3>3. here'.path \notin Views
        BY <1>3, <2>4, <3>2, RenderedIs, RenderedView DEF Replace
    <3> QED
        BY <1>1, <2>1, <3>1, <3>3 DEF Keyed
  <2> QED
      BY <1>17, <2>3, <2>4 DEF BootMe
<1>18. CASE SignInMe
  <2>1. /\ UNCHANGED <<mem, disk, mixed, strayed>> /\ Active("signin")
        /\ \A u \in Tasks \ {"signin"} : task'[u] = task[u]
      BY <1>1, <1>2, <1>18, TaskEnds, TaskGoes DEF SignInMe, Active
  <2>2. here'.path \in Views => here.path \in Views
      BY <1>3, <1>18, RenderedView DEF SignInMe, Replace
  <2> QED
      BY <1>1, <2>1, <2>2, KeyedSame
<1>19. ASSUME NEW t \in {"boot", "signin"}, RouteVault(t), ~strayed' PROVE Keyed'
  <2>1. UNCHANGED <<mem, disk, strayed>>
      BY <1>19 DEF RouteVault
  <2>2. ASSUME Done(t) \/ Goes(t, "get")
        PROVE  \A u \in Tasks \ {t} : task'[u] = task[u]
      BY <1>1, <1>2, <2>2, TaskEnds, TaskGoes DEF Done
  <2>3. CASE Done(t) /\ UNCHANGED mixed /\ Push(Entry("/setup", task[t].from))
    <3>1. task[t].from \in Routed
        BY <1>1 DEF TypeOK, Runs, Routed
    <3>2. here'.path \notin Views
        BY <1>3, <1>4, <1>8, <2>3, <3>1
    <3> QED
        BY <1>1, <2>1, <2>2, <2>3, <3>2 DEF Keyed
  <2>4. CASE Done(t) /\ UNCHANGED mixed /\ mem
      BY <1>1, <2>1, <2>2, <2>4 DEF Keyed
  <2>5. CASE Goes(t, "get") /\ mixed' = (mixed \/ Clearing) /\ UNCHANGED route
    <3>1. task'[t].pc = "get" /\ task[t].pc = "vault"
        BY <1>1, <1>2, <1>19, <2>5, TaskGoes DEF RouteVault
    <3>2. Active(t) /\ Active(t)'
        BY <3>1 DEF Active
    <3>3. mixed => mixed'
        BY <2>5
    <3>4. \A u \in Tasks : Active(u)' <=> Active(u)
        BY <2>2, <2>5, <3>2 DEF Active
    <3> QED
        BY <1>1, <2>1, <2>2, <2>5, <3>3, <3>4, KeyedSame
  <2> QED
      BY <1>19, <2>3, <2>4, <2>5 DEF RouteVault
<1>20. ASSUME NEW t \in {"boot", "signin"}, RouteGet(t), ~strayed' PROVE Keyed'
  <2>1. UNCHANGED <<mem, disk, mixed, strayed, here>> /\ Got(t) /\ task[t].pc = "get"
      BY <1>20 DEF RouteGet
  <2>2. (\A u \in Tasks \ {t} : task'[u] = task[u]) /\ task'[t].pc = "fill"
      BY <1>1, <2>1, TaskGot
  <2>3. \A u \in Tasks : Active(u)' <=> Active(u)
      BY <2>1, <2>2 DEF Active
  <2> QED
      BY <1>1, <2>1, <2>2, <2>3, KeyedSame
<1>21. ASSUME NEW t \in {"boot", "signin"}, RouteFill(t) PROVE Keyed'
  <2>1. /\ UNCHANGED <<disk, mixed, strayed>> /\ mem' = (mem \/ task[t].got)
        /\ \A u \in Tasks \ {t} : task'[u] = task[u]
      BY <1>1, <1>21, TaskEnds DEF RouteFill, Done
  <2>2. CASE Unlocked(t)
      BY <1>1, <2>1, <2>2 DEF Keyed, Unlocked
  <2>3. CASE Push(Entry("/unlock", Carried(t)))
    <3>1. Carried(t) \in Routed
        BY <1>1 DEF TypeOK, Runs, Routed, Carried, Or
    <3>2. here'.path \notin Views
        BY <1>3, <1>4, <1>8, <2>3, <3>1
    <3> QED
        BY <1>1, <2>1, <3>2 DEF Keyed
  <2> QED
      BY <1>21, <2>2, <2>3 DEF RouteFill
<1>22. CASE Verified
  <2>1. here'.path \notin Views
      BY <1>3, <1>4, <1>22 DEF Verified, On
  <2>2. task'["setup"] = task["setup"]
    <3>1. Or(here.from, Home) \in Views
        BY GatesApart DEF TypeOK, Entries, Or
    <3> QED
        BY <1>1, <1>2, <1>3, <1>22, <3>1, TaskAt DEF Verified
  <2> QED
      BY <1>22, <2>1, <2>2 DEF Verified, Keyed
<1>23. ASSUME NEW t \in {"unlock", "setup", "read"}, NEW pc \in {"derive", "put", "get"},
              Begins(t, pc), mem => mem', UNCHANGED <<disk, here, strayed>>
       PROVE  Keyed'
  <2>1. (\A u \in Tasks \ {t} : task'[u] = task[u]) /\ task'[t].pc = pc /\ (mixed => mixed')
      BY ZenonT(60), <1>1, <1>2, <1>23, TaskBegins
  <2> QED
      BY <1>1, <1>23, <2>1, KeyedSame DEF Active
<1>24. CASE UnlockSubmit \/ SetupSubmit \/ ReadKey
    BY <1>23, <1>24 DEF UnlockSubmit, SetupSubmit, ReadKey
<1>25. CASE UnlockDerive
  <2>1. /\ (mem => mem') /\ UNCHANGED <<disk, here, strayed, mixed>>
        /\ \A u \in Tasks \ {"unlock"} : task'[u] = task[u]
      BY <1>1, <1>2, <1>25, TaskGoes, TaskEnds DEF UnlockDerive
  <2> QED
      BY <1>1, <2>1, KeyedSame DEF Active
<1>26. CASE UnlockPut /\ ~mixed'
  <2>1. disk' = TRUE
      BY <1>26 DEF UnlockPut
  <2> QED
      BY <2>1 DEF Keyed
<1>35. CASE SetupDerive
  <2>1. /\ (mem => mem') /\ UNCHANGED <<disk, here, strayed, mixed>>
        /\ \A u \in Tasks \ {"setup"} : task'[u] = task[u] /\ task'["setup"].pc # "post"
      BY <1>1, <1>2, <1>35, TaskGoes DEF SetupDerive
  <2> QED
      BY <1>1, <2>1, KeyedSame DEF Active
<1>27. CASE SetupPut /\ ~mixed'
  <2>1. disk' = TRUE
      BY <1>27 DEF SetupPut
  <2> QED
      BY <2>1 DEF Keyed
<1>28. CASE SetupPost
  <2>1. /\ UNCHANGED <<mem, disk, mixed, strayed>> /\ task["setup"].pc = "post"
        /\ task'["setup"].pc = "idle"
      BY <1>1, <1>28, TaskEnds DEF SetupPost
  <2> QED
      BY <2>1 DEF Keyed
<1>29. CASE ReadGet
  <2>1. (mixed => mixed') /\ UNCHANGED <<mem, disk, here, strayed>>
      BY <1>29 DEF ReadGet
  <2>2. \A u \in Tasks \ {"read"} : task'[u] = task[u]
      BY <1>1, <1>29, TaskGot, TaskEnds DEF ReadGet
  <2> QED
      BY <1>1, <2>1, <2>2, KeyedSame DEF Active
<1>30. CASE ReadFill
  <2>1. (mem => mem') /\ UNCHANGED <<disk, here, strayed, mixed>>
      BY <1>30 DEF ReadFill
  <2>2. \A u \in Tasks \ {"read"} : task'[u] = task[u]
      BY <1>1, <1>30, TaskEnds DEF ReadFill
  <2> QED
      BY <1>1, <2>1, <2>2, KeyedSame DEF Active
<1>31. CASE SignOut \/ IdleLock
    BY <1>5, <1>31 DEF SignOut, IdleLock, Clears
<1>32. CASE SignOutDelete
  <2>1. strayed /\ strayed' = strayed
      BY <1>32 DEF SignOutDelete, KeyInv, Dropping, Clearing
  <2> QED
      BY <1>5, <2>1
<1>33. ASSUME NEW ok \in BOOLEAN, SignOutCall(ok) PROVE Keyed'
  <2>1. /\ UNCHANGED <<mem, disk, mixed, strayed>>
        /\ \A u \in Tasks \ {"signout"} : task'[u] = task[u]
      BY <1>1, <1>33, TaskEnds DEF SignOutCall
  <2>2. here'.path \notin Views
      BY <1>3, <1>4, <1>8, <1>33 DEF SignOutCall, Leaves
  <2> QED
      BY <1>1, <2>1, <2>2 DEF Keyed
<1>34. CASE IdleDelete
  <2>1. CASE Document(Entry("/unlock", None))
      BY <1>3, <1>4, <1>12, <2>1
  <2>2. CASE mixed' = TRUE
      BY <1>6, <2>2
  <2> QED
      BY <1>34, <2>1, <2>2 DEF IdleDelete
<1> QED
    BY <1>5, <1>6, <1>7, <1>10, <1>11, <1>13, <1>14, <1>15, <1>16, <1>17, <1>18, <1>19, <1>20,
       <1>21, <1>22, <1>24, <1>25, <1>26, <1>27, <1>28, <1>29, <1>30, <1>31, <1>32, <1>33, <1>34,
       <1>35
    DEF Next, Visitor, BootSteps, SignInSteps, UnlockSteps, SetupSteps, ReadSteps,
        SignOutSteps, Routing

\* At the start nothing but the check runs, and a view waits for it.
LEMMA KeyedInit == Init => BootFirst /\ Keyed
<1> SUFFICES ASSUME Init PROVE BootFirst /\ Keyed
    OBVIOUS
<1>1. /\ task["boot"].pc = "me"
      /\ \A t \in Tasks \ {"boot"} : task[t].pc = "idle"
    BY DEF Init, At, Idle, Tasks
<1> QED
    BY <1>1 DEF Init, BootFirst, Keyed, Active, Tasks

\* Together: what holds of the key and of the way in.
THEOREM KeyedSafe == Spec => [](TypeOK /\ KeyInv /\ BootFirst /\ Keyed)
<1> DEFINE All == TypeOK /\ KeyInv /\ BootFirst /\ Keyed
<1>1. Init => All
    BY InitTyped, KeyInit, KeyedInit
<1>2. All /\ [Next]_vars => All'
    BY StepTyped, KeyStep, BootStep, KeyedStep
<1> QED
    BY <1>1, <1>2, PTL DEF Spec

\* The workspace is entered with a key in memory or in IndexedDB: routeAfterAuth, unlock
\* and setup let nobody past without one.
THEOREM InsideWithKey == Spec => []InsideMeansKey
<1>1. Keyed => InsideMeansKey
  <2>1. task["boot"] = Idle => ~Active("boot")
      BY DEF Active, Idle
  <2> QED
      BY <2>1 DEF Keyed, InsideMeansKey, Inside
<1> QED
    BY KeyedSafe, <1>1, PTL

-----------------------------------------------------------------------------
(* The target.  The page and every function under way carry the view asked     *)
(* for, the hub or nothing.  As long as the app has not forgotten the view,     *)
(* they carry the view.                                                        *)

\* The functions the target goes through.
Carriers == {"boot", "signin", "unlock", "setup"}

Near(e) ==
    \/ e.path \in {goal, Home}
    \/ e.path \in Gates /\ e.from \in {goal, Home, None}

Carry(t) ==
    Active(t) => task[t].from \in {goal, Home, None} /\ task[t].target \in {goal, Home}

GoalWeak == goal # None => Near(here) /\ \A t \in Carriers : Carry(t)

\* The app remembers the view asked for.
Kept == goal # None /\ ~forgotten

GoalHere ==
    Kept => here.path = goal \/ (here.path \in Gates /\ here.from = goal /\ here.path # "/")

GoalBoot ==
    Kept /\ booting =>
        /\ task["boot"].from = None
        /\ ~Active("signin") /\ ~Active("unlock") /\ ~Active("setup")
        /\ \/ /\ here.path = goal /\ task["boot"].target = goal
              /\ task["boot"].pc # "me" => user
           \/ here.path \in Gates /\ task["boot"].pc = "me"

GoalSignIn ==
    Kept /\ Active("signin") =>
        /\ here.path \in {"/login", "/code"}
        /\ task["signin"].from = goal /\ task["signin"].target = goal
        /\ task["signin"].pc \in {"get", "fill"} => user
        /\ task["signin"].pc = "vault" /\ cookie => user

GoalForms ==
    Kept =>
        /\ \A t \in {"unlock", "setup"} : Active(t) =>
              /\ task[t].from = goal /\ user /\ ~Active("signin")
              /\ here.path \in {"/setup", "/unlock", goal}
        /\ here.path \in {"/setup", "/unlock"} => user \/ booting

Strict  == GoalHere /\ GoalBoot /\ GoalSignIn /\ GoalForms
GoalInv == GoalWeak /\ Strict

\* Together they say that the target is kept.
LEMMA GoalKeeps == GoalInv => TargetKept
BY DEF GoalInv, GoalWeak, Near, Strict, GoalHere, Kept, TargetKept, Due

\* Without a target there is nothing to lose.
LEMMA GoalNone == goal' = None => GoalInv'
BY DEF GoalInv, GoalWeak, Strict, Kept, GoalHere, GoalBoot, GoalSignIn, GoalForms

\* Where the user is and what runs decide.
LEMMA GoalSame ==
    ASSUME GoalInv, UNCHANGED <<here, goal, forgotten, user, booting>>, cookie' => cookie,
           \A t \in Carriers : task'[t] = task[t]
    PROVE  GoalInv'
BY DEF GoalInv, GoalWeak, Near, Carry, Strict, Kept, GoalHere, GoalBoot, GoalSignIn, GoalForms,
       Active, Carriers

\* Once routing is over, the place is all that matters.
LEMMA GoalArrives ==
    ASSUME GoalHere', ~booting', ~Active("signin")', ~Active("unlock")', ~Active("setup")',
           here'.path \in {"/setup", "/unlock"} => user'
    PROVE  Strict'
BY DEF Kept, Strict, GoalBoot, GoalSignIn, GoalForms

\* A target is a view, and no page before the workspace.
LEMMA GoalIsView ==
    ASSUME TypeOK, goal # None
    PROVE  goal \in Views /\ goal \notin Gates /\ goal \in Paths
BY GatesApart DEF TypeOK

\* Where a target is rendered: itself, or a login that remembers it.
LEMMA GoalRendered ==
    ASSUME TypeOK, Kept, Kept', goal' = goal, NEW f \in Routed, here' = Rendered(Entry(goal, f))
    PROVE  GoalHere' /\ here'.path \notin {"/setup", "/unlock"}
           /\ (user' => here'.path = goal)
<1>1. goal \in Views /\ goal \notin Gates /\ goal \in Paths
    BY GoalIsView DEF Kept
<1>2. Entry(goal, f) \in Entries /\ Entry(goal, f).path = goal
    BY <1>1, EntryType
<1>3. here' = Entry(goal, f) \/ (~user' /\ here'.path = "/login" /\ here'.from = goal)
    BY <1>1, <1>2, RenderedIs DEF Gates
<1> QED
    BY <1>1, <1>2, <1>3 DEF Kept, GoalHere, Gates

\* A page before the workspace, with the target in its state.
LEMMA GoalGate ==
    ASSUME TypeOK, Kept, Kept', goal' = goal, NEW p \in Gates \ {"/"},
           here' = Rendered(Entry(p, goal)), p \in {"/setup", "/unlock"} => user'
    PROVE  GoalHere' /\ here'.path = p /\ here'.from = goal
<1>1. goal \in Views /\ goal \in Routed /\ p \in Paths /\ p \notin Views
    BY GoalIsView, GatesApart DEF Kept, Routed
<1>2. Entry(p, goal) \in Entries /\ Entry(p, goal).path = p /\ Entry(p, goal).from = goal
    BY <1>1, EntryType
<1>3. here' = Entry(p, goal)
    BY <1>1, <1>2, RenderedIs
<1> QED
    BY <1>2, <1>3 DEF Kept, GoalHere

\* The steps of the check on load and of sign-in.
LEMMA GoalRouting ==
    ASSUME TypeOK, BootFirst, Strict, Kept, Kept', goal' = goal, NEW t \in {"boot", "signin"},
           RouteVault(t) \/ RouteGet(t) \/ RouteFill(t)
    PROVE  Strict'
<1> USE DEF keys, told, route
<1>1. /\ Tasks = {"boot", "signin", "unlock", "setup", "read", "signout", "idle"}
      /\ {"vault", "get"} \subseteq Pcs /\ None \in Routed /\ goal \in Routed
      /\ Gates = {"/", "/login", "/code", "/setup", "/unlock"}
    BY GoalIsView DEF Kept, Tasks, Pcs, Routed, Gates
<1>2. Active(t) /\ task[t].pc # "me"
    BY DEF RouteVault, RouteGet, RouteFill, Active
<1>3. /\ task[t].target = goal /\ task[t].from \in {None, goal}
      /\ t = "signin" => task[t].from = goal /\ ~booting
      /\ t = "boot" => ~Active("signin") /\ booting /\ task[t].from = None
      /\ ~Active("unlock") /\ ~Active("setup")
      /\ task[t].pc \in {"get", "fill"} => user
      /\ task[t].pc = "vault" /\ cookie => user
    BY <1>2 DEF Kept, Strict, GoalBoot, GoalSignIn, GoalForms, BootFirst
<1>4. task[t].from \in Routed
    BY <1>1, <1>3
<1>5. Entry(task[t].target, None) = Entry(goal, None)
      /\ Entry(task[t].target, task[t].from) = Entry(goal, task[t].from)
    BY <1>3
<1>6. UNCHANGED user
    BY DEF RouteVault, RouteGet, RouteFill
<1>7. ASSUME Done(t), GoalHere', here'.path \in {"/setup", "/unlock"} => user'
      PROVE  Strict'
  <2>1. task'[t].pc = "idle" /\ \A u \in Tasks \ {t} : task'[u] = task[u]
      BY <1>1, <1>7, TaskEnds DEF Done
  <2>2. ~booting'
      BY <1>3, <1>7 DEF Done
  <2>3. ~Active("signin")' /\ ~Active("unlock")' /\ ~Active("setup")'
      BY <1>1, <1>3, <2>1 DEF Active
  <2> QED
      BY <1>7, <2>2, <2>3, GoalArrives
<1>8. ASSUME NEW f \in Routed, Done(t), here' = Rendered(Entry(goal, f)) PROVE Strict'
    BY <1>7, <1>8, GoalRendered
<1>9. ASSUME Goes(t, "get") \/ Got(t), UNCHANGED <<here, booting>>, cookie' = cookie,
             task[t].pc = "get" \/ (task[t].pc = "vault" /\ cookie)
      PROVE  Strict'
  <2>1. /\ task'[t].pc \in {"get", "fill"} /\ task'[t].from = task[t].from
        /\ task'[t].target = task[t].target
        /\ \A u \in Tasks \ {t} : task'[u] = task[u]
      BY <1>1, <1>9, TaskGoes, TaskGot
  <2>2. user /\ task[t].pc # "me"
      BY <1>3, <1>9
  <2> QED
      BY <1>1, <1>2, <1>3, <1>6, <1>9, <2>1, <2>2
      DEF Kept, Strict, GoalHere, GoalBoot, GoalSignIn, GoalForms, Active
<1>10. CASE RouteVault(t)
  <2>1. CASE Done(t) /\ Replace(Entry(task[t].target, None))
      BY <1>1, <1>5, <1>8, <2>1 DEF Replace
  <2>2. CASE /\ cookie /\ Done(t) /\ Push(Entry("/setup", task[t].from))
             /\ Forgets(task[t].from # goal)
    <3>1. task[t].from = goal
        BY <2>2 DEF Forgets, Kept
    <3>2. user /\ here' = Rendered(Entry("/setup", goal))
        BY <1>3, <1>10, <2>2, <3>1 DEF Push, RouteVault
    <3>3. GoalHere' /\ here'.path = "/setup"
        BY <1>1, <1>6, <3>2, GoalGate
    <3> QED
        BY <1>6, <1>7, <2>2, <3>2, <3>3
  <2>3. CASE Done(t) /\ Replace(Entry(task[t].target, task[t].from))
      BY <1>4, <1>5, <1>8, <2>3 DEF Replace
  <2>4. CASE cookie /\ Goes(t, "get") /\ UNCHANGED <<here, booting>>
      BY <1>9, <1>10, <2>4 DEF RouteVault
  <2> QED
      BY <1>10, <2>1, <2>2, <2>3, <2>4 DEF RouteVault
<1>11. CASE RouteGet(t)
  <2>1. CASE Got(t) /\ UNCHANGED <<here, booting>>
      BY <1>9, <1>11, <2>1 DEF RouteGet
  <2>2. CASE Done(t) /\ Replace(Entry(task[t].target, None))
      BY <1>1, <1>5, <1>8, <2>2 DEF Replace
  <2> QED
      BY <1>11, <2>1, <2>2 DEF RouteGet
<1>12. CASE RouteFill(t)
  <2>1. CASE Replace(Entry(task[t].target, task[t].from))
      BY <1>4, <1>5, <1>8, <1>12, <2>1 DEF Replace, RouteFill
  <2>2. CASE Push(Entry("/unlock", Carried(t)))
    <3>1. Carried(t) = goal
        BY <1>3 DEF Carried, Or
    <3>2. user /\ here' = Rendered(Entry("/unlock", goal))
        BY <1>3, <1>12, <2>2, <3>1 DEF Push, RouteFill
    <3>3. GoalHere' /\ here'.path = "/unlock"
        BY <1>1, <1>6, <3>2, GoalGate
    <3> QED
        BY <1>6, <1>7, <1>12, <3>2, <3>3 DEF RouteFill
  <2> QED
      BY <1>12, <2>1, <2>2 DEF RouteFill
<1> QED
    BY <1>10, <1>11, <1>12

\* The answers of GET /api/me.
LEMMA GoalMe ==
    ASSUME TypeOK, BootFirst, Strict, Kept, Kept', goal' = goal, BootMe \/ SignInMe
    PROVE  Strict'
<1> USE DEF keys, told, route
<1>1. /\ Tasks = {"boot", "signin", "unlock", "setup", "read", "signout", "idle"}
      /\ "vault" \in Pcs /\ goal \in Views /\ None \in Routed
      /\ Gates = {"/", "/login", "/code", "/setup", "/unlock"}
    BY GoalIsView DEF Kept, Tasks, Pcs, Routed, Gates
<1>2. here \in Entries
    BY DEF TypeOK
<1>3. CASE BootMe
  <2>1. task["boot"].pc = "me" /\ booting /\ ~user /\ ~signingOut
        /\ ~Active("signin") /\ ~Active("unlock") /\ ~Active("setup")
      BY <1>1, <1>3 DEF BootMe, BootFirst, Active
  <2>2. task["boot"].from = None
        /\ \/ here.path = goal /\ task["boot"].target = goal
           \/ here.path \in {"/login", "/code"} /\ ~user'
    <3>1. task["boot"].from = None
          /\ \/ here.path = goal /\ task["boot"].target = goal
             \/ here.path \in Gates
        BY <2>1 DEF Kept, Strict, GoalBoot
    <3>2. here.path \notin {"/setup", "/unlock"} /\ ~(user' /\ here.path \in Gates)
        BY ZenonT(60), <1>3 DEF BootMe, Forgets, Kept
    <3>3. here.path # "/"
        BY <1>1, GoalIsView DEF Kept, Strict, GoalHere
    <3> QED
        BY <1>1, <3>1, <3>2, <3>3
  <2>3. CASE Goes("boot", "vault") /\ UNCHANGED <<booting, route>> /\ user' = TRUE
    <3>0. here.path = goal /\ task["boot"].target = goal
        BY <2>2, <2>3
    <3>1. /\ task'["boot"].target = goal /\ task'["boot"].from = None
          /\ \A u \in Tasks \ {"boot"} : task'[u] = task[u]
        BY <1>1, <2>2, <2>3, <3>0, TaskGoes
    <3>2. ~Active("signin")' /\ ~Active("unlock")' /\ ~Active("setup")'
        BY <1>1, <2>1, <3>1 DEF Active
    <3> QED
        BY <2>2, <2>3, <3>0, <3>1, <3>2 DEF Kept, Strict, GoalHere, GoalBoot, GoalSignIn, GoalForms
  <2>4. CASE Done("boot") /\ Replace(here) /\ UNCHANGED <<user, signingOut>>
    <3>1. \A u \in Tasks \ {"boot"} : task'[u] = task[u]
        BY <1>1, <2>4, TaskEnds DEF Done
    <3>2. ~Active("signin")' /\ ~Active("unlock")' /\ ~Active("setup")' /\ ~booting'
        BY <1>1, <2>1, <2>4, <3>1 DEF Active, Done
    <3>3. CASE here.path = goal
      <4>1. here' = Rendered(here) /\ here.path \in Views
          BY <1>1, <2>4, <3>3 DEF Replace
      <4>2. Rendered(here) # here /\ here.path \notin {"/setup", "/unlock"}
          BY <1>1, <1>2, <2>1, <2>4, <3>2, <4>1, RenderedIs, GatesApart
      <4>3. here'.path = "/login" /\ here'.from = goal
          BY <1>2, <3>3, <4>1, <4>2, RenderedIs
      <4> QED
          BY <1>1, <3>2, <4>3, GoalArrives DEF Kept, GoalHere
    <3>4. CASE here.path \in {"/login", "/code"}
      <4>1. here' = here
        <5>1. here' = Rendered(here) /\ here.path \notin Views /\ here.path \notin {"/setup", "/unlock"}
            BY <2>4, <3>4, GatesApart DEF Replace, Gates
        <5> QED
            BY <1>2, <5>1, RenderedIs
      <4>2. here.from = goal
          BY <1>1, <3>4, GoalIsView DEF Kept, Strict, GoalHere
      <4> QED
          BY <1>1, <3>2, <3>4, <4>1, <4>2, GoalArrives DEF Kept, GoalHere
    <3> QED
        BY <2>2, <3>3, <3>4
  <2> QED
      BY <1>3, <2>3, <2>4 DEF BootMe
<1>4. CASE SignInMe
  <2>0. task["signin"].pc = "me" /\ Active("signin")
      BY <1>4 DEF SignInMe, Active
  <2>1. /\ here.path \in {"/login", "/code"} /\ here.from = goal
        /\ task["signin"].from = goal /\ task["signin"].target = goal
        /\ ~booting /\ ~Active("unlock") /\ ~Active("setup")
    <3>1. /\ here.path \in {"/login", "/code"}
          /\ task["signin"].from = goal /\ task["signin"].target = goal
        BY <2>0 DEF Kept, Strict, GoalSignIn
    <3>2. here.from = goal
        BY <1>1, <3>1, GoalIsView DEF Kept, Strict, GoalHere
    <3>3. ~booting /\ ~Active("unlock") /\ ~Active("setup")
        BY <2>0 DEF Kept, Strict, GoalBoot, GoalForms
    <3> QED
        BY <3>1, <3>2, <3>3
  <2>2. booting' = booting /\ here' = here /\ UNCHANGED cookie
    <3>1. here' = Rendered(here) \/ here' = here
        BY <1>4 DEF SignInMe, Replace
    <3>2. here.path \notin Views /\ here.path \notin {"/setup", "/unlock"}
        BY <2>1, GatesApart DEF Gates
    <3>3. Rendered(here) = here
        BY <1>2, <3>2, RenderedIs
    <3> QED
        BY <1>4, <3>1, <3>3 DEF SignInMe
  <2>3. \A u \in Tasks \ {"signin"} : task'[u] = task[u]
      BY <1>1, <1>4, TaskGoes, TaskEnds DEF SignInMe
  <2>4. ~Active("unlock")' /\ ~Active("setup")'
      BY <1>1, <2>1, <2>3 DEF Active
  <2>5. CASE Goes("signin", "vault") /\ user' = cookie
    <3>1. task'["signin"].from = goal /\ task'["signin"].target = goal /\ task'["signin"].pc = "vault"
        BY <1>1, <2>1, <2>5, TaskGoes
    <3> QED
        BY <2>0, <2>1, <2>2, <2>4, <2>5, <3>1 DEF Kept, Strict, GoalHere, GoalBoot, GoalSignIn, GoalForms
  <2>6. CASE Ends("signin")
    <3>1. ~Active("signin")'
        BY <1>1, <2>6, TaskEnds DEF Active
    <3> QED
        BY <2>1, <2>2, <2>4, <3>1 DEF Kept, Strict, GoalHere, GoalBoot, GoalSignIn, GoalForms
  <2> QED
      BY <1>4, <2>5, <2>6 DEF SignInMe
<1> QED
    BY <1>3, <1>4

\* The pages before the workspace.
LEMMA GoalPages ==
    ASSUME TypeOK, BootFirst, Strict, Kept, Kept', goal' = goal,
           GoLogin \/ CodeSent \/ ChangeEmail \/ Verified \/ Restored
    PROVE  Strict'
<1> USE DEF keys, told, route
<1>1. /\ Tasks = {"boot", "signin", "unlock", "setup", "read", "signout", "idle"}
      /\ "me" \in Pcs /\ goal \in Views /\ goal \in Routed
      /\ Gates = {"/", "/login", "/code", "/setup", "/unlock"} /\ goal \notin Gates
    BY GoalIsView DEF Kept, Tasks, Pcs, Routed, Gates
<1>2. here.path \in Gates /\ (user \/ ~booting) => here.path # "/" /\ here.from = goal /\ ~booting
    BY <1>1 DEF Kept, Strict, GoalHere, GoalBoot, BootFirst
<1>3. here.path \in {"/login", "/code"} => ~Active("unlock") /\ ~Active("setup")
    BY <1>1 DEF Kept, Strict, GoalForms
<1>4. ASSUME NEW p \in {"/login", "/code"}, here.path \in {"/login", "/code"},
             here' = Rendered(Entry(p, goal)), user \/ ~booting, UNCHANGED <<task, user, booting, cookie>>
      PROVE  Strict'
  <2>1. here'.path = p /\ GoalHere'
      BY <1>1, <1>4, GoalGate
  <2>2. ~booting' /\ ~Active("unlock")' /\ ~Active("setup")'
      BY <1>1, <1>2, <1>3, <1>4 DEF Active
  <2>3. GoalSignIn'
      BY <1>4, <2>1 DEF Kept, Strict, GoalSignIn, Active
  <2> QED
      BY <2>1, <2>2, <2>3 DEF Kept, Strict, GoalBoot, GoalForms
<1>5. CASE GoLogin
    BY <1>1, <1>2, <1>5 DEF GoLogin, On
<1>6. CASE CodeSent
  <2>1. here.path = "/login" /\ (user \/ ~booting) /\ here.from = goal /\ here' = Rendered(Entry("/code", goal))
      BY <1>1, <1>2, <1>6 DEF CodeSent, On, Link, Push
  <2> QED
      BY <1>4, <1>6, <2>1 DEF CodeSent, Link
<1>7. CASE ChangeEmail
  <2>1. here.path = "/code" /\ (user \/ ~booting) /\ here.from = goal /\ here' = Rendered(Entry("/login", goal))
      BY <1>1, <1>2, <1>7 DEF ChangeEmail, On, Link, Push
  <2> QED
      BY <1>4, <1>7, <2>1 DEF ChangeEmail, Link
<1>8. CASE Verified
  <2>1. here.path = "/code" /\ here.from = goal /\ ~booting /\ UNCHANGED <<here, user, booting>>
        /\ ~Active("unlock") /\ ~Active("setup")
      BY <1>1, <1>2, <1>3, <1>8 DEF Verified, On
  <2>2. task' = [task EXCEPT !["signin"] = At("me", goal, goal)]
      BY <1>8, <2>1 DEF Kept, Verified, Or
  <2>3. /\ task'["signin"].pc = "me" /\ task'["signin"].from = goal
        /\ task'["signin"].target = goal /\ \A u \in Tasks \ {"signin"} : task'[u] = task[u]
    <3>1. "signin" \in Tasks /\ "me" \in Pcs /\ goal \in Routed /\ goal \in Views
        BY <1>1
    <3> QED
        BY <2>2, <3>1, TaskAt
  <2>4. ~Active("unlock")' /\ ~Active("setup")'
      BY <1>1, <2>1, <2>3 DEF Active
  <2> QED
      BY <2>1, <2>3, <2>4 DEF Kept, Strict, GoalHere, GoalBoot, GoalSignIn, GoalForms
<1>9. CASE Restored
  <2>1. here.path = "/setup" /\ here.from = goal /\ ~booting
        /\ UNCHANGED <<user, booting, task, cookie>>
      BY <1>1, <1>2, <1>9 DEF Restored, On
  <2>2. user /\ ~Active("signin")
      BY <2>1 DEF Kept, Strict, GoalSignIn, GoalForms
  <2>3. here' = Rendered(Entry("/unlock", goal)) \/ here' = here
      BY <1>9, <2>1 DEF Restored, Push
  <2>4. GoalHere' /\ here'.path \in {"/setup", "/unlock"}
    <3>1. CASE here' = here
        BY <2>1, <3>1 DEF Kept, Strict, GoalHere
    <3>2. CASE here' = Rendered(Entry("/unlock", goal))
        BY <1>1, <2>1, <2>2, <3>2, GoalGate
    <3> QED
        BY <2>3, <3>1, <3>2
  <2> QED
      BY <2>1, <2>2, <2>4 DEF Kept, Strict, GoalBoot, GoalSignIn, GoalForms, Active
<1> QED
    BY <1>5, <1>6, <1>7, <1>8, <1>9

\* Unlocking and setting up.
LEMMA GoalUnlock ==
    ASSUME TypeOK, BootFirst, Strict, Kept, Kept', goal' = goal,
           \/ UnlockSubmit \/ UnlockDerive \/ UnlockPut
           \/ SetupSubmit \/ SetupDerive \/ SetupPut \/ SetupPost
    PROVE  Strict'
<1> USE DEF keys, told, route
<1>1. /\ Tasks = {"boot", "signin", "unlock", "setup", "read", "signout", "idle"}
      /\ {"derive", "put", "post"} \subseteq Pcs /\ goal \in Routed /\ None \in Routed
      /\ Gates = {"/", "/login", "/code", "/setup", "/unlock"} /\ goal \notin Gates
    BY GoalIsView DEF Kept, Tasks, Pcs, Routed, Gates
<1>2. UNCHANGED <<user, booting, cookie>>
    BY DEF UnlockSubmit, UnlockDerive, UnlockPut, SetupSubmit, SetupDerive, SetupPut, SetupPost
<1>3. ASSUME NEW t \in {"unlock", "setup"}, user, ~booting, ~Active("signin"),
             \A u \in Tasks \ {t} : task'[u] = task[u],
             Active(t)' => task'[t].from = goal,
             GoalHere', here'.path \in {"/setup", "/unlock", goal}
      PROVE  Strict'
  <2>1. ~Active("signin")'
      BY <1>1, <1>3 DEF Active
  <2>2. \A u \in {"unlock", "setup"} : Active(u)' => task'[u].from = goal
      BY <1>1, <1>3 DEF Active, Strict, GoalForms
  <2> QED
      BY <1>2, <1>3, <2>1, <2>2 DEF Kept, Strict, GoalBoot, GoalSignIn, GoalForms
<1>4. ASSUME NEW t \in {"unlock", "setup"}, NEW pc \in {"derive", "put"}, Begins(t, pc),
             here.path \in {"/setup", "/unlock"}, user \/ ~booting, UNCHANGED here
      PROVE  Strict'
  <2>1. /\ task'[t].from = here.from /\ \A u \in Tasks \ {t} : task'[u] = task[u]
      BY ZenonT(60), <1>1, <1>4, TaskBegins
  <2>2. here.from = goal /\ user /\ ~booting /\ ~Active("signin")
      BY <1>1, <1>4 DEF Kept, Strict, GoalHere, GoalBoot, GoalSignIn, GoalForms, BootFirst
  <2>3. GoalHere'
      BY <1>4 DEF Kept, Strict, GoalHere
  <2> QED
      BY <1>3, <1>4, <2>1, <2>2, <2>3
<1>5. CASE UnlockSubmit \/ SetupSubmit
    BY <1>4, <1>5 DEF UnlockSubmit, SetupSubmit, On
<1>6. ASSUME NEW t \in {"unlock", "setup"}, Active(t),
             Ends(t) \/ Goes(t, "put") \/ Goes(t, "post"),
             here' = here \/ here' = Rendered(Entry(Or(task[t].from, Home), None))
      PROVE  Strict'
  <2>1. /\ task[t].from = goal /\ user /\ ~booting /\ ~Active("signin")
        /\ here.path \in {"/setup", "/unlock", goal}
      BY <1>6 DEF Kept, Strict, GoalBoot, GoalForms
  <2>2. /\ \A u \in Tasks \ {t} : task'[u] = task[u]
        /\ Active(t)' => task'[t].from = goal
      BY <1>1, <1>6, <2>1, TaskEnds, TaskGoes DEF Active
  <2>3. GoalHere' /\ here'.path \in {"/setup", "/unlock", goal}
    <3>1. CASE here' = here
        BY <2>1, <3>1 DEF Kept, Strict, GoalHere
    <3>2. CASE here' = Rendered(Entry(goal, None))
        BY <1>1, <1>2, <2>1, <3>2, GoalRendered
    <3>3. Or(task[t].from, Home) = goal
        BY <2>1 DEF Or, Kept
    <3> QED
        BY <1>6, <3>1, <3>2, <3>3
  <2> QED
      BY <1>3, <2>1, <2>2, <2>3
<1>7. CASE UnlockDerive
    BY <1>6, <1>7 DEF UnlockDerive, Active
<1>8. CASE UnlockPut
    BY <1>6, <1>8 DEF UnlockPut, Push, Active
<1>11. CASE SetupDerive
    BY <1>6, <1>11 DEF SetupDerive, Active
<1>9. CASE SetupPut
    BY <1>6, <1>9 DEF SetupPut, Active
<1>10. CASE SetupPost
    BY <1>6, <1>10 DEF SetupPost, Push, Active
<1> QED
    BY <1>5, <1>7, <1>8, <1>9, <1>10, <1>11

\* What is rendered near the target is near it.
LEMMA WeakRendered ==
    ASSUME TypeOK, goal # None, goal' = goal, NEW e \in Entries, Near(e), here' = Rendered(e)
    PROVE  Near(here)'
<1>1. "/" \in Gates /\ "/login" \in Gates
    BY DEF Gates
<1>2. e.path \in Gates => e.path \notin Views
    BY GatesApart
<1>3. \/ here' = e
      \/ e.path \in Views /\ here'.path = "/login" /\ here'.from = e.path
      \/ here'.path = "/" /\ here'.from = None
    BY RenderedIs
<1> QED
    BY <1>1, <1>2, <1>3 DEF Near

\* Entries near the target.
LEMMA NearEntries ==
    ASSUME TypeOK, goal # None
    PROVE  /\ \A v \in {goal, Home}, f \in Routed : Entry(v, f) \in Entries /\ Near(Entry(v, f))
           /\ \A p \in Gates, f \in {goal, Home, None} : Entry(p, f) \in Entries /\ Near(Entry(p, f))
           /\ here \in Entries /\ here.from \in Routed
           /\ \A f \in {goal, Home, None} : f \in Routed /\ Or(f, Home) \in {goal, Home}
<1>1. goal \in Views /\ Home \in Views /\ {goal, Home, None} \subseteq Routed
    BY GatesApart DEF TypeOK, Routed
<1>3. here \in Entries /\ here.from \in Routed
    BY DEF TypeOK, Entries, Routed
<1>4. ASSUME NEW v \in {goal, Home}, NEW f \in Routed
      PROVE  Entry(v, f) \in Entries /\ Near(Entry(v, f))
  <2>1. v \in Paths
      BY <1>1 DEF Paths
  <2> QED
      BY <2>1, EntryType DEF Near
<1>5. ASSUME NEW p \in Gates, NEW f \in {goal, Home, None}
      PROVE  Entry(p, f) \in Entries /\ Near(Entry(p, f))
  <2>1. p \in Paths /\ f \in Routed
      BY <1>1 DEF Paths
  <2> QED
      BY <2>1, EntryType DEF Near
<1>6. \A f \in {goal, Home, None} : f \in Routed /\ Or(f, Home) \in {goal, Home}
    BY <1>1 DEF Or
<1> QED
    BY <1>3, <1>4, <1>5, <1>6

\* A function that goes on or ends carries what it carried.
LEMMA WeakGoes ==
    ASSUME TypeOK, goal # None, GoalWeak, goal' = goal, NEW t \in Tasks,
           \/ Ends(t) \/ task' = task
           \/ Active(t) /\ (Got(t) \/ \E pc \in Pcs : Goes(t, pc))
    PROVE  \A u \in Carriers : Carry(u)'
<1>1. Carriers \subseteq Tasks
    BY DEF Carriers, Tasks
<1>2. \A u \in Tasks \ {t} : task'[u] = task[u]
    BY TaskEnds, TaskGot, TaskGoes
<1>3. \/ task'[t].pc = "idle" \/ task'[t] = task[t]
      \/ Active(t) /\ task'[t].from = task[t].from /\ task'[t].target = task[t].target
    BY TaskEnds, TaskGot, TaskGoes
<1> QED
    BY <1>1, <1>2, <1>3 DEF GoalWeak, Carry, Active

\* Every step that keeps the target carries it, the hub or nothing.
LEMMA WeakStep ==
    ASSUME TypeOK, goal # None, GoalWeak, goal' = goal,
           \/ BootMe \/ SignInMe \/ Routing("boot") \/ Routing("signin")
           \/ GoLogin \/ CodeSent \/ ChangeEmail \/ Verified \/ Restored
           \/ UnlockSubmit \/ UnlockSteps \/ SetupSubmit \/ SetupSteps
    PROVE  GoalWeak'
<1> USE DEF keys, told, route
<1>1. /\ {"boot", "signin", "unlock", "setup"} \subseteq Tasks
      /\ {"me", "vault", "get", "derive", "put", "post"} \subseteq Pcs
      /\ {"/", "/login", "/code", "/setup", "/unlock"} \subseteq Gates
    BY DEF Tasks, Pcs, Gates
<1>2. Near(here) /\ \A t \in {"boot", "signin", "unlock", "setup"} : Carry(t)
    BY DEF GoalWeak, Carriers
<1>3. ASSUME NEW t \in {"boot", "signin", "unlock", "setup"},
             \/ Ends(t) \/ task' = task
             \/ Active(t) /\ (Got(t) \/ \E pc \in Pcs : Goes(t, pc)),
             \/ UNCHANGED here
             \/ \E e \in Entries : Near(e) /\ here' = Rendered(e)
      PROVE  GoalWeak'
  <2>1. \A u \in Carriers : Carry(u)'
      BY <1>1, <1>3, WeakGoes
  <2>2. Near(here)'
      BY <1>2, <1>3, WeakRendered DEF Near
  <2> QED
      BY <2>1, <2>2 DEF GoalWeak
<1>4. CASE BootMe
  <2>1. Ends("boot") \/ (Active("boot") /\ Goes("boot", "vault"))
      BY <1>4 DEF BootMe, Done, Active
  <2>2. UNCHANGED here \/ here' = Rendered(here)
      BY <1>4 DEF BootMe, Replace
  <2> QED
      BY <1>1, <1>2, <1>3, <2>1, <2>2, NearEntries
<1>5. CASE SignInMe
  <2>1. Ends("signin") \/ (Active("signin") /\ Goes("signin", "vault"))
      BY <1>5 DEF SignInMe, Active
  <2>2. UNCHANGED here \/ here' = Rendered(here)
      BY <1>5 DEF SignInMe, Replace
  <2> QED
      BY <1>1, <1>2, <1>3, <2>1, <2>2, NearEntries
<1>6. ASSUME NEW t \in {"boot", "signin"}, Routing(t) PROVE GoalWeak'
  <2>1. Active(t) /\ (Ends(t) \/ Goes(t, "get") \/ Got(t))
      BY <1>6 DEF Routing, RouteVault, RouteGet, RouteFill, Done, Active
  <2>2. task[t].from \in {goal, Home, None} /\ task[t].target \in {goal, Home}
      BY <1>2, <2>1 DEF Carry
  <2>3. Carried(t) \in {goal, Home}
      BY <2>2 DEF Carried, Or
  <2>4. \/ UNCHANGED here
        \/ here' = Rendered(Entry(task[t].target, None))
        \/ here' = Rendered(Entry(task[t].target, task[t].from))
        \/ here' = Rendered(Entry("/setup", task[t].from))
        \/ here' = Rendered(Entry("/unlock", Carried(t)))
      BY <1>6 DEF Routing, RouteVault, RouteGet, RouteFill, Replace, Push
  <2>5. UNCHANGED here \/ \E e \in Entries : Near(e) /\ here' = Rendered(e)
      BY <1>1, <2>2, <2>3, <2>4, NearEntries
  <2> QED
      BY <1>1, <1>3, <2>1, <2>5
<1>7. here.path \in Gates => here.from \in {goal, Home, None}
    BY <1>2, GatesApart DEF Near, TypeOK
<1>8. CASE GoLogin \/ CodeSent \/ ChangeEmail \/ Restored
  <2>1. task' = task /\ here.path \in Gates
      BY <1>1, <1>8 DEF GoLogin, CodeSent, ChangeEmail, Restored, Link, On
  <2>2. UNCHANGED here \/ \E p \in Gates : here' = Rendered(Entry(p, here.from))
      BY <1>1, <1>8 DEF GoLogin, CodeSent, ChangeEmail, Restored, Link, Push
  <2> QED
      BY <1>3, <1>7, <2>1, <2>2, NearEntries
<1>9. ASSUME NEW t \in {"signin", "unlock", "setup"},
             \A u \in Tasks \ {t} : task'[u] = task[u], UNCHANGED here,
             task'[t].from = here.from, task'[t].target \in {Home, Or(here.from, Home)},
             here.path \in Gates
      PROVE  GoalWeak'
  <2>1. task'[t].from \in {goal, Home, None} /\ task'[t].target \in {goal, Home}
      BY <1>7, <1>9, NearEntries
  <2> QED
      BY <1>1, <1>2, <1>9, <2>1 DEF GoalWeak, Carry, Near, Active, Carriers
<1>10. CASE Verified
  <2>1. here.from \in Routed /\ Or(here.from, Home) \in Views /\ here.path \in Gates
      BY <1>1, <1>10, GatesApart DEF TypeOK, Entries, Routed, Or, Verified, On
  <2>2. /\ \A u \in Tasks \ {"signin"} : task'[u] = task[u]
        /\ task'["signin"].from = here.from /\ task'["signin"].target = Or(here.from, Home)
    <3>1. task' = [task EXCEPT !["signin"] = At("me", here.from, Or(here.from, Home))]
        BY <1>10 DEF Verified
    <3>2. "signin" \in Tasks /\ "me" \in Pcs
        BY <1>1
    <3> QED
        BY ZenonT(60), <2>1, <3>1, <3>2, TaskAt
  <2> QED
      BY <1>9, <1>10, <2>1, <2>2 DEF Verified
<1>11. CASE UnlockSubmit \/ SetupSubmit
  <2>1. PICK t \in {"unlock", "setup"} : Begins(t, "derive")
      BY <1>11 DEF UnlockSubmit, SetupSubmit
  <2>2. here.from \in Routed /\ Home \in Views /\ here.path \in Gates /\ UNCHANGED here
      BY <1>1, <1>11, GatesApart DEF TypeOK, Entries, Routed, UnlockSubmit, SetupSubmit, On
  <2>3. task' = [task EXCEPT ![t] = At("derive", here.from, Home)]
      BY <2>1 DEF Begins
  <2>4. /\ \A u \in Tasks \ {t} : task'[u] = task[u]
        /\ task'[t].from = here.from /\ task'[t].target = Home
    <3>1. t \in Tasks /\ "derive" \in Pcs
        BY <1>1
    <3> QED
        BY ZenonT(60), <2>2, <2>3, <3>1, TaskAt
  <2> QED
      BY <1>9, <2>2, <2>4
<1>12. CASE UnlockSteps \/ SetupSteps
  <2>1. PICK t \in {"unlock", "setup"} :
            /\ Active(t) /\ (Ends(t) \/ Goes(t, "put") \/ Goes(t, "post"))
            /\ UNCHANGED here \/ here' = Rendered(Entry(Or(task[t].from, Home), None))
    <3>1. CASE UnlockSteps
        BY <3>1 DEF UnlockSteps, UnlockDerive, UnlockPut, Push, Active
    <3>2. CASE SetupSteps
        BY <3>2 DEF SetupSteps, SetupDerive, SetupPut, SetupPost, Push, Active
    <3> QED
        BY <1>12, <3>1, <3>2
  <2>2. Or(task[t].from, Home) \in {goal, Home} /\ None \in Routed
      BY <1>2, <2>1, NearEntries DEF Carry, Routed
  <2>3. UNCHANGED here \/ \E e \in Entries : Near(e) /\ here' = Rendered(e)
      BY <2>1, <2>2, NearEntries
  <2> QED
      BY <1>1, <1>3, <2>1, <2>3
<1> QED
    BY <1>4, <1>5, <1>6, <1>8, <1>10, <1>11, <1>12

\* Every step keeps the target, or the user turns from it.
LEMMA GoalStep == TypeOK /\ BootFirst /\ GoalInv /\ [Next]_vars => GoalInv'
<1> SUFFICES ASSUME TypeOK, BootFirst, GoalInv, [Next]_vars PROVE GoalInv'
    OBVIOUS
<1> USE DEF keys, told, route
<1>1. Tasks = {"boot", "signin", "unlock", "setup", "read", "signout", "idle"}
    BY DEF Tasks
<1>2. {"get", "api"} \subseteq Pcs
    BY DEF Pcs
<1>3. CASE UNCHANGED vars
    BY <1>3, GoalSame DEF vars
<1>4. CASE goal' = None
    BY <1>4, GoalNone
<1>5. ASSUME NEW e \in Entries, Document(e), IF e.path \in Views THEN Wants(e.path) ELSE Turns
      PROVE  GoalInv'
  <2>1. CASE e.path \in Views
    <3>1. /\ here' = e /\ task'["boot"].pc = "me" /\ task'["boot"].from = None
          /\ task'["boot"].target = e.path
          /\ \A u \in Tasks \ {"boot"} : task'[u].pc = "idle"
        BY <1>5, <2>1, DocumentIs
    <3>2. ~Active("signin")' /\ ~Active("unlock")' /\ ~Active("setup")'
        BY <1>1, <3>1 DEF Active
    <3>3. e.path \notin Gates /\ goal' = e.path
        BY <1>5, <2>1, GatesApart DEF Wants
    <3>4. Strict'
        BY <3>1, <3>2, <3>3 DEF Strict, Kept, GoalHere, GoalBoot, GoalSignIn, GoalForms, Gates
    <3>5. GoalWeak'
        BY <3>1, <3>2, <3>3 DEF GoalWeak, Near, Carry, Carriers
    <3> QED
        BY <3>4, <3>5 DEF GoalInv
  <2>2. CASE e.path \notin Views
      BY <1>4, <1>5, <2>2 DEF Turns
  <2> QED
      BY <2>1, <2>2
<1>6. CASE \E p \in Paths : Open(p)
  <2>1. PICK p \in Paths : Open(p)
      BY <1>6
  <2>2. Entry(p, None) \in Entries /\ Entry(p, None).path = p
      BY EntryType DEF Routed
  <2>3. Document(Entry(p, None)) /\ Wants(p)
      BY <2>1 DEF Open
  <2> QED
      BY <1>5, <2>2, <2>3 DEF Wants, Turns
<1>17. CASE Reload
  <2>1. here \in Entries /\ Document(here)
      BY <1>17 DEF TypeOK, Reload
  <2>2. CASE here.path \in Views
      BY <1>5, <1>17, <2>1, <2>2 DEF Reload
  <2>3. CASE here.path \notin Views /\ goal' # None
    <3>1. goal' = goal /\ (forgotten' <=> forgotten) /\ goal # None
        BY <1>17, <2>3 DEF Reload, Same
    <3>2. /\ here' = here /\ task'["boot"].pc = "me" /\ task'["boot"].from = None
          /\ task'["boot"].target = Home /\ booting'
          /\ \A u \in Tasks \ {"boot"} : task'[u].pc = "idle"
        BY <2>1, <2>3, DocumentIs
    <3>3. ~Active("signin")' /\ ~Active("unlock")' /\ ~Active("setup")'
        BY <1>1, <3>2 DEF Active
    <3>4. here.path \in Gates
        BY <2>1, <2>3 DEF Entries, Paths
    <3>5. GoalWeak'
        BY <3>1, <3>2, <3>3 DEF GoalInv, GoalWeak, Near, Carry, Carriers
    <3>6. GoalHere'
        BY <3>1, <3>2 DEF GoalInv, Strict, GoalHere, Kept
    <3>7. GoalBoot' /\ GoalSignIn' /\ GoalForms'
        BY <3>2, <3>3, <3>4 DEF GoalBoot, GoalSignIn, GoalForms
    <3> QED
        BY <3>5, <3>6, <3>7 DEF GoalInv, Strict
  <2> QED
      BY <1>4, <2>2, <2>3
<1>7. CASE Back \/ LeaveLogin \/ (\E v \in Views : Navigate(v))
           \/ (\E ok \in BOOLEAN : SignOutCall(ok))
    BY <1>4, <1>7 DEF Back, LeaveLogin, Navigate, SignOutCall, Leaves, Turns
<1>8. CASE Expire
    BY <1>8, GoalSame DEF Expire
<1>9. ASSUME \/ BootMe \/ SignInMe \/ Routing("boot") \/ Routing("signin")
             \/ GoLogin \/ CodeSent \/ ChangeEmail \/ Verified \/ Restored
             \/ UnlockSubmit \/ UnlockSteps \/ SetupSubmit \/ SetupSteps
      PROVE  GoalInv'
  <2>1. goal' = goal
    <3>1. CASE BootMe \/ SignInMe \/ Routing("boot") \/ Routing("signin")
        BY <3>1 DEF BootMe, SignInMe, Routing, RouteVault, RouteGet, RouteFill, Forgets, Same
    <3>2. CASE GoLogin \/ CodeSent \/ ChangeEmail \/ Verified \/ Restored
        BY <3>2 DEF GoLogin, CodeSent, ChangeEmail, Verified, Restored, Same
    <3>3. CASE UnlockSubmit \/ UnlockSteps \/ SetupSubmit \/ SetupSteps
        BY <3>3 DEF UnlockSubmit, UnlockSteps, UnlockDerive, UnlockPut, SetupSubmit, SetupSteps,
                    SetupDerive, SetupPut, SetupPost
    <3> QED
        BY <1>9, <3>1, <3>2, <3>3
  <2>2. forgotten => forgotten'
    <3>1. CASE BootMe \/ SignInMe \/ Routing("boot") \/ Routing("signin")
        BY <3>1 DEF BootMe, SignInMe, Routing, RouteVault, RouteGet, RouteFill, Forgets, Same
    <3>2. CASE GoLogin \/ CodeSent \/ ChangeEmail \/ Verified \/ Restored
        BY <3>2 DEF GoLogin, CodeSent, ChangeEmail, Verified, Restored, Same
    <3>3. CASE UnlockSubmit \/ UnlockSteps \/ SetupSubmit \/ SetupSteps
        BY <3>3 DEF UnlockSubmit, UnlockSteps, UnlockDerive, UnlockPut, SetupSubmit, SetupSteps,
                    SetupDerive, SetupPut, SetupPost
    <3> QED
        BY <1>9, <3>1, <3>2, <3>3
  <2>3. CASE goal = None
      BY <1>4, <2>1, <2>3
  <2>4. CASE goal # None
    <3>1. GoalWeak'
        BY <1>9, <2>1, <2>4, WeakStep DEF GoalInv
    <3>2. CASE ~Kept'
        BY <3>1, <3>2 DEF GoalInv, Strict, GoalHere, GoalBoot, GoalSignIn, GoalForms
    <3>3. CASE Kept'
      <4>1. Kept /\ Strict
          BY <2>1, <2>2, <2>4, <3>3 DEF Kept, GoalInv
      <4>2. Strict'
          BY <1>9, <2>1, <3>3, <4>1, GoalMe, GoalRouting, GoalPages, GoalUnlock
          DEF Routing, UnlockSteps, SetupSteps
      <4> QED
          BY <3>1, <4>2 DEF GoalInv
    <3> QED
        BY <3>2, <3>3
  <2> QED
      BY <2>3, <2>4
<1>12. ASSUME NEW t \in {"read", "signout", "idle"}, UNCHANGED <<here, goal, forgotten, user, booting, cookie>>,
              \A u \in Tasks \ {t} : task'[u] = task[u]
       PROVE  GoalInv'
    BY <1>1, <1>12, GoalSame DEF Carriers
<1>13. CASE ReadKey \/ ReadSteps
  <2>1. UNCHANGED <<here, goal, forgotten, user, booting, cookie>>
      BY <1>13 DEF ReadKey, ReadSteps, ReadGet, ReadFill
  <2>2. \A u \in Tasks \ {"read"} : task'[u] = task[u]
    <3>1. CASE ReadKey
        BY <1>1, <1>2, <3>1, TaskBegins DEF ReadKey
    <3>2. CASE ReadSteps
        BY <1>1, <3>2, TaskGot, TaskEnds DEF ReadSteps, ReadGet, ReadFill
    <3> QED
        BY <1>13, <3>1, <3>2
  <2> QED
      BY <1>12, <2>1, <2>2
<1>14. CASE SignOut \/ SignOutDelete
  <2>1. UNCHANGED <<here, goal, forgotten, user, booting, cookie>>
      BY <1>14 DEF SignOut, SignOutDelete
  <2>2. \A u \in Tasks \ {"signout"} : task'[u] = task[u]
    <3>1. CASE SignOut
        BY <1>1, <3>1, TaskClears DEF SignOut
    <3>2. CASE SignOutDelete
        BY <1>1, <1>2, <3>2, TaskGoes, TaskEnds DEF SignOutDelete
    <3> QED
        BY <1>14, <3>1, <3>2
  <2> QED
      BY <1>12, <2>1, <2>2
<1>15. CASE IdleLock
  <2>1. UNCHANGED <<here, goal, forgotten, user, booting, cookie>>
      BY <1>15 DEF IdleLock
  <2>2. \A u \in Tasks \ {"idle"} : task'[u] = task[u]
      BY <1>1, <1>15, TaskClears DEF IdleLock
  <2> QED
      BY <1>12, <2>1, <2>2
<1>16. CASE IdleDelete
  <2>1. CASE goal' # None
    <3>1. Ends("idle") /\ UNCHANGED <<here, goal, forgotten, user, booting, cookie>>
        BY <1>16, <2>1 DEF IdleDelete, Turns
    <3>2. \A u \in Tasks \ {"idle"} : task'[u] = task[u]
        BY <1>1, <3>1, TaskEnds
    <3> QED
        BY <1>12, <3>1, <3>2
  <2> QED
      BY <1>4, <2>1
<1> QED
    BY <1>3, <1>6, <1>7, <1>8, <1>9, <1>13, <1>14, <1>15, <1>16, <1>17
    DEF Next, Visitor, BootSteps, SignInSteps, SignOutSteps

\* At the start the target is the address.
LEMMA GoalInit == Init => GoalInv
<1> SUFFICES ASSUME Init PROVE GoalInv
    OBVIOUS
<1>1. PICK p \in Paths :
          /\ here = Entry(p, None)
          /\ goal = IF p \in Views THEN p ELSE None
          /\ task = [t \in Tasks |->
                IF t = "boot" THEN At("me", None, IF p \in Views THEN p ELSE Home) ELSE Idle]
    BY DEF Init
<1>2. CASE p \in Views
  <2>1. /\ task["boot"].pc = "me" /\ task["boot"].from = None /\ task["boot"].target = p
        /\ \A t \in Tasks \ {"boot"} : task[t].pc = "idle"
      BY <1>1, <1>2 DEF At, Idle, Tasks
  <2>2. here.path = p /\ goal = p /\ p \notin Gates /\ ~forgotten
      BY <1>1, <1>2, GatesApart DEF Entry, Init
  <2>3. ~Active("signin") /\ ~Active("unlock") /\ ~Active("setup")
      BY <2>1 DEF Active, Tasks
  <2> QED
      BY <2>1, <2>2, <2>3 DEF GoalInv, GoalWeak, Near, Carry, Carriers, Strict, Kept, GoalHere,
                              GoalBoot, GoalSignIn, GoalForms, Gates
<1>3. CASE p \notin Views
    BY <1>1, <1>3 DEF GoalInv, GoalWeak, Strict, Kept, GoalHere, GoalBoot, GoalSignIn, GoalForms
<1> QED
    BY <1>2, <1>3

\* The deep link: until the user is there or turns away, the page and its state name the
\* view asked for (App.tsx, authRouting.ts), or, once the check on load has run in a document
\* loaded at a sign-in page or has led to the setup, that view, the hub or nothing; he ends
\* up on no third view.
THEOREM TargetSafe == Spec => []TargetKept
<1> DEFINE All == TypeOK /\ BootFirst /\ GoalInv
<1>1. Init => All
    BY InitTyped, KeyedInit, GoalInit
<1>2. All /\ [Next]_vars => All'
    BY StepTyped, BootStep, GoalStep
<1>3. All => TargetKept
    BY GoalKeeps
<1> QED
    BY <1>1, <1>2, <1>3, PTL DEF Spec
=============================================================================
