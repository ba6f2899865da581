------------------------------- MODULE Session -------------------------------
(***************************************************************************)
(* One browser tab of one user: where the router is and what it carries     *)
(* (App.tsx, authRouting.ts), the session cookie, the two layers of the key  *)
(* cache (crypto/keystore.ts), and the asynchronous functions of the page    *)
(* that read, fill and clear them: the check on load, sign-in, setup,        *)
(* unlock, the key reads of the workspace, sign-out and the idle lock.       *)
(* Every await is a point where the others go on and the user acts.          *)
(*                                                                         *)
(* Whether a key is there is all that matters here; which key opens what is  *)
(* the subject of VaultKeys.  The user's history is kept for Back; Forward   *)
(* is left out, and a request for a code is a single step.                   *)
(***************************************************************************)
EXTENDS Naturals, Sequences, FiniteSets

CONSTANTS
    Views,       \* VIEW_PATHS, among them Home
    Home,
    MaxPast,     \* bound: entries Back can return to
    MaxTasks,    \* bound: asynchronous functions under way at a time
    MaxLoads,    \* bound: documents loaded after the first
    MaxFaults    \* bound: lost calls and answers, IndexedDB errors, expiries

ASSUME SessionAssumption ==
    /\ Home \in Views
    /\ Views \cap {"/", "/login", "/code", "/setup", "/unlock"} = {}
    /\ MaxPast \in Nat /\ MaxTasks \in Nat /\ MaxLoads \in Nat /\ MaxFaults \in Nat

VARIABLES
    cookie,      \* the server accepts the browser's session
    vault,       \* the server holds a passphrase envelope
    mem, disk,   \* the key is in the in-process cache, in IndexedDB
    here,        \* the router's entry: path, and the target carried in its state
    past,        \* the entries before it
    user,        \* userId is set
    booting, signingOut,
    email,       \* an address was given in this document
    task,        \* the asynchronous functions under way
    loads, faults,
    goal,        \* history: the view the visitor asked for and has not turned from
    forgotten,   \* history: the check on load has led away from a sign-in page, or to the
                 \*          setup, without that view (see Forgets)
    erased,      \* history: the last sign-out or lock deleted the key, no passphrase was given since
    mixed,       \* history: a clearing of the key overlapped with a read or a caching
                 \*          of it, or IndexedDB failed
    strayed      \* history: since this document was loaded the user went Back, the key
                 \*          was cleared, or the vault check failed

route == <<here, past>>
keys  == <<mem, disk>>
bounds == <<loads, faults>>
told  == <<goal, forgotten, erased, mixed, strayed>>
vars  == <<cookie, vault, keys, route, user, booting, signingOut, email, task, bounds, told>>

Gates == {"/", "/login", "/code", "/setup", "/unlock"}
Paths == Views \cup Gates
None  == "none"

Entry(p, f) == [path |-> p, from |-> f]
Entries     == [path : Paths, from : Views \cup {None}]

Tasks == {"boot", "signin", "unlock", "setup", "read", "signout", "idle"}
Idle  == [pc |-> "idle", from |-> None, target |-> Home, got |-> FALSE]
At(pc, from, target) == [pc |-> pc, from |-> from, target |-> target, got |-> FALSE]
Runs  == [pc : {"idle", "me", "vault", "get", "fill", "derive", "put", "post", "delete", "api"},
          from : Views \cup {None}, target : Views, got : BOOLEAN]

Clearing == \E t \in {"signout", "idle"} : task[t].pc = "delete"
Touching == \E t \in Tasks : task[t].pc \in {"get", "fill", "derive", "put"}

MayBegin(t) == task[t] = Idle /\ Cardinality({u \in Tasks : task[u] # Idle}) < MaxTasks

\* The visitor names a view, turns from the one he named, or neither.
Wants(p) == goal' = (IF p \in Views THEN p ELSE None) /\ forgotten' = FALSE
Turns == goal' = None /\ forgotten' = FALSE
Same  == UNCHANGED <<goal, forgotten>>

\* The app loses sight of the view (if there is one): the check on load takes nothing
\* from the state of the page it runs on, and carries nothing to the setup.
Forgets(lost) == forgotten' = (forgotten \/ (goal # None /\ lost)) /\ UNCHANGED goal

Or(f, default) == IF f = None THEN default ELSE f
Fault == faults < MaxFaults /\ faults' = faults + 1 /\ UNCHANGED loads
Fine  == UNCHANGED bounds

-----------------------------------------------------------------------------
(* What App renders: loading while the check runs, a redirect to the login   *)
(* that remembers the view, a redirect to the landing page, or the page.     *)

Rendered(e) ==
    IF booting' /\ ~user' THEN e
    ELSE IF e.path \in Views /\ ~user' /\ ~signingOut' THEN Entry("/login", e.path)
    ELSE IF e.path \in {"/setup", "/unlock"} /\ ~user' THEN Entry("/", None)
    ELSE e

Push(e) ==
    /\ here' = Rendered(e)
    /\ past' = IF Len(past) < MaxPast THEN Append(past, here)
               ELSE IF MaxPast = 0 THEN <<>> ELSE Append(Tail(past), here)

Replace(e) == here' = Rendered(e) /\ UNCHANGED past

Ends(t)      == task' = [task EXCEPT ![t] = Idle]
Goes(t, pc)  == task' = [task EXCEPT ![t].pc = pc]

\* A new document: the scripts stop, the in-process cache is empty, the check starts.
Document(e) ==
    /\ loads < MaxLoads /\ loads' = loads + 1
    /\ mem' = FALSE
    /\ user' = FALSE /\ booting' = TRUE /\ signingOut' = FALSE /\ email' = FALSE
    /\ task' = [t \in Tasks |->
          IF t = "boot" THEN At("me", None, IF e.path \in Views THEN e.path ELSE Home) ELSE Idle]
    /\ here' = e
    /\ strayed' = FALSE

-----------------------------------------------------------------------------
(* The browser: an address, the reload button, the Back button; the session   *)
(* ends on the server after its time.                                        *)

Open(p) ==
    /\ Document(Entry(p, None))
    /\ past' = <<>>
    /\ Wants(p)
    /\ UNCHANGED <<cookie, vault, disk, faults, erased, mixed>>

Reload ==
    /\ Document(here)
    /\ IF here.path \in Views THEN Wants(here.path) ELSE Same
    /\ UNCHANGED <<cookie, vault, disk, past, faults, erased, mixed>>

Back ==
    /\ past # <<>>
    /\ UNCHANGED <<cookie, vault, keys, user, booting, signingOut, email, task, bounds, erased, mixed>>
    /\ here' = Rendered(past[Len(past)])
    /\ past' = SubSeq(past, 1, Len(past) - 1)
    /\ Turns
    /\ strayed' = TRUE

Expire ==
    /\ cookie
    /\ cookie' = FALSE
    /\ Fault
    /\ UNCHANGED <<vault, keys, route, user, booting, signingOut, email, task, told>>

-----------------------------------------------------------------------------
(* The check on load, and routeAfterAuth, which it shares with sign-in.      *)

\* The last step of the check is its "finally".
Done_NoFinally(t) == Ends(t) /\ UNCHANGED booting
Done(t) == Ends(t) /\ booting' = (booting /\ t # "boot")

BootMe ==
    /\ task["boot"].pc = "me"
    /\ \/ /\ cookie /\ Fine
          /\ user' = TRUE /\ signingOut' = FALSE
          /\ Goes("boot", "vault")
          /\ UNCHANGED <<booting, route>>
       \/ /\ IF cookie THEN Fault ELSE Fine
          /\ UNCHANGED <<user, signingOut>>
          /\ Done("boot")
          /\ Replace(here)
    /\ Forgets(here.path \in {"/setup", "/unlock"} \/ (user' /\ here.path \in Gates))
    /\ UNCHANGED <<cookie, vault, keys, email, erased, mixed, strayed>>

\* onSuccess of the code page has no catch: a lost call leaves the page as it is, a
\* refused one goes on without a user.
SignInMe ==
    /\ task["signin"].pc = "me"
    /\ UNCHANGED <<cookie, vault, keys, booting, email, told>>
    /\ \/ /\ Fine
          /\ user' = cookie /\ signingOut' = FALSE
          /\ Goes("signin", "vault")
          /\ Replace(here)
       \/ /\ Fault /\ Ends("signin")
          /\ UNCHANGED <<user, signingOut, route>>

RouteVault(t) ==
    /\ task[t].pc = "vault"
    /\ UNCHANGED <<cookie, vault, keys, user, signingOut, email, erased>>
    /\ \/ /\ IF cookie THEN Fault ELSE Fine          \* the catch: fall back to the target
          /\ Done(t)
          /\ Replace(Entry(task[t].target, None))
          /\ strayed' = TRUE
          /\ Same /\ UNCHANGED mixed
       \/ /\ cookie /\ ~vault /\ Fine
          /\ Done(t)
          /\ Push(Entry("/setup", task[t].from))
          /\ Forgets(task[t].from # goal)
          /\ UNCHANGED <<mixed, strayed>>
       \/ /\ cookie /\ vault /\ mem /\ Fine
          /\ Done(t)
          /\ Replace(Entry(task[t].target, task[t].from))
          /\ Same /\ UNCHANGED <<mixed, strayed>>
       \/ /\ cookie /\ vault /\ ~mem /\ Fine
          /\ Goes(t, "get")
          /\ mixed' = (mixed \/ Clearing)
          /\ Same /\ UNCHANGED <<booting, route, strayed>>

\* loadCachedKey: the database is read, and then the cache is filled from the answer.
Got(t) == task' = [task EXCEPT ![t].pc = "fill", ![t].got = disk]

RouteGet(t) ==
    /\ task[t].pc = "get"
    /\ UNCHANGED <<cookie, vault, keys, user, signingOut, email, goal, forgotten, erased>>
    /\ \/ /\ Fine /\ Got(t)
          /\ UNCHANGED <<booting, route, mixed, strayed>>
       \/ /\ Fault /\ Done(t)
          /\ Replace(Entry(task[t].target, None))
          /\ mixed' = TRUE /\ strayed' = TRUE

Carried_Dropped(t) == task[t].from
Carried(t) == Or(task[t].from, task[t].target)

Unlocked_Assumed(t) == TRUE
Unlocked(t) == task[t].got

RouteFill(t) ==
    /\ task[t].pc = "fill"
    /\ UNCHANGED <<cookie, vault, disk, user, signingOut, email, bounds, told>>
    /\ Done(t)
    /\ mem' = (mem \/ task[t].got)
    /\ IF Unlocked(t) THEN Replace(Entry(task[t].target, task[t].from))
       ELSE Push(Entry("/unlock", Carried(t)))

-----------------------------------------------------------------------------
(* The pages before the workspace.                                           *)

\* A link of a page: no state of the session changes.
Link(e) ==
    /\ UNCHANGED <<cookie, vault, keys, user, booting, signingOut, task, bounds,
                   erased, mixed, strayed>>
    /\ Push(e)

\* On these pages the check has let go of the loader.
On(p) == here.path = p /\ (user \/ ~booting)

GoLogin ==
    /\ On("/") /\ Link(Entry("/login", here.from))
    /\ UNCHANGED <<email, goal, forgotten>>

LeaveLogin ==
    /\ On("/login") /\ Link(Entry("/", None))
    /\ Turns
    /\ UNCHANGED email

CodeSent ==
    /\ On("/login") /\ Link(Entry("/code", here.from))
    /\ email' = TRUE
    /\ Same

ChangeEmail ==
    /\ On("/code") /\ Link(Entry("/login", here.from))
    /\ UNCHANGED <<email, goal, forgotten>>

\* The right code: the server starts a session, onSuccess runs.
Verified ==
    /\ On("/code") /\ email /\ MayBegin("signin")
    /\ cookie' = TRUE
    /\ task' = [task EXCEPT !["signin"] = At("me", here.from, Or(here.from, Home))]
    /\ UNCHANGED <<vault, keys, route, user, booting, signingOut, email, bounds, told>>

Begins(t, pc) ==
    /\ MayBegin(t)
    /\ task' = [task EXCEPT ![t] = At(pc, here.from, Home)]
    /\ mixed' = (mixed \/ Clearing)

\* The passphrase is proven against the envelope the server sends.
UnlockSubmit ==
    /\ On("/unlock") /\ cookie /\ vault
    /\ Begins("unlock", "derive")
    /\ erased' = FALSE
    /\ UNCHANGED <<cookie, vault, keys, route, user, booting, signingOut, email, bounds,
                   goal, forgotten, strayed>>

UnlockDerive ==
    /\ task["unlock"].pc = "derive"
    /\ \/ mem' = TRUE /\ Goes("unlock", "put")
       \/ UNCHANGED mem /\ Ends("unlock")            \* wrong passphrase
    /\ UNCHANGED <<cookie, vault, disk, route, user, booting, signingOut, email, bounds, told>>

\* cacheKey: memory first, then the database; the error of the latter is shown as a
\* wrong passphrase.
UnlockPut ==
    /\ task["unlock"].pc = "put"
    /\ UNCHANGED <<cookie, vault, mem, user, booting, signingOut, email, goal, forgotten, erased, strayed>>
    /\ Ends("unlock")
    /\ \/ /\ Fine /\ disk' = TRUE
          /\ Push(Entry(Or(task["unlock"].from, Home), None))
          /\ UNCHANGED mixed
       \/ Fault /\ mixed' = TRUE /\ UNCHANGED <<disk, route>>

SetupSubmit ==
    /\ On("/setup")
    /\ Begins("setup", "derive")
    /\ erased' = FALSE
    /\ UNCHANGED <<cookie, vault, keys, route, user, booting, signingOut, email, bounds,
                   goal, forgotten, strayed>>

SetupDerive ==
    /\ task["setup"].pc = "derive"
    /\ mem' = TRUE /\ Goes("setup", "put")
    /\ UNCHANGED <<cookie, vault, disk, route, user, booting, signingOut, email, bounds, told>>

SetupPut ==
    /\ task["setup"].pc = "put"
    /\ \/ Fine /\ disk' = TRUE /\ Goes("setup", "post") /\ UNCHANGED mixed
       \/ Fault /\ mixed' = TRUE /\ UNCHANGED disk /\ Ends("setup")
    /\ UNCHANGED <<cookie, vault, mem, route, user, booting, signingOut, email, goal, forgotten, erased, strayed>>

SetupPost ==
    /\ task["setup"].pc = "post"
    /\ UNCHANGED <<cookie, keys, user, booting, signingOut, email, told>>
    /\ Ends("setup")
    /\ \/ /\ cookie /\ ~vault /\ Fine
          /\ vault' = TRUE
          /\ Push(Entry(Or(task["setup"].from, Home), None))
       \/ /\ IF cookie /\ ~vault THEN Fault ELSE Fine
          /\ vault' \in {vault, vault \/ cookie}     \* lost before or after
          /\ UNCHANGED route

\* ImportCard in setup mode: the envelope of the backup, then the unlock page.
Restored ==
    /\ On("/setup") /\ cookie /\ ~vault
    /\ vault' = TRUE
    /\ UNCHANGED <<cookie, keys, user, booting, signingOut, email, task, told>>
    /\ \/ Fine /\ Push(Entry("/unlock", here.from))
       \/ Fault /\ UNCHANGED route                  \* a record was not stored

-----------------------------------------------------------------------------
(* The workspace.                                                            *)

Inside == here.path \in Views /\ user

Navigate(v) ==
    /\ Inside /\ v # here.path
    /\ Link(Entry(v, None))
    /\ Turns
    /\ UNCHANGED email

\* The load on mount, a reload, a save: each asks for the key.
ReadKey ==
    /\ Inside /\ ~mem
    /\ Begins("read", "get")
    /\ UNCHANGED <<cookie, vault, keys, route, user, booting, signingOut, email, bounds,
                   goal, forgotten, erased, strayed>>

ReadGet ==
    /\ task["read"].pc = "get"
    /\ \/ Fine /\ Got("read") /\ UNCHANGED mixed
       \/ Fault /\ Ends("read") /\ mixed' = TRUE
    /\ UNCHANGED <<cookie, vault, keys, route, user, booting, signingOut, email, goal, forgotten, erased, strayed>>

ReadFill ==
    /\ task["read"].pc = "fill"
    /\ mem' = (mem \/ task["read"].got)
    /\ Ends("read")
    /\ UNCHANGED <<cookie, vault, disk, route, user, booting, signingOut, email, bounds, told>>

\* clearKey: memory first, then the database.
Dropped_Kept == mem
Dropped == FALSE

Clears(t) ==
    /\ MayBegin(t)
    /\ task' = [task EXCEPT ![t].pc = "delete"]
    /\ mem' = Dropped
    /\ erased' = FALSE
    /\ mixed' = (Touching \/ (Clearing /\ mixed))
    /\ strayed' = TRUE

SignOut ==
    /\ Inside
    /\ Clears("signout")
    /\ signingOut' = TRUE
    /\ UNCHANGED <<cookie, vault, disk, route, user, booting, email, bounds, goal, forgotten>>

Deleted_Skipped == disk
Deleted == FALSE

SignOutDelete ==
    /\ task["signout"].pc = "delete"
    /\ \/ Fine /\ disk' = Deleted /\ erased' = TRUE /\ Goes("signout", "api") /\ UNCHANGED mixed
       \/ Fault /\ Ends("signout") /\ mixed' = TRUE /\ UNCHANGED <<disk, erased>>
    /\ UNCHANGED <<cookie, vault, mem, route, user, booting, signingOut, email, goal, forgotten, strayed>>

\* The error of a lost call is swallowed: the page leaves, the session may live on.
Leaves_Thrown(answered) == answered
Leaves(answered) == TRUE

SignOutCall(answered) ==
    /\ task["signout"].pc = "api"
    /\ IF answered THEN Fine /\ cookie' = FALSE ELSE Fault /\ cookie' \in {cookie, FALSE}
    /\ UNCHANGED <<vault, keys, booting, signingOut, email, erased, mixed, strayed>>
    /\ Ends("signout")
    /\ IF Leaves(answered)
       THEN /\ user' = FALSE
            /\ Push(Entry("/", None))
            /\ Turns
       ELSE UNCHANGED <<user, route, goal, forgotten>>

IdleLock ==
    /\ Inside /\ loads < MaxLoads
    /\ Clears("idle")
    /\ UNCHANGED <<cookie, vault, disk, route, user, booting, signingOut, email, bounds, goal, forgotten>>

\* A hard reload into the unlock page; when the database fails, onLock never runs.
IdleDelete ==
    /\ task["idle"].pc = "delete"
    /\ UNCHANGED <<cookie, vault>>
    /\ \/ /\ UNCHANGED faults /\ disk' = Deleted /\ erased' = TRUE
          /\ Document(Entry("/unlock", None))
          /\ past' = <<>>
          /\ Turns
          /\ UNCHANGED mixed
       \/ /\ Fault /\ Ends("idle") /\ mixed' = TRUE
          /\ UNCHANGED <<keys, route, user, booting, signingOut, email, goal, forgotten, erased, strayed>>

-----------------------------------------------------------------------------
\* A tab opened at some address, in a browser with or without session and key.
Init ==
    /\ cookie \in BOOLEAN /\ vault \in BOOLEAN
    /\ disk \in BOOLEAN /\ (disk => vault)
    /\ mem = FALSE
    /\ \E p \in Paths :
          /\ here = Entry(p, None)
          /\ goal = IF p \in Views THEN p ELSE None
          /\ task = [t \in Tasks |->
                IF t = "boot" THEN At("me", None, IF p \in Views THEN p ELSE Home) ELSE Idle]
    /\ past = <<>>
    /\ user = FALSE /\ booting = TRUE /\ signingOut = FALSE /\ email = FALSE
    /\ loads = 0 /\ faults = 0
    /\ forgotten = FALSE /\ erased = FALSE /\ mixed = FALSE /\ strayed = FALSE

Routing(t)   == RouteVault(t) \/ RouteGet(t) \/ RouteFill(t)
BootSteps    == BootMe \/ Routing("boot")
SignInSteps  == SignInMe \/ Routing("signin")
UnlockSteps  == UnlockDerive \/ UnlockPut
SetupSteps   == SetupDerive \/ SetupPut \/ SetupPost
ReadSteps    == ReadGet \/ ReadFill
SignOutSteps == SignOutDelete \/ \E answered \in BOOLEAN : SignOutCall(answered)

Visitor ==
    \/ (\E p \in Paths : Open(p)) \/ Reload \/ Back
    \/ GoLogin \/ LeaveLogin \/ CodeSent \/ ChangeEmail \/ Verified
    \/ UnlockSubmit \/ SetupSubmit \/ Restored
    \/ (\E v \in Views : Navigate(v)) \/ ReadKey
    \/ SignOut \/ IdleLock

Next ==
    \/ BootSteps \/ SignInSteps \/ UnlockSteps \/ SetupSteps
    \/ ReadSteps \/ SignOutSteps \/ IdleDelete
    \/ Visitor \/ Expire

\* Calls, the database and the derivation settle, each function by itself.
Fairness ==
    /\ WF_vars(BootSteps)  /\ WF_vars(SignInSteps) /\ WF_vars(UnlockSteps)
    /\ WF_vars(SetupSteps) /\ WF_vars(ReadSteps)   /\ WF_vars(SignOutSteps)
    /\ WF_vars(IdleDelete)

Spec == Init /\ [][Next]_vars /\ Fairness

-----------------------------------------------------------------------------
(* Properties.                                                             *)

TypeOK ==
    /\ cookie \in BOOLEAN /\ vault \in BOOLEAN /\ mem \in BOOLEAN /\ disk \in BOOLEAN
    /\ here \in Entries /\ past \in Seq(Entries) /\ Len(past) <= MaxPast
    /\ user \in BOOLEAN /\ booting \in BOOLEAN /\ signingOut \in BOOLEAN /\ email \in BOOLEAN
    /\ task \in [Tasks -> Runs]
    /\ loads \in 0..MaxLoads /\ faults \in 0..MaxFaults
    /\ goal \in Views \cup {None} /\ forgotten \in BOOLEAN
    /\ erased \in BOOLEAN /\ mixed \in BOOLEAN /\ strayed \in BOOLEAN

\* Signing out and the idle lock leave no key in either layer, also after the tab was
\* loaded anew or used to sign in again, until a passphrase is given; only a read or a
\* caching of the key that overlapped with its clearing brings it back (keystore.ts:79).
ErasedStaysErased == erased /\ ~mixed => ~mem /\ ~disk

\* The key the tab works with survives a reload: once every clearing and caching is over,
\* the in-process cache holds no key that IndexedDB lacks.
LayersAgree ==
    ~mixed /\ ~Clearing /\ task["unlock"].pc # "put" /\ task["setup"].pc # "put" => (mem => disk)

\* Where a page may carry the visitor to: the view he asked for, or the hub (or nothing)
\* once the app has forgotten it.
Due == {goal} \cup IF forgotten THEN {Home, None} ELSE {}

\* BR-ROUTE-1, as far as the code goes: the view a visitor asked for comes along through
\* login, code, setup and unlock and is where he ends up.  Contrary to authRouting.ts "carried
\* through login/setup/unlock" the check on load forgets it when it runs in a document loaded
\* at one of these pages or leads to the setup: then he may end up on the hub, but at no
\* third view.
TargetKept ==
    goal # None =>
        \/ here.path \in Due
        \/ here.path \in Gates /\ here.from \in Due /\ (here.path = "/" => forgotten)

\* Once routing is over nobody is inside without a key, unless he went back there, the
\* vault check failed or the key was cleared meanwhile.
InsideMeansKey ==
    Inside /\ task["boot"] = Idle /\ task["signin"] = Idle /\ ~strayed /\ ~mixed => mem \/ disk

\* The loader goes away: whatever the check on load meets, it ends.
BootEnds == booting ~> ~booting

\* Once the key is erased the user gets out, whether the call is answered or not.
SignOutLeaves == task["signout"].pc = "api" ~> ~user
=============================================================================
