# Verification of Buckie

Buckie is a spending tracker for a few users on one self-hosted server. A Go
server (`backend/`) signs users in with codes sent by mail and stores opaque
ciphertexts in SQLite; a React client (`frontend/`) derives a key from a
passphrase, encrypts everything in the browser and does all arithmetic there.
This directory holds TLA+ models of the parts where state, concurrency, failure
and arithmetic meet, the TLC configurations that check them, and proofs that
TLAPS checks.

    tlc -workers 2 -config MCSignIn.cfg MCSignIn            # one run
    tlapm SignInProofs.tla                                  # one module of proofs

`PROJECT.json` lists the components, the runs, the source lines behind every
definition, the hazards of the code and the theorems.

## 1. The system

| Component | State | Operations | Talks to | What is hard | What makes it correct | Modelled in |
|---|---|---|---|---|---|---|
| Sign-in (`internal/auth`: code, session, user, handler) | tables `users`, `otp_codes`, `sessions` | request-code, verify-code, sign-out, me | limiter, mail, SQLite | handlers run concurrently, each statement is its own transaction; statements fail, the process restarts | a session needs a code of the same user that is spent; codes are tried, superseded and used up as documented; a session that ended stays ended | `SignIn` |
| Rate limiter (`rate.go`) | a map in memory | two charges per code request | handler | other requests between the two charges; window boundaries; restarts | ceilings hold per window; nobody is refused for somebody else's requests | `RateLimiter` |
| Record store (`internal/records`) | table `records`, one key space for all users | list, put, delete | session check | session checked in one statement, record used in another; ids chosen by clients | users neither read nor write each other's records; to a user the table is a store of its own | `RecordStore`, `UserStore` |
| Vault store (`internal/vault`) | table `user_vaults` | get, create, replace | session check | two browsers set up together | one setup; only a change of passphrase replaces the envelope | `VaultKeys` |
| Passphrase flows (`api/passphrase.ts`, `crypto/vault.ts`, three pages) | the form being processed | set up, unlock, change | vault and record API, key cache | minutes-long flow of many calls; lost calls and answers; retries; other browsers | records and envelope stay together, content is kept, a wrong passphrase changes nothing | `VaultKeys` |
| Key cache (`crypto/keystore.ts`) | one key in the process, one per user in IndexedDB | cache, load, clear | flows above, idle lock, sign-out | two layers, each asynchronous function between its awaits | a key that was cleared is gone; the layers agree | `Session` |
| Routing, sign-out, idle lock (`App.tsx`, `authRouting.ts`, `useIdleLock.ts`) | user, route, history, timers | check on load, sign in, set up, unlock, sign out, lock | all of the client | navigation while a function runs; the view asked for travels through four pages | the workspace is entered with the key, at the view asked for, or locked; loader and sign-out end | `Session` |
| Record client and workspace (`api/records.ts`, `useWorkspace.ts`) | local registers | load, save, update, remove | record API | reloads and saves in flight together; lost answers; other browsers | the page shows what the server has | `Workspace` |
| Backup (`api/backup.ts`, `domain/backup.ts`, two cards) | the file | download, restore in two modes | vault and record API | parallel reads, partial restores, passphrase changes meanwhile | a file opens under its envelope and restores; a restore leaves nothing unreadable | `Backup` |
| Registers and forms (`domain/*.ts`, `pages/*`) | expenses, templates, income, events, plan | capture, edit, end, remove, plan | workspace | time passes; a form holds an old copy; what earlier versions stored | invalid input is refused; ending keeps history | `Ledger` |
| Figures (`domain/*.ts`) | none (pure) | expansion, totals, income, series, comparison, flows, browser | pages | month ends, leap days, year ends, legacy categories, several tables that must agree | every view shows the same money; balances are conserved | `Figures`, `Calendar` |
| Mail, deployment, layout of pages and charts | | | | | | no |

## 2. The modules

| Module | What it is |
|---|---|
| `SignIn` | codes and sessions, one action per SQL statement of the two handlers |
| `SignInProofs` | its theorems, first about any interleaving, then about users whose requests do not overlap |
| `RateLimiter`, `RateLimiterProofs` | the limiter, one action per charge |
| `UserStore` | abstract: what the record API promises one user |
| `RecordStore`, `RecordStoreProofs` | the table and the handlers; refines `UserStore` |
| `VaultKeys`, `VaultKeysProofs` | the vault table, the records' keys and several browsers |
| `Backup`, `BackupProofs` | extends `VaultKeys` by download and restore |
| `Session`, `SessionProofs` | one tab: routing, the two layers of the key cache, sign-out, idle lock |
| `Workspace`, `WorkspaceProofs` | the registers of a page against the server's records |
| `Calendar` | months, dates and weekdays |
| `Figures` | what the client computes from the registers; over `Calendar` |
| `Ledger`, `LedgerProofs` | the registers and the forms that change them; its properties are about `Figures` |
| `MC...` | constants and symmetry for TLC |

`Backup` is composed with `VaultKeys` by extension: every step of the browsers'
forms is a step of `Backup` (VaultStep). `VaultKeys` and `Session` look at the
same code from two sides: which key opens what, in several browsers, with a
cached key that is one value; and whether a key is there at all, in one tab,
with both layers, history and routing. `Workspace` and `Ledger` split the pages
in the same way: the first has the calls and no contents, the second the contents
and a save that is done or not. A change of the passphrase by another browser
during a workspace session is in `VaultKeys`, not in `Workspace`.

In every module a definition whose name has an underscore (`Spent_Forgets`) is
a faulty variant of the one after it, kept to show that a property notices it.

### SignIn

`otp`, `sessions` are the tables; `handler[h]` is what the h-th request in
flight is about to do: `requestCode` is BeginRequest, Invalidate, Insert;
`verifyCode` is BeginVerify, SelectNothing or SelectRow, CountAttempt, Consume,
Mint. The database has one connection, so one statement runs at a time, but no
handler opens a transaction: between two statements of one handler any other
handler may run. Fail ends a handler at a failing statement, Crash ends all of
them and keeps the tables. `earned`, `faults` and `overlapped` (the users of whom
two requests were ever in flight together) are history. The clock ticks
freely; `created_at` has the resolution of a tick, so SelectRow picks any of the
newest rows. Not modelled: the six digits and their hash (a code is a value), the
mail after the insert, the users table (an address is a user). Drawing the same
code by chance is possible (codes come from a small set).

Overlapping requests of one user break what the code promises of a user who
waits: two code requests both invalidate before either inserts and leave two
active codes (code.go:42); two verifies in flight both read the attempt counter
before either writes it (OverrunBounded says how far that goes), and both compare
before either consumes, so that one code signs in twice. The `Alone` properties
hold for the users whose requests do not overlap, next to others' that do.

### RateLimiter

`entries` is the map. `allow` holds the mutex for one charge; `allowCodeRequest`
charges the IP and then, in a second critical section, the e-mail, so ChargeIp
and ChargeEmail are two actions. Restart empties the map and cuts requests off.
`log` is history: every decision since the last start. RefusedForCause counts what was
charged to a key, so for an IP also the requests that the e-mail's ceiling then refused:
the code does not give that charge back (rate.go:48), and somebody who asks for one
address too often uses up his network's ceiling for others. rate.go speaks of a
ceiling "per rolling hour"; the code opens fixed windows, so a burst before a
boundary and one after it add up to twice the ceiling within less than an hour.
TwiceCeiling is the bound the code keeps.

### UserStore and RecordStore

`rows` maps an id to its row: one id, one row, whoever owns it. A call is asked,
authenticated in one statement (Authenticate), and takes effect in another
(List, Put, Delete) or is rejected. Sign-outs and other calls come in between.
`MayUse` says which ids a user's browsers save under: random ids of their own,
or the fixed ids `expectations` and `settings`. `UserStore` has a store per user
and calls that take effect once between asking and answer, except that a put
under an id of several users (`Shared`) may be answered ok and lost.
`RecordStore` implements it under the mapping ViewOf, TaskOf.

### VaultKeys

Every derivation draws a fresh salt, so keys are numbered in the order they are
derived and `derived[k]` remembers the passphrase. `envelope` is the key the
stored envelope yields (0: no row); `store[i].key` the key record i is encrypted
under. `form[c]` is the asynchronous function browser c is in, between two of
its awaits: setupVault (create), unlockVault (unlock), changePassphrase (verify,
list, migrate, cache). A call is one step at the moment the server processes it;
with `ok = FALSE` its answer is lost, with Abandon the call itself is.
SaveBegin takes the cached key and encrypts, SaveArrive is the server's part.
Reload and IdleLock stop the scripts of the page; SignOut does not, it navigates
inside the page.

What the user does with a page while a form is busy is not restricted: the code
restricts nothing either. changePassphrase goes on when the user leaves the card for
another view, and he may save, delete, sign out or be locked out meanwhile; so may any
other browser. One browser has one tab and one form at a time.

A change lists the records once and works on what it has listed (passphrase.ts:28). The
history `missed` in a change's form is the ids that somebody else, or a save of its own
page, wrote or removed after it had listed their kind. MigrationComplete, SwapCoversStore
and ContentKept hold for every other record, however many browsers and forms there are
and whatever fails; for these ids the change does harm. A save that was encrypted
under the old key and stored after the listing keeps that key, and after the swap no
passphrase opens it. This takes one browser and no failure, and the requirement
EX-PASS-1 says it cannot be: AllReadable states the requirement and the run
`vault_readable` shows how it is broken. A record removed after the listing comes back,
and a newer version is overwritten by the older one.

ReadableUncrossed is what is left of EX-PASS-1: everything is readable while nothing has
failed and nothing that Crossing names has happened. `crossed` remembers the last: two
browsers that have the key, or are about to, at the same time; a save on its way, or a
sign-out, beside a form of the same page; a setup that comes second. A user who uses one
device after the other, signs out of each and waits for the change to finish never
crosses.

What goes wrong beyond what a property says: a browser that has the old key goes on
saving under it after another one has changed the passphrase (records.ts:28; the
workspace reads the cached key before each call and nothing tells it), or on the same
page until ChangeCache; of two browsers that set up together the refused one keeps the
key it has cached, and after a reload enters the workspace with it (crypto/vault.ts:37);
an unlock or a change that is still deriving when the user signs out caches its key
afterwards (App.tsx:57, and in Session below).

### Backup

`export[c]` is the download under way: GET /api/vault and one list per kind in parallel
(ExportEnvelope, ExportList), in any order, then the file (ExportDone). `restore[c]`
goes through `envelope` (setup mode only: POST /api/vault) and `records`, one put after
the other, in any order of the file; the first failure ends it. parseBundle is reduced
to the kinds it accepts (`Portable`), and bundleMatchesKey to the comparison of the
file's envelope with the cached key. A page that is loaded anew or left drops what it
was doing (VaultStep). NewServer stands for the reason backups exist: the account starts
over with the file in hand. Downloads and restores overlap freely with forms, saves and
each other's failures; the history says what such an overlap does to a file or a
restore. `odd`, of an export and its file: the records that the account's own envelope
did not open when they were read (a change was under way, or had been broken off, or a
save was late), and all of them once the envelope was replaced before the file was
complete. FileOpens is about every other record. `overtaken`, of a restore: the
browser's cached key was not the account's when it checked the file (bundleMatchesKey
asks the cache and not the server), or the envelope was replaced since. RestoredReadable
is about every other restore, also one that breaks off halfway, and about later changes:
each takes along what was restored before it listed, and leaves behind what a restore
puts after that (`missed`). Not in the model: a second account on the same server, which
cannot restore records whose ids the first account owns (the put is answered 204 and
dropped, as in `record_fixed_id`).

### Session

`here` and `past` are the router's entries; an entry carries `from`, the view the
visitor asked for. `task[t]` is where each asynchronous function stands between its
awaits: `boot` (the check on load) and `signin` share routeAfterAuth (RouteVault,
RouteGet, RouteFill), `unlock` and `setup` cache a key (memory first, IndexedDB after an
await), `read` is loadCachedKey of the workspace, `signout` and `idle` clear it.
Rendered is App's choice of what to show, which includes the redirects. Document is a
new page load: the scripts stop, memory is empty. setupVault is a submit, a derivation
that then fills memory (SetupDerive), the write to IndexedDB, and the call. `goal`,
`forgotten`, `erased`, `mixed` and `strayed` are history; each is commented in the
module.

`goal` is the view the visitor asked for last; only he changes it. The entry's `from`
is what the code knows of it, and the code loses it in two places: the check on load
passes no view to the setup page (App.tsx:44, authRouting.ts:20), and when it runs in a
document loaded at one of the gate pages, after a reload of /unlock say, it asks for no
view at all (App.tsx:41-44). `forgotten` says that this has happened. TargetKept then
allows the hub, the place the code falls back to, and still no third view; everywhere else
the visitor ends where he wanted. authRouting.ts:5 says "carried through
login/setup/unlock", which is thus not so for these two.

What the properties exclude, and why. `mixed`: loadCachedKey awaits the
database and then fills the cache, so a clearKey in between is undone, and a
caching and a clearing that overlap leave the layers apart (keystore.ts:62, 79).
`strayed`: when the vault check fails the user enters with whatever key there is
(authRouting.ts:26); a user who goes Back to a workspace page after the key
was cleared is inside without one until the next load. The workspace then says that
there is no key; it shows nothing it should not.

Other behaviour found on the way, which no run states: after a sign-out `signingOut`
stays set until the next sign-in, so Back to a workspace page shows the loader for good
(App.tsx:54-60, 76-80); when clearKey itself fails, sign-out stops halfway and the idle
lock never reaches the unlock page; a check that answers late can undo a navigation of
the user. Left out: other tabs (a clearKey there does not reach this tab's memory),
Forward.

### Workspace

`store` is the server's version of each record, `local` the versions the page
shows: a sequence, since saveExpense puts a new expense in front of whatever is
there. `call[c]` is a mutation (sent, stored by the server, answered) or a load
(one read per register, then Apply of all of them together). A lost call or answer
(Lose, FailLoad) leaves the register as it was. Elsewhere is another browser.
`suspect` is history: the records whose calls overlapped, whose answer was lost
or that changed elsewhere since a load read them in peace. A load that overtakes
an added expense shows it twice until the next load; that only expenses can
do so is OnlyExpensesDouble. A save whose answer was lost is repeated under a new
id by the form, so the server holds it twice; the model has it as two records.

### Calendar, Figures, Ledger

A month "yyyy-mm" is a pair, a date a triple, and their comparison that of the
strings. An amount is in whole cents; averages are a sum and a count. `Figures`
gives each function of `frontend/src/domain` as an operator on registers, and
`Ledger` has the registers, a clock that stops at given days, and one action per
form or button: capture with its duplicate warning (CaptureWarn, CaptureSave),
edit and delete of an expense; add, end and remove of a template; add, edit, end
and remove of an income source, with the edit form holding the source as it was
when it was opened (`editing`); one-off income; the plan. What earlier versions
stored (a category since renamed, a template ended without a month) is in Init.

EndKept excludes one case, which the code has: the row's End button stays usable
while the edit form is open, and "Save changes" then writes the copy back, so the
source is active again, or, when it was removed meanwhile, is there again
(IncomeForm.tsx:71-74; its comment says "editing keeps id/dates/end state").

Divergences met while reading the pages, outside the model: the month stepper gets
its options newest first and steps by `indexOf - delta`, so its arrows go the
other way than their labels and stop at the wrong end; IncomeForm's fields are
initialised once and do not follow another source being chosen; the quick picks
offer legacy categories the form's list no longer has; onboarding is left for
good at the first income source, so its later stages are skipped; a month in the
future shows recurring expenses it never had; the duplicate warning
stays when the fields change; the default date of a capture is UTC's.

## 3. The runs

| Run | Shows | Bounds and why they are enough |
|---|---|---|
| `sign_in` | sessions are earned, overrun of the cap is bounded, no code is lost without a failure; for users whose requests do not overlap also the attempt cap, one active code, one session per code, and only the newest code signs in | 2 handlers (every race of the code is between two), 2 users and 2 codes so that a wrong user or code can appear, 2 codes issued, cap 2 so that it is reached by one request after another, lifetimes of one tick within two ticks, so that codes and sessions are fresh, at their limit and past it; 1 fault |
| `rate_limiter` | at most twice the ceiling in any stretch of a window; refusals have a cause | ceilings 2 and 1, window of one tick within four (two boundaries), nine decisions, 2 handlers |
| `record_store` | reads and writes stay with the owner; refinement of `UserStore` | one id of one user and one that *both* use, 2 kinds, one session each, 2 calls in flight. One ciphertext value suffices: `sent` tells whose it was by user and id, and the two kinds tell an old record from a new one |
| `vault` | a change re-encrypts all it has listed, content kept; the swap covers the store; only a proven change swaps; one setup; everything readable while nothing fails or crosses | 2 browsers, 2 passphrases, 2 records of 2 kinds so that a record can be written between the two lists, a fresh account or one in use with any records, 3 derivations (a setup and two changes, one after the other or in both browsers at once), one save or removal at any point of a form, 1 fault, so a failed change, its retry and what follows |
| `ledger` | all views agree, flows and balances add up, all months with data can be reached, one row a month per template, payments per year, history and ends are kept, invalid input is refused | 2 dates, a month end and a leap day a quarter later over a year end (the clock jumps, so October to March of the figures are covered); amounts 0 and 3 are refused by a maximum of 2, day 32 by the form, day 31 is clamped; 2 new records and one edit, next to two old ones: every two registers meet, and any one is edited, ended and removed. 4 payment forms, one of them weekly |
| `workspace` | the page shows what the server has, only expenses double, every call settles | an expense (added blindly) and a template (upserted) stand for the two ways of saving; 2 calls, for the races are between two; 3 versions (one that was there and two writes), 1 lost call |
| `session` | an erased key stays erased, the layers agree, the view asked for is kept, inside means a key, the loader and sign-out end | 3 views (the hub, one to ask for, one to go to), 1 entry of history, 2 functions at a time (every race of the cache is between two), one load after the first, 1 fault; any address and any mix of session, envelope and stored key at the start |
| `backup` | files open under their envelope, restores put nothing unreadable and are complete when they say so, both end | 1 browser with a form, a save, a download or a restore going on together, 2 records of 2 portable kinds, one passphrase (a change draws a new salt and key all the same), 2 derivations, a save, a fault, and a fresh server |

The runs with liveness use no symmetry.

Two runs say CHECK_DEADLOCK FALSE, because their bounds let them stop: `ledger`
after its last day, record and edit, and `session` when a visitor stands on a page
whose only way on is a load or a call that the bounds no longer allow. Clocks,
numbers of codes, saves, derivations, loads and faults are bounded in the guards,
by constants the modules mark as bounds.

Four runs look for a violation of something the repository says, and find it:

| Run | What the code does |
|---|---|
| `record_fixed_id` | `settings` and `expectations` are ids of the first user who saves them; another user's put is answered 204 and dropped |
| `vault_readable` | a save made beside a change of the passphrase, in one browser, is stored under the old key after the change has listed the records; after the swap no passphrase opens it |
| `vault_retry` | a retried change derives another key and stops at what the first attempt stored |
| `backup_kinds` | the download writes six kinds of records, the upload accepts three and refuses the file as a whole |

### Fairness

Three specifications state weak fairness, and only of what goes on by itself.
`Workspace`: a call in flight settles, by its answer or by an error (a fetch
does). `Session`: each asynchronous function by itself takes its next step: a
call settles, IndexedDB answers or fails, a derivation ends. `Backup`: the calls
of a download and of a restore settle. Nothing is asked of the user, and nothing
of the forms of `VaultKeys`. The server's specifications state none: it does
nothing unless asked.

## 4. The proofs

The theorems hold for every value of the constants that satisfies the named assumptions
of the module: finite `Handlers`, natural limits, `KindOf` into `Kinds`, `UserOf` into
`Users`, ascending dates, records of earlier versions as `OldAssumption` describes them,
views that are not the paths of the gates. They are about safety; what they say of a
specification with fairness they prove of its steps.

*SignIn.* The inductive invariant adds to the types what a verify in flight
knows: the row it chose exists and belongs to its user (ChosenRowOwned); past
the comparison the row has its code and an attempt, and before Mint it is
consumed (ChosenRowMatches). SessionsEarned alone is not inductive: Mint would
not know that its row is spent. Since rows only age (one lemma per writing
statement), other handlers cannot take this knowledge away. AttemptOverrun
counts: attempts made plus handlers about to count stay below the cap plus the
number of handlers; a handler joins the count only when the row was below the
cap. SignOutFinal follows from tokens never being reused and the clock.
CodesAccounted follows what explains a consumed row through the step that takes
its place: the handler about to insert by its row, the one about to mint by its token.

*SignIn, users alone.* The promises that overlapping requests break are proved
for every user who has had no two requests in flight, next to any number of
users who have. UserInv says of such a user: one handler at most; before its
insert no code is active, before its count the row is below the cap, before its
token the row is the newest and no token came from it; an active row is the
newest. FrameInv shows that a step that leaves a user's handlers, rows and
tokens alone keeps UserInv, OthersAlone that a step taken for one user leaves
every other alone; one lemma per step (InvalidateOwn ... MintOwn) does the rest.

*RateLimiter.* TwiceCeiling counts grants of a log, which a step cannot keep by
itself; Remembers says what an entry knows of the log. Its counter is the number of
grants since its window began, no grant is later than its end, and a stretch of
time that reaches into the window meets at most one ceiling of grants before it.
A grant within a window adds to the first number (ChargeCounts); the first after
it opens the next one, and what such a stretch has seen then lies in the window
that is closed (ChargeOpens). A stretch that meets the new grant is thus split in two
parts of a ceiling each (ChargeCeiling); a refusal finds its ceiling in
the window, which began at most a window ago (ChargeForCause).

*RecordStore.* The invariant adds to the types that every ciphertext in a row
or an answer was sent by the row's owner for an id it may use. OwnStores is
proved step by step: each action is mapped to Begin, Finish, Lose, Decline,
Forget or a stutter. The invariant is what Put needs: its row is absent, its
own, or another user's, and then the id is one both save under.

*VaultKeys.* The invariant says who knows which key: what is stored or in flight
is under a derived key, a form has opened an envelope that was stored, no two
forms made the same key, and the key of a change that has not swapped is nobody
else's. Copied is about a change under way: what it has listed and not yet written is
still in the store as it was listed, and what it has listed and has no more to do is gone
or under its new key, unless it is in `missed`. That is why a change is complete, and
why writing a record back under the new key changes no content, whatever has failed
before. It survives the steps of everybody else because those add what they write
to `missed`; the change's own put takes its record out again. These theorems take no
assumption on the user or the number of browsers.

ReadableInTurn is about users who do not cross (Calm: nothing has failed or crossed, which
no step takes back). Steady says which key everything is under then: what is
cached, read or on its way is under the envelope's, a change has still to write back what
was under the key it read, and what others wrote after it had listed it was removed (Own);
only a change on its way to the swap has records that do not open (Whole). The swap
restores Whole, and here Copied does the work: what is not in `missed` is under the new
key, what is in it is gone.

*Backup.* BackupInv carries the invariant of `VaultKeys` through downloads, restores and
the move to a new server, and adds to it what is known of records outside the server
(Safe, of an export, the file and a restore): no key in them is still to be derived, and
the new key of a change under way is in records of its own browser only. FormsGrow is
all that the steps of a form have to show for that. Restored says that what a restore
has put is still there unless others wrote it since; RestoreIsComplete is its end.
DownloadOpens and RestoreIsReadable hold for any browsers, overlaps and failures
(Agreed): an export that has its envelope, and no odd records, has records of that
envelope's key only, because a replaced envelope makes all of them odd; and a restore
that was not overtaken puts records under the envelope the server has, which its own
first step stored or the matching cached key vouches for.

*Session.* KeySafe has four parts besides the layers' agreement. A caching that
has not overlapped with a clearing is followed step by step: between the clearing
of memory and of the database memory stays empty (Dropping), after an undisturbed
clearing both are (Gone), what a read got from the database is there still when it
fills memory (Filled). ErasedIsErased and LayersTogether are parts of it.
InsideWithKey needs in addition that nobody is inside before the check on load is
over (BootFirst) and that a function about to enter has the key (Keyed).
TargetSafe needs more of the same kind about the view asked for. Each entry of the
router carries, and each function remembers, a view that is due: the one asked for or,
once forgotten, the hub or none (GoalHere, GoalBoot, GoalSignIn, GoalForms). A function
that is about to lose the view has said so before it does (Kept).

*Workspace.* Of a record that is not suspect: at most one call is under way for it
(Lone), applying that call's answer to what is shown gives what it stores (Fits),
and every load in flight that has read its register has read what is stored now
(Fresh). These three carry ShownIsStored; ids that were never handed out are
nowhere (Known), which is why adding blindly doubles nothing by itself.

*Ledger.* OnlyValid has one lemma per form. EndStays needs that ids are handed out
once (Numbered) and that a form opened for an ended source knows its end (KnowsEnd).

The figures are sums over sets of records. MapThenSumSet is a recursive function on
the subsets of its set; the laws of such a sum (SumSame, SumUnion, SumSupport,
SumMinus, SumGroups) are proved from its definition, each by looking at a smallest
subset that would break it (SetInduction, from the well-foundedness of strict
inclusion, with the property as a set instead of an operator). TotalGroups is the
one the views rest on: a total may be taken group by group, whatever function says
which group a record is in. In the same way WalkIsSpan shows for every two months
that the loop over months visits exactly those between them.

FiguresInv, proved by RegistersSound, is what the figures need of the registers:
they are finite, an id belongs to one template, a template has not ended in a month
to come (TemplatesKnown), and a source was created and ended while the program was
used (Timely). It is not implied by the types: a template ended in a later month
would have rows that the views of that month leave out. It speaks of templates
earlier versions stored, for which OldAssumption says the same of the first day.

- MonthlyRows: a row's day is clamped into its month (RowOfMonth), and the rows of
  a template are one for each month in which it is due (DueMonths, RowsAre).
- HistoryStays: a month's items are the expenses of the month and the rows of the
  templates due in it (ItemsSplit), whatever month the expansion runs through. Ending
  a template leaves it due in every month up to the current one (EndedStillDue); per
  action NextItems and NextPaid show that items and income of a month up to the
  current one stay, or the step is one of those the property names.
- EverythingReachable, ViewsTellTheSame: the series has every month with items or
  income (SeriesHolds, ItemsOffered, IncomeInSeries), and each view groups the same
  items: by category, by day, by bucket (TaxonomyHolds: every category, legacy ones
  too, has one).
- FlowsAddUp: no two groups of the flow chart share a category and the plan's table
  agrees with them (GroupsHold), so Other is what is left of the total and never
  negative (FlowsAre).
- BalanceAddsUp: the whole window is the whole series (WholeWindow), its last month
  the latest (LatestIs), and income outside the series' months is none (PastHolds).
- PaysOnTime: payments per month are the growth of a count from a month to the next
  (PaysByGain), so twelve of them add up to its growth over a year (Telescope). For
  a weekly source the count is of weeks in the number of days before the month
  (WeekdaysIn, BaseAdvances), and a year has 365 or 366 of them.

Every invariant and every action property that a passing run checks is thus the
statement of a theorem, for every value of the constants. Only model-checked is what is
out of this prover's reach: liveness, so Settles, BootEnds, SignOutLeaves and
BackupSettles.

## 5. Not modelled

- Mail delivery: I/O after the code is stored; its failure changes the answer only.
- Deployment: shell scripts and the proxy's configuration.
- Static files, health check and environment of the server's start.
- Layout, wording, geometry of charts, the landing page, the header, the month
  stepper, currency and number formatting.
- bcrypt, Argon2, AES-GCM and SQLite are taken to do what they promise; base64 and
  JSON are left out, and so are the lengths of notes and labels and the passphrase
  policy, which bound text and nothing else.
- Rounding of binary fractions: amounts are cents. Time zones: a date is a date,
  but for AddEvent, whose form takes tomorrow's west of Greenwich.
- Several tabs of one browser, two forms of one tab that was left and entered
  again, Forward.
- A call that the server processes after the browser has given it up and gone on.

## 6. Plan

1. Several tabs of one browser in `Session`: IndexedDB shared, memory not.
2. Proofs: what remains true of records and envelope after a failure, from the
   invariant of `VaultKeys`.
3. An abstract statement of `Workspace`, the register as the server has it, and the
   proof that the page implements it while nothing is suspect.
4. Calls that arrive late, in `Workspace` and `VaultKeys`.
