------------------------------ MODULE VaultKeys ------------------------------
(***************************************************************************)
(* One user's passphrase vault: the envelope in user_vaults, the records   *)
(* and the key each is encrypted under, and the browsers that set up,      *)
(* unlock, change the passphrase, save records and lock.  A browser keeps  *)
(* its key in a cache (crypto/keystore.ts); the server never has one.      *)
(*                                                                         *)
(* Every derivation draws a new salt, so every key is new: key k is the    *)
(* k-th derivation and derived[k] what it came from.  Envelope k opens for *)
(* the passphrase derived[k].pass and yields key k; a ciphertext opens     *)
(* under the key it was made with and no other (AES-GCM).                  *)
(*                                                                         *)
(* A server call is one step, at the moment its statement runs.  It can be *)
(* lost before (Abandon) or its answer can be lost after (ok = FALSE): the *)
(* browser sees the same error.  The two layers of the key cache are one   *)
(* variable here.                                                          *)
(***************************************************************************)
EXTENDS Integers, Sequences, FiniteSets

CONSTANTS
    Clients,      \* browsers of the user, one tab each
    Passphrases,
    Ids,          \* record ids
    Kinds,        \* record kinds; listAll asks for each kind separately
    KindOf(_),    \* the kind an id is saved under
    MaxKeys,      \* bound: derivations
    MaxSaves,     \* bound: saves and removals
    MaxFaults     \* bound: lost calls, lost answers and interrupted forms

ASSUME VaultAssumption ==
    /\ MaxKeys \in Nat
    /\ MaxSaves \in Nat
    /\ MaxFaults \in Nat
    /\ \A i \in Ids : KindOf(i) \in Kinds

VARIABLES
    envelope,  \* user_vaults: the key of the stored envelope, 0 when no row
    store,     \* records: id -> key it is encrypted under, version of its content
    derived,   \* the passphrase of every key derived so far, and (history) what for
    saves,     \* saves and removals so far; the n-th, if a save, writes version n
    cached,    \* per client: the cached key, 0 when none
    page,      \* per client: where the router is
    form,      \* per client: the passphrase form being processed, and (history) the ids
               \*             others wrote or removed since a change listed them
    put,       \* per client: a save on its way to the server
    held,      \* history: the keys whose envelope was ever stored
    faults,
    crossed    \* history: what the browser does not prevent has happened (see Crossing)

vars == <<envelope, store, derived, saves, cached, page, form, put, held, faults, crossed>>

Blob   == [key : Nat, val : Nat]
Absent == [gone |-> TRUE]
Blobs  == [Ids -> Blob \cup {Absent}]

NoForm == [pc |-> "idle"]
NoPut  == [id |-> "none"]
Form   == [pc : {"create", "unlock", "verify", "list", "migrate", "cache"},
           old : Nat, new : Nat, current : Passphrases, next : Passphrases,
           kinds : SUBSET Kinds, todo : Blobs, missed : SUBSET Ids]
Pages  == {"out", "boot", "setup", "unlock", "home"}

Empty      == [i \in Ids |-> Absent]
Present(f) == {i \in Ids : f[i] # Absent}

NewKey == Len(derived) + 1

\* The bound on derivations counts the forms about to derive.
KeyLeft == Len(derived) + Cardinality({c \in Clients : form[c].pc = "verify"}) < MaxKeys

Busy(c)      == form[c] # NoForm
Migrating(c) == form[c].pc \in {"list", "migrate", "cache"}
Sending(c)   == put[c] # NoPut

\* The history when i is written or removed: the changes that have listed its kind do
\* not see it.
Missed(i) ==
    [c \in Clients |-> IF Migrating(c) /\ KindOf(i) \notin form[c].kinds
                       THEN [form[c] EXCEPT !.missed = @ \cup {i}] ELSE form[c]]

Faulty(ok) == faults' = IF ok THEN faults ELSE faults + 1
MayFail(ok) == ok \/ faults < MaxFaults

-----------------------------------------------------------------------------
(* Routing: App.tsx on load and after sign-in, authRouting.ts. *)

Enter(c) ==
    /\ page[c] \in {"out", "boot"}
    /\ page' = [page EXCEPT ![c] = IF envelope = 0 THEN "setup"
                                   ELSE IF cached[c] # 0 THEN "home"
                                   ELSE "unlock"]
    /\ UNCHANGED <<envelope, store, derived, saves, cached, form, put, held, faults>>

\* The vault check fails: fall back to home, with or without a key.
EnterBlind(c) ==
    /\ faults < MaxFaults
    /\ page[c] \in {"out", "boot"}
    /\ page' = [page EXCEPT ![c] = "home"]
    /\ faults' = faults + 1
    /\ UNCHANGED <<envelope, store, derived, saves, cached, form, put, held>>

\* The user reloads: the scripts of the page stop, the persisted key stays.
Reload(c) ==
    /\ page[c] # "out"
    /\ Busy(c) => faults < MaxFaults
    /\ page' = [page EXCEPT ![c] = "boot"]
    /\ form' = [form EXCEPT ![c] = NoForm]
    /\ faults' = IF Busy(c) THEN faults + 1 ELSE faults
    /\ UNCHANGED <<envelope, store, derived, saves, cached, put, held>>

\* Idle auto-lock: the key leaves and the page is loaded anew, whatever runs.
IdleLock(c) ==
    /\ page[c] = "home"
    /\ Busy(c) => faults < MaxFaults
    /\ cached' = [cached EXCEPT ![c] = 0]
    /\ page' = [page EXCEPT ![c] = "boot"]
    /\ form' = [form EXCEPT ![c] = NoForm]
    /\ faults' = IF Busy(c) THEN faults + 1 ELSE faults
    /\ UNCHANGED <<envelope, store, derived, saves, put, held>>

\* Sign-out clears the key and navigates inside the page: a form goes on running,
\* a save the server has not processed is refused.  Whether the answer comes back
\* makes no difference.
ClearKey(c) == cached' = [cached EXCEPT ![c] = 0]

SignOut(c) ==
    /\ page[c] = "home"
    /\ ClearKey(c)
    /\ page' = [page EXCEPT ![c] = "out"]
    /\ put' = [put EXCEPT ![c] = NoPut]
    /\ UNCHANGED <<envelope, store, derived, saves, form, held, faults>>

\* The sign-out call is lost and the error swallowed: the page shows the landing
\* page, but the session lives on and the next load goes through routing.
SignOutLost(c) ==
    /\ faults < MaxFaults
    /\ page[c] = "home"
    /\ ClearKey(c)
    /\ page' = [page EXCEPT ![c] = "boot"]
    /\ faults' = faults + 1
    /\ UNCHANGED <<envelope, store, derived, saves, form, put, held>>

-----------------------------------------------------------------------------
(* First-time setup: PassphraseSetupPage, crypto setupVault, POST /api/vault. *)

\* The key is cached before the server is asked.
SetupDerive(c, p) ==
    /\ page[c] = "setup"
    /\ ~Busy(c)
    /\ KeyLeft
    /\ derived' = Append(derived, [pass |-> p, by |-> "setup"])
    /\ cached' = [cached EXCEPT ![c] = NewKey]
    /\ form' = [form EXCEPT ![c] = [pc |-> "create", old |-> 0, new |-> NewKey,
                                    current |-> p, next |-> p, kinds |-> {},
                                    todo |-> Empty, missed |-> {}]]
    /\ UNCHANGED <<envelope, store, saves, page, put, held, faults>>

\* INSERT on PRIMARY KEY user_id: 409 when a row exists.
Created_Upsert(k) == k
Created(k) == IF envelope = 0 THEN k ELSE envelope

SetupCreate(c, ok) ==
    /\ form[c].pc = "create"
    /\ MayFail(ok)
    /\ envelope' = Created(form[c].new)
    /\ held' = held \cup {envelope'}
    /\ page' = [page EXCEPT ![c] = IF ok /\ envelope = 0 THEN "home" ELSE @]
    /\ form' = [form EXCEPT ![c] = NoForm]
    /\ Faulty(ok)
    /\ UNCHANGED <<store, derived, saves, cached, put>>

-----------------------------------------------------------------------------
(* Unlock: PassphraseUnlockPage, GET /api/vault, crypto unlockVault. *)

UnlockRead(c, p) ==
    /\ page[c] = "unlock"
    /\ ~Busy(c)
    /\ envelope # 0
    /\ form' = [form EXCEPT ![c] = [pc |-> "unlock", old |-> envelope, new |-> 0,
                                    current |-> p, next |-> p, kinds |-> {},
                                    todo |-> Empty, missed |-> {}]]
    /\ UNCHANGED <<envelope, store, derived, saves, cached, page, put, held, faults>>

\* The derivation takes seconds; the envelope it opens is the one that was read.
UnlockOpen(c) ==
    /\ form[c].pc = "unlock"
    /\ IF derived[form[c].old].pass = form[c].current
       THEN /\ cached' = [cached EXCEPT ![c] = form[c].old]
            /\ page' = [page EXCEPT ![c] = "home"]
       ELSE UNCHANGED <<cached, page>>
    /\ form' = [form EXCEPT ![c] = NoForm]
    /\ UNCHANGED <<envelope, store, derived, saves, put, held, faults>>

-----------------------------------------------------------------------------
(* Passphrase change: api/passphrase.ts changePassphrase. *)

ChangeRead(c, p, q) ==
    /\ page[c] = "home"
    /\ ~Busy(c)
    /\ KeyLeft
    /\ envelope # 0
    /\ form' = [form EXCEPT ![c] = [pc |-> "verify", old |-> envelope, new |-> 0,
                                    current |-> p, next |-> q, kinds |-> {},
                                    todo |-> Empty, missed |-> {}]]
    /\ UNCHANGED <<envelope, store, derived, saves, cached, page, put, held, faults>>

\* unlockVault caches the old key, deriveReplacement makes the new one.
Proven_Skipped(f) == TRUE
Proven(f) == derived[f.old].pass = f.current

ChangeVerify(c) ==
    /\ form[c].pc = "verify"
    /\ Proven(form[c])
    /\ cached' = [cached EXCEPT ![c] = form[c].old]
    /\ derived' = Append(derived, [pass |-> form[c].next, by |-> "change"])
    /\ form' = [form EXCEPT ![c] = [@ EXCEPT !.pc = "list", !.new = NewKey, !.kinds = Kinds]]
    /\ UNCHANGED <<envelope, store, saves, page, put, held, faults>>

ChangeRefused(c) ==
    /\ form[c].pc = "verify"
    /\ ~Proven(form[c])
    /\ form' = [form EXCEPT ![c] = NoForm]
    /\ UNCHANGED <<envelope, store, derived, saves, cached, page, put, held, faults>>

\* After sign-out every call is answered 401.
Authed(c) == page[c] # "out"

\* One of the parallel lists of raw.listAll.
Listing(todo, k) == [i \in Ids |-> IF KindOf(i) = k THEN store[i] ELSE todo[i]]
Listed_OneKind(f, k) == [f EXCEPT !.kinds = {}, !.todo = Listing(@, k)]
Listed(f, k) == [f EXCEPT !.kinds = @ \ {k}, !.todo = Listing(@, k)]

ChangeList(c, k) ==
    /\ form[c].pc = "list"
    /\ Authed(c)
    /\ k \in form[c].kinds
    /\ form' = [form EXCEPT ![c] = Listed(@, k)]
    /\ UNCHANGED <<envelope, store, derived, saves, cached, page, put, held, faults>>

ChangeListed(c) ==
    /\ form[c].pc = "list"
    /\ form[c].kinds = {}
    /\ form' = [form EXCEPT ![c].pc = "migrate"]
    /\ UNCHANGED <<envelope, store, derived, saves, cached, page, put, held, faults>>

\* decryptEither, encrypt under the new key, PUT.
Opens(f, b) == b.key \in {f.old, f.new}
Migrated_Blank(c, b) == [key |-> form[c].new, val |-> 0]
Migrated(c, b) == [key |-> form[c].new, val |-> b.val]

ChangePut(c, i, ok) ==
    /\ form[c].pc = "migrate"
    /\ Authed(c)
    /\ i \in Present(form[c].todo)
    /\ Opens(form[c], form[c].todo[i])
    /\ MayFail(ok)
    /\ store' = [store EXCEPT ![i] = Migrated(c, form[c].todo[i])]
    /\ form' = [Missed(i) EXCEPT ![c] =
          IF ok THEN [form[c] EXCEPT !.todo[i] = Absent, !.missed = @ \ {i}] ELSE NoForm]
    /\ Faulty(ok)
    /\ UNCHANGED <<envelope, derived, saves, cached, page, put, held>>

\* Neither key opens the record: "stop and contact support".
ChangeStuck(c, i) ==
    /\ form[c].pc = "migrate"
    /\ i \in Present(form[c].todo)
    /\ ~Opens(form[c], form[c].todo[i])
    /\ form' = [form EXCEPT ![c] = NoForm]
    /\ UNCHANGED <<envelope, store, derived, saves, cached, page, put, held, faults>>

\* PUT /api/vault, last.
SwapReady_Early(f) == TRUE
SwapReady(f) == Present(f.todo) = {}

ChangeSwap(c, ok) ==
    /\ form[c].pc = "migrate"
    /\ Authed(c)
    /\ SwapReady(form[c])
    /\ MayFail(ok)
    /\ envelope' = form[c].new
    /\ held' = held \cup {form[c].new}
    /\ form' = [form EXCEPT ![c] = IF ok THEN [@ EXCEPT !.pc = "cache"] ELSE NoForm]
    /\ Faulty(ok)
    /\ UNCHANGED <<store, derived, saves, cached, page, put>>

ChangeCache(c) ==
    /\ form[c].pc = "cache"
    /\ cached' = [cached EXCEPT ![c] = form[c].new]
    /\ form' = [form EXCEPT ![c] = NoForm]
    /\ UNCHANGED <<envelope, store, derived, saves, page, put, held, faults>>

\* A call of the form is lost before the server acts on it: the form ends in an
\* error the user can retry from.  After sign-out the 401 does the same.
Abandon(c) ==
    /\ form[c].pc \in {"create", "list", "migrate"}
    /\ Authed(c) => faults < MaxFaults
    /\ form' = [form EXCEPT ![c] = NoForm]
    /\ faults' = IF Authed(c) THEN faults + 1 ELSE faults
    /\ UNCHANGED <<envelope, store, derived, saves, cached, page, put, held>>

-----------------------------------------------------------------------------
(* Records: api/records.ts putRecord and deleteRecord. *)

SaveBegin(c, i) ==
    /\ page[c] = "home"
    /\ cached[c] # 0
    /\ ~Sending(c)
    /\ saves < MaxSaves
    /\ saves' = saves + 1
    /\ put' = [put EXCEPT ![c] = [id |-> i, key |-> cached[c], val |-> saves + 1]]
    /\ UNCHANGED <<envelope, store, derived, cached, page, form, held, faults>>

SaveArrive(c) ==
    /\ Sending(c)
    /\ store' = [store EXCEPT ![put[c].id] = [key |-> put[c].key, val |-> put[c].val]]
    /\ form' = Missed(put[c].id)
    /\ put' = [put EXCEPT ![c] = NoPut]
    /\ UNCHANGED <<envelope, derived, saves, cached, page, held, faults>>

SaveLost(c) ==
    /\ faults < MaxFaults
    /\ Sending(c)
    /\ put' = [put EXCEPT ![c] = NoPut]
    /\ faults' = faults + 1
    /\ UNCHANGED <<envelope, store, derived, saves, cached, page, form, held>>

Remove(c, i) ==
    /\ page[c] = "home"
    /\ i \in Present(store)
    /\ store' = [store EXCEPT ![i] = Absent]
    /\ form' = Missed(i)
    /\ saves < MaxSaves /\ saves' = saves + 1
    /\ UNCHANGED <<envelope, derived, cached, page, put, held, faults>>

-----------------------------------------------------------------------------
\* A fresh account, or one in use, its records saved at some time (version 0).
Fresh == envelope = 0 /\ held = {} /\ derived = <<>> /\ store = Empty

InUse ==
    /\ envelope = 1 /\ held = {1}
    /\ \E p \in Passphrases : derived = <<[pass |-> p, by |-> "setup"]>>
    /\ \E there \in SUBSET Ids :
          store = [i \in Ids |-> IF i \in there THEN [key |-> 1, val |-> 0] ELSE Absent]

Init ==
    /\ Fresh \/ InUse
    /\ saves = 0
    /\ cached = [c \in Clients |-> 0]
    /\ page = [c \in Clients |-> "out"]
    /\ form = [c \in Clients |-> NoForm]
    /\ put = [c \in Clients |-> NoPut]
    /\ faults = 0
    /\ crossed = FALSE

\* A browser that holds the key, or is about to.
Engaged(c) == cached[c] # 0 \/ Busy(c) \/ Sending(c)

\* Two browsers are engaged at a time; a save is on its way, or the user signs out, while
\* a form of the same page goes on; a setup comes after another one.
Crossing ==
    \/ \E c, d \in Clients : c # d /\ Engaged(c) /\ Engaged(d)
    \/ \E c \in Clients : Busy(c) /\ (Sending(c) \/ page[c] = "out")
    \/ \E c \in Clients : form[c].pc = "create" /\ envelope # 0

Step(c) ==
    \/ Enter(c)
    \/ EnterBlind(c)
    \/ Reload(c)
    \/ IdleLock(c)
    \/ SignOut(c)
    \/ SignOutLost(c)
    \/ \E p \in Passphrases : SetupDerive(c, p)
    \/ \E ok \in BOOLEAN : SetupCreate(c, ok)
    \/ \E p \in Passphrases : UnlockRead(c, p)
    \/ UnlockOpen(c)
    \/ \E p, q \in Passphrases : ChangeRead(c, p, q)
    \/ ChangeVerify(c)
    \/ ChangeRefused(c)
    \/ \E k \in Kinds : ChangeList(c, k)
    \/ ChangeListed(c)
    \/ \E i \in Ids, ok \in BOOLEAN : ChangePut(c, i, ok)
    \/ \E i \in Ids : ChangeStuck(c, i)
    \/ \E ok \in BOOLEAN : ChangeSwap(c, ok)
    \/ ChangeCache(c)
    \/ Abandon(c)
    \/ \E i \in Ids : SaveBegin(c, i)
    \/ SaveArrive(c)
    \/ SaveLost(c)
    \/ \E i \in Ids : Remove(c, i)

Next ==
    /\ \E c \in Clients : Step(c)
    /\ crossed' = (crossed \/ Crossing')

Spec == Init /\ [][Next]_vars

-----------------------------------------------------------------------------
(* Properties. *)

Put == [id : Ids, key : Nat, val : Nat]

\* Envelope, cached keys and ciphertexts name derived keys only; forms and saves
\* in flight carry what their step needs.
TypeOK ==
    /\ envelope \in 0..Len(derived)
    /\ store \in Blobs
    /\ derived \in Seq([pass : Passphrases, by : {"setup", "change"}])
    /\ saves \in Nat
    /\ cached \in [Clients -> 0..Len(derived)]
    /\ page \in [Clients -> Pages]
    /\ form \in [Clients -> {NoForm} \cup Form]
    /\ put \in [Clients -> {NoPut} \cup Put]
    /\ held \subseteq 1..Len(derived)
    /\ faults \in Nat
    /\ crossed \in BOOLEAN

\* EX-PASS-2 "wrong current passphrase: refused, nothing modified": a form that
\* migrates records or swaps the envelope has opened an envelope the server
\* stored.  Until the swap its new key is in no cache, in no save on its way and in
\* no record it has still to do.
ChangeProven ==
    \A c \in Clients : Migrating(c) =>
        /\ form[c].old \in held
        /\ derived[form[c].old].pass = form[c].current
        /\ form[c].pc # "cache" =>
              /\ form[c].new \notin held
              /\ \A d \in Clients : cached[d] # form[c].new
              /\ \A d \in Clients : Sending(d) => put[d].key # form[c].new
              /\ \A i \in Present(form[c].todo) \cap Present(store) : store[i].key # form[c].new

\* store.go "one-setup invariant": once an envelope is stored only the swap at
\* the end of a passphrase change replaces it, however many browsers set up.
SetupOnce ==
    [][envelope # 0 /\ envelope' # envelope =>
          \E c \in Clients : form[c].pc = "migrate" /\ envelope' = form[c].new]_vars

\* BR-PASS-2 "re-encrypts every record ... overwrites the envelope last": a change
\* that has listed everything has left under another key only records it still has
\* to do, and records that were written after it had listed their kind: by another
\* browser, or by a save of its own page that was on its way or begun since.
MigrationComplete ==
    \A c \in Clients : form[c].pc \in {"migrate", "cache"} =>
        \A i \in Present(store) \ (Present(form[c].todo) \cup form[c].missed) :
            store[i].key = form[c].new

\* The swap leaves behind under an older key only what was written after the change
\* had listed it, whatever failed before and whoever else is at work.
SwapCoversStore ==
    [][envelope # 0 /\ envelope' # envelope =>
          \E c \in Clients :
              /\ form[c].pc = "migrate" /\ envelope' = form[c].new
              /\ \A i \in Present(store) \ form[c].missed : store[i].key = envelope']_vars

\* A change only re-encrypts: the put of a change alters, drops or brings back no record
\* but one that was saved or removed after the change had listed it (that one it
\* overwrites with what it was).
ContentKept ==
    [][\A c \in Clients : (\E i \in Ids, ok \in BOOLEAN : ChangePut(c, i, ok)) =>
          \A j \in Ids \ form[c].missed :
              /\ store'[j] # Absent <=> store[j] # Absent
              /\ store[j] # Absent => store'[j].val = store[j].val]_vars

Quiet == \A c \in Clients : ~Busy(c) /\ ~Sending(c)

Readable == \A i \in Present(store) : store[i].key = envelope

\* EX-PASS-1 as far as the code goes: with any number of devices, one at a time, every
\* record is readable under the passphrase of the moment until a call fails or one of the
\* things named by Crossing happens.
ReadableUncrossed == Quiet /\ faults = 0 /\ ~crossed => Readable

\* EX-PASS-1 "every record stays readable under the new passphrase on every device":
\* when nothing is in flight, nothing failed and every change went through to its swap,
\* every record opens under the key of the envelope.
AllReadable == Quiet /\ faults = 0 /\ held = 1..Len(derived) => Readable

\* changePassphrase "safe to retry as long as the user stays on the page": no
\* change is stopped by a record that an earlier attempt has re-encrypted.
RetrySafe ==
    [][\A c \in Clients, i \in Ids :
          ChangeStuck(c, i) => derived[form[c].todo[i].key].by = "setup"]_vars
=============================================================================
