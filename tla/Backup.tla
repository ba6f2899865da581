-------------------------------- MODULE Backup --------------------------------
(***************************************************************************)
(* Backup and restore over VaultKeys: a browser downloads the envelope and   *)
(* all ciphertexts as one file (BackupCard.tsx), and a file is restored       *)
(* record by record (ImportCard.tsx, api/backup.ts), into the workspace it    *)
(* was made from or, with its envelope, into a fresh account.  Both go on     *)
(* while the same page changes the passphrase, saves, or is left.             *)
(***************************************************************************)
EXTENDS VaultKeys

CONSTANTS
    Portable     \* KINDS of domain/backup.ts: the kinds a file may contain

ASSUME BackupAssumption == Portable \subseteq Kinds /\ "vault" \notin Kinds

VARIABLES
    export,      \* per client: the download under way
    file,        \* the last file downloaded
    restore,     \* per client: the restore under way
    moved        \* the server was replaced by a fresh one

backup  == <<export, file, restore, moved>>
allVars == <<vars, backup>>

NoExport  == [unread |-> {}]
NoFile    == [env |-> 0]
NoRestore == [pc |-> "idle"]

\* "vault" stands for GET /api/vault among the calls of an export.  History: odd, the
\* records the account's envelope did not open when they were read, and all of them once
\* the envelope is replaced meanwhile; written, restored and then written by others;
\* overtaken, the file's envelope is not the account's: the browser had a key that was not
\* current when it checked the file, or the envelope was replaced since.
Export  == [unread : SUBSET (Kinds \cup {"vault"}), env : Nat, records : Blobs, odd : SUBSET Ids]
File    == [env : Nat \ {0}, records : Blobs, odd : SUBSET Ids]
Restore == [pc : {"envelope", "records"}, env : Nat, records : Blobs, todo : SUBSET Ids,
            written : SUBSET Ids, overtaken : BOOLEAN]

Exporting(c) == export[c] # NoExport
Restoring(c) == restore[c] # NoRestore

-----------------------------------------------------------------------------
(* Download: getEnvelopeJson and raw.listAll in parallel, then the file.      *)

ExportBegin(c) ==
    /\ page[c] = "home" /\ ~Exporting(c) /\ ~Restoring(c)
    /\ export' = [export EXCEPT ![c] =
          [unread |-> Kinds \cup {"vault"}, env |-> 0, records |-> Empty, odd |-> {}]]
    /\ UNCHANGED <<vars, file, restore, moved>>

\* "no passphrase set" ends the download.
Fetched_Waits(e) == IF envelope = 0 THEN e ELSE [e EXCEPT !.unread = @ \ {"vault"}, !.env = envelope]
Fetched(e) == IF envelope = 0 THEN NoExport
              ELSE [e EXCEPT !.unread = @ \ {"vault"}, !.env = envelope]

ExportEnvelope(c) ==
    /\ Exporting(c) /\ "vault" \in export[c].unread
    /\ export' = [export EXCEPT ![c] = Fetched(@)]
    /\ UNCHANGED <<vars, file, restore, moved>>

\* The records of a kind that the account's envelope does not open.
Odd(k) == {i \in Present(store) : KindOf(i) = k /\ (envelope = 0 \/ store[i].key # envelope)}

ExportList(c, k) ==
    /\ Exporting(c) /\ k \in export[c].unread
    /\ export' = [export EXCEPT ![c].unread = @ \ {k}, ![c].records = Listing(@, k),
                               ![c].odd = @ \cup Odd(k)]
    /\ UNCHANGED <<vars, file, restore, moved>>

Gathered_ListsOnly(c) == export[c].unread \cap Kinds = {}
Gathered(c) == export[c].unread = {}

ExportDone(c) ==
    /\ Exporting(c) /\ Gathered(c)
    /\ file' = [env |-> export[c].env, records |-> export[c].records, odd |-> export[c].odd]
    /\ export' = [export EXCEPT ![c] = NoExport]
    /\ UNCHANGED <<vars, restore, moved>>

ExportLost(c) ==
    /\ Exporting(c)
    /\ faults < MaxFaults /\ faults' = faults + 1
    /\ export' = [export EXCEPT ![c] = NoExport]
    /\ UNCHANGED <<envelope, store, derived, saves, cached, page, form, put, held, crossed,
                   file, restore, moved>>

-----------------------------------------------------------------------------
(* Restore: parseBundle, then restoreBundle in one of its two modes.          *)

\* parseBundle refuses the whole file for one record of another kind.
Parsed(f) == f # NoFile /\ \A i \in Present(f.records) : KindOf(i) \in Portable

\* bundleMatchesKey: the verifier of the file opens under the cached key.
MatchesKey_Unchecked(c, f) == TRUE
MatchesKey(c, f) == cached[c] = f.env

Restores(c, pc) ==
    /\ ~Restoring(c) /\ ~Exporting(c)
    /\ restore' = [restore EXCEPT ![c] =
          [pc |-> pc, env |-> file.env, records |-> file.records,
           todo |-> Present(file.records), written |-> {},
           overtaken |-> pc = "records" /\ cached[c] # envelope]]
    /\ UNCHANGED <<vars, export, file, moved>>

\* Help mode: into the workspace at hand.
RestoreHelp(c) ==
    /\ page[c] = "home"
    /\ Parsed(file) /\ MatchesKey(c, file)
    /\ Restores(c, "records")

\* Setup mode: instead of choosing a passphrase.
RestoreSetup(c) ==
    /\ page[c] = "setup"
    /\ Parsed(file)
    /\ Restores(c, "envelope")

\* restoreEnvelope: POST /api/vault, 409 when there is one.
RestoreEnvelope(c, ok) ==
    /\ restore[c].pc = "envelope"
    /\ MayFail(ok)
    /\ envelope' = Created(restore[c].env)
    /\ held' = held \cup {envelope'}
    /\ restore' = [restore EXCEPT ![c] =
          IF ok /\ envelope = 0 THEN [@ EXCEPT !.pc = "records"] ELSE NoRestore]
    /\ Faulty(ok)
    /\ UNCHANGED <<store, derived, saves, cached, page, form, put, crossed,
                   export, file, moved>>

\* The history: records a restore has put and somebody else writes now, an envelope
\* that is replaced.
Noted(c, changed) == [restore[c] EXCEPT
    !.written = @ \cup (changed \cap (Present(restore[c].records) \ restore[c].todo)),
    !.overtaken = @ \/ envelope' # envelope]

\* raw.put, one record after the other; the first failure ends the restore.
RestorePut(c, i, ok) ==
    /\ restore[c].pc = "records"
    /\ i \in restore[c].todo
    /\ MayFail(ok)
    /\ store' = [store EXCEPT ![i] = restore[c].records[i]]
    /\ form' = Missed(i)
    /\ restore' = [d \in Clients |->
          IF d # c THEN IF Restoring(d) THEN Noted(d, {i}) ELSE NoRestore
          ELSE IF ok THEN [restore[c] EXCEPT !.todo = @ \ {i}] ELSE NoRestore]
    /\ Faulty(ok)
    /\ UNCHANGED <<envelope, derived, saves, cached, page, put, held, crossed,
                   export, file, moved>>

Finished_Early(c) == TRUE
Finished(c) == restore[c].todo = {}

\* onRestored: setup mode goes to unlock, help mode reloads the registers.
RestoreDone(c) ==
    /\ restore[c].pc = "records" /\ Finished(c)
    /\ page' = [page EXCEPT ![c] = IF @ = "setup" THEN "unlock" ELSE @]
    /\ restore' = [restore EXCEPT ![c] = NoRestore]
    /\ UNCHANGED <<envelope, store, derived, saves, cached, form, put, held, faults, crossed,
                   export, file, moved>>

RestoreLost(c) ==
    /\ Restoring(c)
    /\ faults < MaxFaults /\ faults' = faults + 1
    /\ restore' = [restore EXCEPT ![c] = NoRestore]
    /\ UNCHANGED <<envelope, store, derived, saves, cached, page, form, put, held, crossed,
                   export, file, moved>>

-----------------------------------------------------------------------------
(* Everything else the browsers do goes on; a page that is loaded anew or     *)
(* left drops what it was exporting or restoring.                             *)

Changed == {i \in Ids : store'[i] # store[i]}

VaultStep ==
    /\ Next
    /\ export' = [c \in Clients |->
          IF page'[c] \in {"boot", "out"} \/ ~Exporting(c) THEN NoExport
          ELSE IF envelope' = envelope THEN export[c]
          ELSE [export[c] EXCEPT !.odd = Ids]]
    /\ restore' = [c \in Clients |->
          IF page'[c] \in {"boot", "out"} \/ ~Restoring(c) THEN NoRestore
          ELSE Noted(c, Changed)]
    /\ UNCHANGED <<file, moved>>

\* The user starts over on a server that has nothing of him, the file in hand.
NewServer ==
    /\ ~moved /\ file # NoFile /\ Quiet
    /\ moved' = TRUE
    /\ envelope' = 0 /\ store' = Empty /\ held' = {}
    /\ cached' = [c \in Clients |-> 0]
    /\ page' = [c \in Clients |-> "out"]
    /\ export' = [c \in Clients |-> NoExport]
    /\ restore' = [c \in Clients |-> NoRestore]
    /\ UNCHANGED <<derived, saves, form, put, faults, crossed, file>>

\* An account in use, its records saved at some time (version 0), its browsers signed out.
BackupInit ==
    /\ Init /\ InUse
    /\ export = [c \in Clients |-> NoExport]
    /\ file = NoFile
    /\ restore = [c \in Clients |-> NoRestore]
    /\ moved = FALSE

ExportSteps(c) ==
    \/ ExportEnvelope(c) \/ (\E k \in Kinds : ExportList(c, k))
    \/ ExportDone(c) \/ ExportLost(c)

RestoreSteps(c) ==
    \/ \E ok \in BOOLEAN : RestoreEnvelope(c, ok) \/ \E i \in Ids : RestorePut(c, i, ok)
    \/ RestoreDone(c) \/ RestoreLost(c)

BackupNext ==
    \/ VaultStep \/ NewServer
    \/ \E c \in Clients :
          ExportBegin(c) \/ ExportSteps(c) \/ RestoreHelp(c) \/ RestoreSetup(c) \/ RestoreSteps(c)

\* The calls of an export and a restore are answered or fail.
BackupFairness == \A c \in Clients : WF_allVars(ExportSteps(c)) /\ WF_allVars(RestoreSteps(c))

BackupSpec == BackupInit /\ [][BackupNext]_allVars /\ BackupFairness

-----------------------------------------------------------------------------
(* Properties.                                                             *)

BackupTypeOK ==
    /\ TypeOK
    /\ export \in [Clients -> {NoExport} \cup Export]
    /\ file \in {NoFile} \cup File
    /\ restore \in [Clients -> {NoRestore} \cup Restore]
    /\ moved \in BOOLEAN

\* BR-EXP-1: all ciphertexts of a file open under the key of the envelope in it, but for
\* records that the account's own envelope did not open when they were read (left by a
\* change that is under way or was broken off, or put late under an older key), and unless
\* the envelope was replaced while the download ran: then nothing in the code keeps the
\* envelope and the records of the file together.
FileOpens ==
    file # NoFile =>
        \A i \in Present(file.records) \ file.odd : file.records[i].key = file.env

\* BR-IMP-2/3: whether a restore finishes or breaks off, into the old workspace or a new
\* account, each record it puts opens under the account's envelope, if it did under the
\* file's; and each later change of passphrase takes all of them along.  Not so a restore
\* checked against a key that was no longer the account's (bundleMatchesKey asks the cache
\* only) or overtaken by the swap of a change; and a change beside which a record is put
\* (missed) leaves that record under the old key.
RestoredReadable ==
    [][/\ \A c \in Clients, i \in Ids, ok \in BOOLEAN :
             /\ RestorePut(c, i, ok) /\ ~restore[c].overtaken
             /\ restore[c].records[i].key = restore[c].env
             => store'[i].key = envelope
       /\ \A c \in Clients, ok \in BOOLEAN : ChangeSwap(c, ok) =>
             \A i \in Present(store) \ form[c].missed : store[i].key = envelope']_allVars

\* "Backup restored." is said when every record of the file is there, but for those that
\* were saved or removed while it ran (BR-IMP-4: collisions take the file's).
RestoresAll ==
    [][\A c \in Clients : RestoreDone(c) =>
          \A i \in Present(restore[c].records) \ restore[c].written :
              store[i] = restore[c].records[i]]_allVars

\* A restore never replaces an envelope: only a change of passphrase does.
EnvelopeStays ==
    [][envelope # 0 /\ envelope' \notin {0, envelope} =>
          \E c \in Clients : form[c].pc = "migrate" /\ envelope' = form[c].new]_allVars

\* The spinner of the download and of the restore ends.
BackupSettles ==
    \A c \in Clients : (Exporting(c) ~> ~Exporting(c)) /\ (Restoring(c) ~> ~Restoring(c))

\* BackupCard.tsx "restores via 'Upload a backup' below": every file downloaded is one the
\* upload takes.
FileRestores == file # NoFile => Parsed(file)
=============================================================================
