---------------------------- MODULE RecordStore ----------------------------
(***************************************************************************)
(* The encrypted-record API (backend/internal/records): one SQLite table   *)
(* for all users, keyed by the record id alone, and handlers that first    *)
(* look the session up (auth.CurrentUserID) and later run one statement.   *)
(* The connection is shared (SetMaxOpenConns(1)), so a statement is        *)
(* atomic, but other handlers run between the two, a sign-out among them.  *)
(***************************************************************************)
EXTENDS Integers, FiniteSets

CONSTANTS
    Users,
    Sessions,      \* session tokens that can be issued
    UserOf(_),     \* the user a session is issued to
    Ids,
    Kinds,
    Values,        \* ciphertexts
    Calls,         \* requests the server handles at a time
    MayUse(_, _)   \* the ids a user's browsers save under

ASSUME RecordAssumption == \A s \in Sessions : UserOf(s) \in Users

VARIABLES
    rows,   \* the records table: id -> row
    alive,  \* session rows
    ended,  \* sessions signed out or expired
    call,   \* per call: the request, how far it got and its answer
    sent    \* history: <<user, id, ciphertext>> of every put asked for

vars == <<rows, alive, ended, call, sent>>

Row    == [owner : Users, kind : Kinds, val : Values]
Absent == [gone |-> TRUE]
NoCall == [state |-> "none"]
Call   == [state : {"asked", "authed", "ok", "refused", "error"}, session : Sessions,
           op : {"list", "put", "delete"}, id : Ids, kind : Kinds, val : Values,
           got : SUBSET (Ids \X Values)]

Owner(c) == UserOf(call[c].session)

-----------------------------------------------------------------------------
(* Sessions: auth verify-code and sign-out; expiry looks the same here. *)

SignIn(s) ==
    /\ s \notin alive \cup ended
    /\ alive' = alive \cup {s}
    /\ UNCHANGED <<rows, ended, call, sent>>

SignOut(s) ==
    /\ s \in alive
    /\ alive' = alive \ {s}
    /\ ended' = ended \cup {s}
    /\ UNCHANGED <<rows, call, sent>>

-----------------------------------------------------------------------------
(* Requests. *)

Request(s, op, i, k, v) ==
    [state |-> "asked", session |-> s, op |-> op, id |-> i, kind |-> k, val |-> v, got |-> {}]

\* The fields an operation does not look at are left at some value.
Any(S) == CHOOSE x \in S : TRUE
Sensible(u, op, i, k, v) ==
    /\ op = "list" => i = Any(Ids)
    /\ op # "list" => MayUse(u, i)
    /\ op = "delete" => k = Any(Kinds)
    /\ op # "put" => v = Any(Values)

\* A browser sends its cookie along, valid or not.
Ask(c, s, op, i, k, v) ==
    /\ call[c] = NoCall
    /\ s \in alive \cup ended
    /\ Sensible(UserOf(s), op, i, k, v)
    /\ call' = [call EXCEPT ![c] = Request(s, op, i, k, v)]
    /\ sent' = IF op = "put" THEN sent \cup {<<UserOf(s), i, v>>} ELSE sent
    /\ UNCHANGED <<rows, alive, ended>>

\* auth.CurrentUserID: 401 unless the session row is there.
Authenticate(c) ==
    /\ call[c].state = "asked"
    /\ call' = [call EXCEPT ![c].state = IF call[c].session \in alive THEN "authed" ELSE "refused"]
    /\ UNCHANGED <<rows, alive, ended, sent>>

\* A malformed or oversized body, an unknown kind, a failing statement.
Reject(c) ==
    /\ call[c].state = "authed"
    /\ call' = [call EXCEPT ![c].state = "error"]
    /\ UNCHANGED <<rows, alive, ended, sent>>

\* The handler answers; for a list the answer has the ids and ciphertexts.
Answered(c, got) == call' = [call EXCEPT ![c] = [@ EXCEPT !.state = "ok", !.got = got]]

\* SELECT ... WHERE user_id = ? AND kind = ?
Listed_Everyone(u, k) == {i \in Ids : rows[i] # Absent /\ rows[i].kind = k}
Listed(u, k) == {i \in Ids : rows[i] # Absent /\ rows[i].owner = u /\ rows[i].kind = k}

List(c) ==
    /\ call[c].state = "authed"
    /\ call[c].op = "list"
    /\ Answered(c, {<<i, rows[i].val>> : i \in Listed(Owner(c), call[c].kind)})
    /\ UNCHANGED <<rows, alive, ended, sent>>

\* INSERT ... ON CONFLICT(id) DO UPDATE SET kind, ciphertext WHERE records.user_id = ?:
\* the row keeps its owner; on another user's row the statement changes nothing.
Upserted_Anyone(row, u, k, v) ==
    [owner |-> IF row = Absent THEN u ELSE row.owner, kind |-> k, val |-> v]
Upserted_KeepsKind(row, u, k, v) ==
    IF row = Absent THEN [owner |-> u, kind |-> k, val |-> v]
    ELSE IF row.owner = u THEN [row EXCEPT !.val = v] ELSE row
Upserted(row, u, k, v) ==
    IF row = Absent \/ row.owner = u THEN [owner |-> u, kind |-> k, val |-> v] ELSE row

Put(c) ==
    /\ call[c].state = "authed"
    /\ call[c].op = "put"
    /\ rows' = [rows EXCEPT ![call[c].id] = Upserted(@, Owner(c), call[c].kind, call[c].val)]
    /\ Answered(c, {})
    /\ UNCHANGED <<alive, ended, sent>>

\* DELETE ... WHERE id = ? AND user_id = ?
Removed_Anyone(row, u) == Absent
Removed(row, u) == IF row # Absent /\ row.owner = u THEN Absent ELSE row

Delete(c) ==
    /\ call[c].state = "authed"
    /\ call[c].op = "delete"
    /\ rows' = [rows EXCEPT ![call[c].id] = Removed(@, Owner(c))]
    /\ Answered(c, {})
    /\ UNCHANGED <<alive, ended, sent>>

Return(c) ==
    /\ call[c].state \in {"ok", "refused", "error"}
    /\ call' = [call EXCEPT ![c] = NoCall]
    /\ UNCHANGED <<rows, alive, ended, sent>>

-----------------------------------------------------------------------------
Init ==
    /\ rows = [i \in Ids |-> Absent]
    /\ alive = {}
    /\ ended = {}
    /\ call = [c \in Calls |-> NoCall]
    /\ sent = {}

Next ==
    \/ \E s \in Sessions : SignIn(s) \/ SignOut(s)
    \/ \E c \in Calls :
          \/ \E s \in Sessions, op \in {"list", "put", "delete"}, i \in Ids,
                k \in Kinds, v \in Values : Ask(c, s, op, i, k, v)
          \/ Authenticate(c)
          \/ Reject(c)
          \/ List(c)
          \/ Put(c)
          \/ Delete(c)
          \/ Return(c)

Spec == Init /\ [][Next]_vars

-----------------------------------------------------------------------------
(* Properties. *)

\* Rows, sessions and calls are what the schema and the handlers make of them.
TypeOK ==
    /\ rows \in [Ids -> Row \cup {Absent}]
    /\ alive \subseteq Sessions
    /\ ended \subseteq Sessions
    /\ alive \cap ended = {}
    /\ call \in [Calls -> Call \cup {NoCall}]
    /\ sent \subseteq Users \X Ids \X Values

\* BR-CONF-1 isolation: whatever ids two users save under, a list answers with
\* ciphertexts that the user itself sent for these ids.
ReadsOwn ==
    \A c \in Calls : call[c] # NoCall =>
        \A r \in call[c].got : <<Owner(c), r[1], r[2]>> \in sent

\* BR-CONF-1 isolation: a row changes hands never, and only a call of its owner,
\* let in while its session was there, changes or removes it.
OnlyOwnerWrites ==
    [][\A i \in Ids : rows'[i] # rows[i] =>
          \E c \in Calls :
             /\ call[c].state = "authed"
             /\ call[c].id = i
             /\ rows[i] # Absent => rows[i].owner = Owner(c)
             /\ rows'[i] # Absent => rows'[i].owner = Owner(c)]_vars

\* To its user the table is a store of its own: each call answered "ok" took effect
\* at one moment, on that user's records and nobody else's, except that a put may
\* be lost under an id that another user saves under too.
ViewOf(u) == [i \in Ids |->
    IF rows[i] # Absent /\ rows[i].owner = u THEN [kind |-> rows[i].kind, val |-> rows[i].val]
    ELSE Absent]
TaskOf(c) ==
    IF call[c] = NoCall THEN NoCall
    ELSE [state |-> IF call[c].state \in {"asked", "authed"} THEN "pending" ELSE call[c].state,
          user |-> Owner(c), op |-> call[c].op, id |-> call[c].id, kind |-> call[c].kind,
          val |-> call[c].val, got |-> call[c].got]

\* The ids that more than one user saves under.
Common == {i \in Ids : \E u, v \in Users : u # v /\ MayUse(u, i) /\ MayUse(v, i)}

U == INSTANCE UserStore WITH view <- [u \in Users |-> ViewOf(u)],
                             task <- [c \in Calls |-> TaskOf(c)],
                             Shared <- Common

OwnStore == U!Spec

\* A put that is answered "ok" leaves the ciphertext in its user's store.
PutsKept ==
    [][\A c \in Calls :
          call[c].state = "authed" /\ call'[c].state = "ok" /\ call[c].op = "put" =>
              ViewOf(Owner(c))'[call[c].id] = [kind |-> call[c].kind, val |-> call[c].val]]_vars
=============================================================================
