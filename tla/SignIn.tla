------------------------------- MODULE SignIn -------------------------------
(***************************************************************************)
(* Passwordless sign-in: backend/internal/auth.  The HTTP handlers         *)
(* requestCode and verifyCode run concurrently over one SQLite connection  *)
(* and use no transaction, so a statement is atomic and a handler is not:  *)
(* every statement that reads or writes otp_codes or sessions is a step of *)
(* its own.  A crash keeps both tables and drops the handlers in flight.   *)
(*                                                                         *)
(* Abstractions.  The users row (email UNIQUE, never deleted) is the user  *)
(* itself.  A code is a value, not six digits; its bcrypt hash matches     *)
(* exactly that value.  The rate limiter in front of requestCode can only  *)
(* keep a request from starting; RateLimiter models it.  The e-mail sent   *)
(* after the insert changes nothing on the server.                         *)
(***************************************************************************)
EXTENDS Integers, Sequences, FiniteSets

CONSTANTS
    Users,        \* e-mail addresses, each with its users row
    Codes,        \* values generateCode can draw and a client can submit
    Handlers,     \* request goroutines that can be in flight together
    MaxAttempts,  \* code.go maxAttempts
    CodeLife,     \* code.go codeExpiry, in clock ticks
    SessionLife,  \* session.go sessionLifetime, in clock ticks
    MaxCodes,     \* bound: codes ever issued
    MaxTime,      \* bound: clock ticks
    MaxFaults     \* bound: failed statements and crashes

ASSUME SignInAssumption ==
    /\ IsFiniteSet(Handlers)
    /\ MaxAttempts \in Nat \ {0}
    /\ CodeLife \in Nat
    /\ SessionLife \in Nat
    /\ MaxCodes \in Nat
    /\ MaxTime \in Nat
    /\ MaxFaults \in Nat

VARIABLES
    otp,        \* table otp_codes: the row with id i is otp[i]
    sessions,   \* table sessions: token -> row
    earned,     \* history: earned[t] is the code row that token t was minted for
    handler,    \* what each request goroutine is doing
    now,        \* the server's clock
    faults,     \* statements failed and crashes so far
    overlapped  \* history: users of whom two requests were in flight together

vars == <<otp, sessions, earned, handler, now, faults, overlapped>>

Idle == [pc |-> "idle"]

IssueSteps  == {"invalidate", "insert"}
VerifySteps == {"select", "count", "consume", "mint"}
Chosen      == {"count", "consume", "mint"}  \* a verify that holds a row id

Row     == [user : Users, code : Codes, created : Nat, expires : Nat,
            attempts : Nat, consumed : BOOLEAN]
Session == [user : Users, expires : Nat]
Busy    == [pc : IssueSteps \cup VerifySteps, user : Users, code : Codes, row : Nat]

RowIds == 1..Len(otp)
Tokens == 1..Len(earned)

-----------------------------------------------------------------------------
(* otp_codes as the statements of code.go see it.  A name with an underscore *)
(* (NewRow_SignSlip) is a faulty variant of the definition that follows it:  *)
(* substituting it must break a property.                                    *)

Active(u) == {i \in RowIds : otp[i].user = u /\ ~otp[i].consumed}

\* ORDER BY created_at DESC LIMIT 1: CURRENT_TIMESTAMP counts seconds, so rows
\* of the same tick tie and SQLite may return any of them.
Latest(S) == {i \in S : \A j \in S : otp[j].created <= otp[i].created}

NewRow(u, c) == [user |-> u, code |-> c, created |-> now, expires |-> now + CodeLife,
                 attempts |-> 0, consumed |-> FALSE]

Capped_OffByOne(r) == r.attempts > MaxAttempts
Capped(r)  == r.attempts >= MaxAttempts
Expired(r) == now > r.expires

Counted(r) == [r EXCEPT !.attempts = @ + 1]

Spent_Forgets(r) == r
Spent(r) == [r EXCEPT !.consumed = TRUE]

Superseded_All(u)  == [i \in RowIds |-> Spent(otp[i])]
Superseded_None(u) == otp
Superseded(u) == [i \in RowIds |-> IF i \in Active(u) THEN Spent(otp[i]) ELSE otp[i]]

Overlapped(u) ==
    IF \E h \in Handlers : handler[h] # Idle /\ handler[h].user = u
    THEN overlapped \cup {u} ELSE overlapped

-----------------------------------------------------------------------------
(* POST /api/auth/request-code, from a request the limiter let through. *)

\* The code is drawn and hashed before the first statement of IssueCode.
BeginRequest(h, u, c) ==
    /\ handler[h] = Idle
    /\ Len(otp) + Cardinality({g \in Handlers : handler[g].pc \in IssueSteps}) < MaxCodes
    /\ handler' = [handler EXCEPT ![h] =
                      [pc |-> "invalidate", user |-> u, code |-> c, row |-> 0]]
    /\ overlapped' = Overlapped(u)
    /\ UNCHANGED <<otp, sessions, earned, now, faults>>

Invalidate(h) ==
    /\ handler[h].pc = "invalidate"
    /\ otp' = Superseded(handler[h].user)
    /\ handler' = [handler EXCEPT ![h].pc = "insert"]
    /\ UNCHANGED <<sessions, earned, now, faults, overlapped>>

\* The insert, then the mail and the answer: neither changes the server.
Insert(h) ==
    /\ handler[h].pc = "insert"
    /\ otp' = Append(otp, NewRow(handler[h].user, handler[h].code))
    /\ handler' = [handler EXCEPT ![h] = Idle]
    /\ UNCHANGED <<sessions, earned, now, faults, overlapped>>

-----------------------------------------------------------------------------
(* POST /api/auth/verify-code. *)

BeginVerify(h, u, c) ==
    /\ handler[h] = Idle
    /\ handler' = [handler EXCEPT ![h] =
                      [pc |-> "select", user |-> u, code |-> c, row |-> 0]]
    /\ overlapped' = Overlapped(u)
    /\ UNCHANGED <<otp, sessions, earned, now, faults>>

\* VerifyNotFound: the answer is 401 and nothing changes.
SelectNothing(h) ==
    /\ handler[h].pc = "select"
    /\ Active(handler[h].user) = {}
    /\ handler' = [handler EXCEPT ![h] = Idle]
    /\ UNCHANGED <<otp, sessions, earned, now, faults, overlapped>>

\* The cap and the expiry are judged on the row as it was read.
SelectRow(h) ==
    /\ handler[h].pc = "select"
    /\ \E i \in Latest(Active(handler[h].user)) :
          handler' = [handler EXCEPT ![h] =
                         IF Capped(otp[i]) \/ Expired(otp[i])
                         THEN Idle
                         ELSE [@ EXCEPT !.pc = "count", !.row = i]]
    /\ UNCHANGED <<otp, sessions, earned, now, faults, overlapped>>

\* attempts + 1 in the table, then the comparison with the hash read before.
CountAttempt(h) ==
    /\ handler[h].pc = "count"
    /\ LET i == handler[h].row IN
          /\ otp' = [otp EXCEPT ![i] = Counted(@)]
          /\ handler' = [handler EXCEPT ![h] =
                            IF otp[i].code = @.code THEN [@ EXCEPT !.pc = "consume"]
                                                    ELSE Idle]
    /\ UNCHANGED <<sessions, earned, now, faults, overlapped>>

Consume(h) ==
    /\ handler[h].pc = "consume"
    /\ otp' = [otp EXCEPT ![handler[h].row] = Spent(@)]
    /\ handler' = [handler EXCEPT ![h].pc = "mint"]
    /\ UNCHANGED <<sessions, earned, now, faults, overlapped>>

\* newToken: 32 random bytes, taken to be new.
NewToken == Len(earned) + 1

SessionFor(h) == [user |-> handler[h].user, expires |-> now + SessionLife]

\* CreateSession and the cookie.
Mint(h) ==
    /\ handler[h].pc = "mint"
    /\ sessions' = [t \in DOMAIN sessions \cup {NewToken} |->
                       IF t = NewToken THEN SessionFor(h) ELSE sessions[t]]
    /\ earned' = Append(earned, handler[h].row)
    /\ handler' = [handler EXCEPT ![h] = Idle]
    /\ UNCHANGED <<otp, now, faults, overlapped>>

-----------------------------------------------------------------------------
(* Sessions, the clock and failures. *)

\* ValidateSession: the row exists and has not expired.
Validates(t) == t \in DOMAIN sessions /\ now <= sessions[t].expires

\* DELETE FROM sessions, whatever the state of the session.
SignOut(t) ==
    /\ sessions' = [s \in DOMAIN sessions \ {t} |-> sessions[s]]
    /\ UNCHANGED <<otp, earned, handler, now, faults, overlapped>>

Tick ==
    /\ now < MaxTime
    /\ now' = now + 1
    /\ UNCHANGED <<otp, sessions, earned, handler, faults, overlapped>>

\* The next statement returns an error: 500, and the handler gives up there.
Fail(h) ==
    /\ faults < MaxFaults
    /\ handler[h] # Idle
    /\ handler' = [handler EXCEPT ![h] = Idle]
    /\ faults' = faults + 1
    /\ UNCHANGED <<otp, sessions, earned, now, overlapped>>

\* The process dies and starts again on the same database file.
Crash ==
    /\ faults < MaxFaults
    /\ handler' = [h \in Handlers |-> Idle]
    /\ faults' = faults + 1
    /\ UNCHANGED <<otp, sessions, earned, now, overlapped>>

-----------------------------------------------------------------------------
Init ==
    /\ otp = <<>>
    /\ sessions = [t \in {} |-> 0]
    /\ earned = <<>>
    /\ handler = [h \in Handlers |-> Idle]
    /\ now = 0
    /\ faults = 0
    /\ overlapped = {}

Step(h) ==
    \/ Invalidate(h)
    \/ Insert(h)
    \/ SelectNothing(h)
    \/ SelectRow(h)
    \/ CountAttempt(h)
    \/ Consume(h)
    \/ Mint(h)

Next ==
    \/ \E h \in Handlers, u \in Users, c \in Codes : BeginRequest(h, u, c)
    \/ \E h \in Handlers, u \in Users, c \in Codes : BeginVerify(h, u, c)
    \/ \E h \in Handlers : Step(h)
    \/ \E h \in Handlers : Fail(h)
    \/ \E t \in DOMAIN sessions : SignOut(t)
    \/ Tick
    \/ Crash

Spec == Init /\ [][Next]_vars

-----------------------------------------------------------------------------
(* Properties. *)

\* Every variable keeps its type: rows and sessions belong to users, a handler
\* is idle or in a step of one of the two requests.
TypeOK ==
    /\ otp \in Seq(Row)
    /\ earned \in Seq(Nat)
    /\ DOMAIN sessions \subseteq Tokens
    /\ sessions \in [DOMAIN sessions -> Session]
    /\ handler \in [Handlers -> {Idle} \cup Busy]
    /\ now \in Nat
    /\ faults \in Nat
    /\ overlapped \subseteq Users

\* A verify past its select holds the id of a row of its own user.
ChosenRowOwned ==
    \A h \in Handlers : handler[h].pc \in Chosen =>
        /\ handler[h].row \in RowIds
        /\ otp[handler[h].row].user = handler[h].user

\* A verify that got past the comparison holds the code of its row, and a
\* verify about to mint has marked its row consumed.
ChosenRowMatches ==
    \A h \in Handlers :
        /\ handler[h].pc \in {"consume", "mint"} =>
              /\ otp[handler[h].row].code = handler[h].code
              /\ otp[handler[h].row].attempts > 0
        /\ handler[h].pc = "mint" => otp[handler[h].row].consumed

\* CreateSession runs only after VerifyCode spent a row: every token ever minted
\* goes back to a code row that was attempted and is consumed for good, and a
\* live session belongs to the user that row was issued to.
SessionsEarned ==
    \A t \in Tokens :
        /\ earned[t] \in RowIds
        /\ otp[earned[t]].attempts > 0
        /\ otp[earned[t]].consumed
        /\ t \in DOMAIN sessions => sessions[t].user = otp[earned[t]].user

\* The cap is read before the counter is written, so handlers in flight can
\* overrun it, but by no more than their number: attempts made and attempts
\* about to be counted stay under maxAttempts plus the other handlers.
Counting(i) == {h \in Handlers : handler[h].pc = "count" /\ handler[h].row = i}

OverrunBounded ==
    \A i \in RowIds :
        otp[i].attempts + Cardinality(Counting(i)) < MaxAttempts + Cardinality(Handlers)

\* One row per code, for ever: its user, value and expiry never change, attempts
\* never fall and a consumed row is never active again.
OnlyAges(old, new) ==
    /\ new.user = old.user
    /\ new.code = old.code
    /\ new.created = old.created
    /\ new.expires = old.expires
    /\ new.attempts >= old.attempts
    /\ old.consumed => new.consumed

RowsOnlyAge ==
    [][Len(otp') >= Len(otp) /\ \A i \in RowIds : OnlyAges(otp[i], otp'[i])]_vars

\* A token that stopped validating, by sign-out or by expiry, never validates again.
SignedOutStaysOut ==
    [][\A t \in Tokens : Validates(t)' => Validates(t)]_vars

\* Without a failed statement or a crash no code is lost: a consumed row was
\* spent on a session (minted or being minted), or was superseded by a newer row
\* of its user (inserted or about to be).
Explained(i) ==
    \/ \E t \in Tokens : earned[t] = i
    \/ \E j \in RowIds : j > i /\ otp[j].user = otp[i].user
    \/ \E h \in Handlers : \/ handler[h].pc = "mint" /\ handler[h].row = i
                           \/ handler[h].pc = "insert" /\ handler[h].user = otp[i].user

NoCodeLost ==
    faults = 0 => \A i \in RowIds : otp[i].consumed => Explained(i)

\* The rest is promised of every code, and holds of the users who never have two
\* requests in flight together, whatever the requests of others do.
Alone(i) == otp[i].user \notin overlapped

\* code.go maxAttempts: no code is tried more often.
AttemptsCapped == \A i \in RowIds : Alone(i) => otp[i].attempts <= MaxAttempts

\* IssueCode "invalidates prior codes": a user has at most one active code.
OneActiveCode ==
    \A u \in Users \ overlapped : \A i, j \in Active(u) : i = j

\* A one-time code signs in once: no two tokens come from one row.
OneSessionPerCode ==
    \A s, t \in Tokens : earned[s] = earned[t] /\ Alone(earned[s]) => s = t

\* A session is minted only for the newest code of its user (TestCodeReplacement:
\* "issuing a new code invalidates the prior code").
OnlyNewestSignsIn ==
    [][\A t \in DOMAIN earned' \ DOMAIN earned :
          Alone(earned'[t]) =>
              \A j \in RowIds : otp[j].user = otp[earned'[t]].user => j <= earned'[t]]_vars

\* IssueCode "invalidates prior codes", of every user.
PriorInvalid == \A u \in Users : \A i, j \in Active(u) : i = j
=============================================================================
