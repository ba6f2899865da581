---------------------------- MODULE RateLimiter ----------------------------
(***************************************************************************)
(* The limiter of code requests (backend/internal/auth/rate.go): a map in  *)
(* the server's memory from "ip:..." and "email:..." keys to a counter and *)
(* the end of its window.  requestCode charges the IP, then the e-mail,    *)
(* each in a critical section of its own: other requests come in between.  *)
(***************************************************************************)
EXTENDS Integers, Sequences, FiniteSets

CONSTANTS
    Ips,
    Emails,
    Handlers,    \* requests handled at a time
    Max(_),      \* rateMaxIP for an IP, rateMaxEmail for an e-mail
    Window,      \* rateWindow, in clock ticks
    MaxTime,     \* bound: clock ticks
    MaxLog       \* bound: decisions since the last start of the server

ASSUME LimiterAssumption ==
    /\ Window \in Nat \ {0} /\ MaxTime \in Nat
    /\ \A k \in Ips \cup Emails : Max(k) \in Nat \ {0}

VARIABLES
    now,
    entries,  \* key -> counter and end of its window
    handler,  \* per handler: the request between its two charges
    log       \* history: every decision since the start: key, time, granted or not

vars == <<now, entries, handler, log>>

Keys    == Ips \cup Emails
NoEntry == [count |-> 0]
Idle    == [email |-> "none"]

-----------------------------------------------------------------------------
(* rateLimiter.allow: a fixed window, opened by the first request after the last one. *)

Closed_Unread(k) == entries[k] = NoEntry
Closed(k) == entries[k] = NoEntry \/ now > entries[k].end

Allowed(k) == Closed(k) \/ entries[k].count < Max(k)

Charged_FromZero(k) ==
    IF Closed(k) THEN [count |-> 0, end |-> now + Window]
    ELSE [entries[k] EXCEPT !.count = @ + 1]
Charged(k) ==
    IF Closed(k) THEN [count |-> 1, end |-> now + Window]
    ELSE [entries[k] EXCEPT !.count = @ + 1]

Charge(k) ==
    /\ entries' = IF Allowed(k) THEN [entries EXCEPT ![k] = Charged(k)] ELSE entries
    /\ log' = Append(log, [key |-> k, at |-> now, ok |-> Allowed(k)])

-----------------------------------------------------------------------------
(* requestCode: allowCodeRequest is ip && email. *)

ChargeIp(h, ip, email) ==
    /\ handler[h] = Idle
    /\ Len(log) < MaxLog
    /\ Charge(ip)
    /\ handler' = IF Allowed(ip) THEN [handler EXCEPT ![h] = [email |-> email]] ELSE handler
    /\ UNCHANGED now

\* After this charge the handler issues and sends a code, or answers 429.
ChargeEmail(h) ==
    /\ handler[h] # Idle
    /\ Charge(handler[h].email)
    /\ handler' = [handler EXCEPT ![h] = Idle]
    /\ UNCHANGED now

Tick ==
    /\ now < MaxTime
    /\ now' = now + 1
    /\ UNCHANGED <<entries, handler, log>>

\* The server stops and starts: the map is gone, and the requests in progress.
Restart ==
    /\ entries' = [k \in Keys |-> NoEntry]
    /\ handler' = [h \in Handlers |-> Idle]
    /\ log' = <<>>
    /\ UNCHANGED now

Init ==
    /\ now = 0
    /\ entries = [k \in Keys |-> NoEntry]
    /\ handler = [h \in Handlers |-> Idle]
    /\ log = <<>>

Next ==
    \/ \E h \in Handlers :
          \/ \E ip \in Ips, email \in Emails : ChargeIp(h, ip, email)
          \/ ChargeEmail(h)
    \/ Tick
    \/ Restart

Spec == Init /\ [][Next]_vars

-----------------------------------------------------------------------------
(* Properties. *)

Entry == [count : Nat \ {0}, end : Nat]

\* A counter has a window.
TypeOK ==
    /\ now \in 0..MaxTime
    /\ entries \in [Keys -> Entry \cup {NoEntry}]
    /\ handler \in [Handlers -> {Idle} \cup [email : Emails]]
    /\ log \in Seq([key : Keys, at : 0..MaxTime, ok : BOOLEAN])

Granted(k, from, to) ==
    {n \in 1..Len(log) : log[n].key = k /\ log[n].ok /\ log[n].at \in from..to}

\* A restart apart, no stretch of Window ticks sees more than twice the ceiling: it
\* can meet two windows, not three.
TwiceCeiling ==
    \A k \in Keys, t \in 0..MaxTime : Cardinality(Granted(k, t, t + Window)) <= 2 * Max(k)

\* Nobody is refused whose own key was not charged to its ceiling within the last Window
\* ticks, by requests it let pass: those it refused are free.  On an e-mail each such charge
\* is a code that was issued; on an IP it need not be, for a request the e-mail then refuses
\* keeps its charge on the IP (rate.go:48), and so may get others refused there.
RefusedForCause ==
    \A n \in 1..Len(log) : ~log[n].ok =>
        Cardinality({m \in Granted(log[n].key, log[n].at - Window, log[n].at) : m < n})
            >= Max(log[n].key)
=============================================================================
