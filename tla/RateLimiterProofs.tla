-------------------------- MODULE RateLimiterProofs --------------------------
(* Proofs about RateLimiter, for any keys, ceilings, window and requests in  *)
(* flight.                                                                   *)
EXTENDS RateLimiter, FiniteSetTheorems, TLAPS

-----------------------------------------------------------------------------
(* Grants, as a function of the log they are read from.                      *)

Decision == [key : Keys, at : 0..MaxTime, ok : BOOLEAN]

GrantsIn(l, k, from, to) ==
    {n \in 1..Len(l) : l[n].key = k /\ l[n].ok /\ l[n].at \in from..to}

\* Grants are finitely many, and more of them lie in a longer stretch.
LEMMA GrantsFinite ==
    ASSUME NEW l \in Seq(Decision), NEW k, NEW a, NEW b
    PROVE  IsFiniteSet(GrantsIn(l, k, a, b)) /\ Cardinality(GrantsIn(l, k, a, b)) \in Nat
<1>1. Len(l) \in Nat /\ 1 \in Int
    OBVIOUS
<1>2. IsFiniteSet(1..Len(l))
    BY <1>1, FS_Interval
<1>3. GrantsIn(l, k, a, b) \in SUBSET (1..Len(l))
    BY DEF GrantsIn
<1>4. IsFiniteSet(GrantsIn(l, k, a, b))
    BY <1>2, <1>3, FS_Subset
<1> QED
    BY <1>4, FS_CardinalityType

\* What one more decision adds to them.
LEMMA GrantsAppend ==
    ASSUME NEW l \in Seq(Decision), NEW e \in Decision, NEW k, NEW a \in Int, NEW b \in Int
    PROVE  /\ Append(l, e) \in Seq(Decision)
           /\ GrantsIn(Append(l, e), k, a, b) =
                IF e.key = k /\ e.ok /\ e.at \in a..b THEN GrantsIn(l, k, a, b) \cup {Len(l) + 1}
                ELSE GrantsIn(l, k, a, b)
           /\ Len(l) + 1 \notin GrantsIn(l, k, a, b)
<1> DEFINE g == Append(l, e)
<1>1. Len(l) \in Nat /\ g \in Seq(Decision) /\ Len(g) = Len(l) + 1
    OBVIOUS
<1>2. g[Len(l) + 1] = e /\ \A n \in 1..Len(l) : g[n] = l[n]
    OBVIOUS
<1> HIDE DEF g
<1>3. 1..Len(g) = 1..Len(l) \cup {Len(l) + 1} /\ Len(l) + 1 \notin 1..Len(l)
    BY <1>1
<1>4. \A n \in 1..Len(g) : n \in GrantsIn(g, k, a, b) <=>
          IF n = Len(l) + 1 THEN e.key = k /\ e.ok /\ e.at \in a..b
          ELSE n \in GrantsIn(l, k, a, b)
    BY <1>2, <1>3 DEF GrantsIn
<1>5. GrantsIn(g, k, a, b) \subseteq 1..Len(g) /\ GrantsIn(l, k, a, b) \subseteq 1..Len(l)
    BY DEF GrantsIn
<1>6. GrantsIn(g, k, a, b) =
          IF e.key = k /\ e.ok /\ e.at \in a..b THEN GrantsIn(l, k, a, b) \cup {Len(l) + 1}
          ELSE GrantsIn(l, k, a, b)
    BY <1>3, <1>4, <1>5
<1> QED
    BY <1>1, <1>3, <1>5, <1>6 DEF g

\* A new grant counts for one, in the stretches it lies in.
LEMMA GrantsCount ==
    ASSUME NEW l \in Seq(Decision), NEW e \in Decision, NEW k, NEW a \in Int, NEW b \in Int
    PROVE  Cardinality(GrantsIn(Append(l, e), k, a, b)) =
              IF e.key = k /\ e.ok /\ e.at \in a..b THEN Cardinality(GrantsIn(l, k, a, b)) + 1
              ELSE Cardinality(GrantsIn(l, k, a, b))
<1>1. CASE e.key = k /\ e.ok /\ e.at \in a..b
    <2>1. GrantsIn(Append(l, e), k, a, b) = GrantsIn(l, k, a, b) \cup {Len(l) + 1}
        BY <1>1, GrantsAppend
    <2>2. IsFiniteSet(GrantsIn(l, k, a, b)) /\ Len(l) + 1 \notin GrantsIn(l, k, a, b)
        BY GrantsFinite, GrantsAppend
    <2>3. Cardinality(GrantsIn(l, k, a, b) \cup {Len(l) + 1}) = Cardinality(GrantsIn(l, k, a, b)) + 1
        BY <2>2, FS_AddElement
    <2> QED
        BY <1>1, <2>1, <2>3
<1>2. CASE ~(e.key = k /\ e.ok /\ e.at \in a..b)
    BY <1>2, GrantsAppend
<1> QED
    BY <1>1, <1>2

\* An empty log has none.
LEMMA SilentIsLow ==
    ASSUME NEW k \in Keys, NEW a, NEW b
    PROVE  Cardinality(GrantsIn(<<>>, k, a, b)) <= 2 * Max(k)
<1>1. GrantsIn(<<>>, k, a, b) = {}
    BY DEF GrantsIn
<1>2. Cardinality(GrantsIn(<<>>, k, a, b)) = 0
    BY <1>1, FS_EmptySet
<1> QED
    BY <1>2, LimiterAssumption DEF Keys

\* A set of grants within another is no larger.
LEMMA GrantsWithin ==
    ASSUME NEW l \in Seq(Decision), NEW k, NEW a, NEW b,
           NEW T \in SUBSET GrantsIn(l, k, a, b)
    PROVE  /\ IsFiniteSet(T) /\ Cardinality(T) \in Nat
           /\ Cardinality(T) <= Cardinality(GrantsIn(l, k, a, b))
<1>1. IsFiniteSet(T) /\ Cardinality(T) <= Cardinality(GrantsIn(l, k, a, b))
    BY GrantsFinite, FS_Subset
<1> QED
    BY <1>1, FS_CardinalityType

\* A stretch is no busier than its two parts together.
LEMMA GrantsSplit ==
    ASSUME NEW l \in Seq(Decision), NEW k, NEW a \in Int, NEW b \in Int, NEW m \in Int,
           NEW c \in Int,
           \A n \in 1..Len(l) : l[n].key = k /\ l[n].ok => l[n].at <= c
    PROVE  Cardinality(GrantsIn(l, k, a, b)) <=
              Cardinality(GrantsIn(l, k, a, m - 1)) + Cardinality(GrantsIn(l, k, m, c))
<1> DEFINE S == GrantsIn(l, k, a, m - 1)
           T == GrantsIn(l, k, m, c)
<1>1. \A n \in 1..Len(l) : l[n].at \in Int
    <2> TAKE n \in 1..Len(l)
    <2>1. l[n] \in Decision
        OBVIOUS
    <2> QED
        BY <2>1, LimiterAssumption DEF Decision
<1>2. GrantsIn(l, k, a, b) \in SUBSET (S \cup T)
    BY <1>1 DEF GrantsIn
<1>3. IsFiniteSet(S) /\ IsFiniteSet(T) /\ Cardinality(S) \in Nat /\ Cardinality(T) \in Nat
    BY GrantsFinite
<1> HIDE DEF S, T
<1>4. /\ IsFiniteSet(S \cup T)
      /\ Cardinality(S \cup T) = Cardinality(S) + Cardinality(T) - Cardinality(S \cap T)
    BY <1>3, FS_Union
<1>5. IsFiniteSet(S \cap T)
    BY <1>3, FS_Subset
<1>6. Cardinality(S \cap T) \in Nat
    BY <1>5, FS_CardinalityType
<1>7. Cardinality(GrantsIn(l, k, a, b)) <= Cardinality(S \cup T)
    BY <1>2, <1>4, FS_Subset
<1>8. Cardinality(GrantsIn(l, k, a, b)) \in Nat
    BY GrantsFinite
<1> QED
    BY <1>3, <1>4, <1>6, <1>7, <1>8 DEF S, T

-----------------------------------------------------------------------------
(* The inductive invariant: what an entry remembers of the log.              *)

\* Decisions are of the past.
Logged == \A n \in 1..Len(log) : log[n].at <= now

\* A key without an entry was never granted; the counter of an entry is the number of
\* grants since its window began, none is later than its end, and a stretch that reaches
\* into the window meets at most a ceiling of grants before it.
Remembers(k) ==
    IF entries[k] = NoEntry THEN \A n \in 1..Len(log) : log[n].key = k => ~log[n].ok
    ELSE LET end == entries[k].end
             from == end - Window
         IN  /\ \A n \in 1..Len(log) : log[n].key = k /\ log[n].ok => log[n].at <= end
             /\ from <= now
             /\ Cardinality(GrantsIn(log, k, from, end)) = entries[k].count
             /\ entries[k].count <= Max(k)
             /\ \A t \in Int : t + Window >= from =>
                    Cardinality(GrantsIn(log, k, t, from - 1)) <= Max(k)

Inv ==
    /\ TypeOK /\ Logged /\ TwiceCeiling /\ RefusedForCause
    /\ \A k \in Keys : Remembers(k)

\* An entry counts at least one grant.
LEMMA EntryKinds ==
    ASSUME TypeOK, NEW k \in Keys
    PROVE  \/ entries[k] = NoEntry
           \/ entries[k] # NoEntry /\ entries[k].count \in Nat \ {0} /\ entries[k].end \in Nat
BY DEF TypeOK, Entry, NoEntry

-----------------------------------------------------------------------------
(* A charge.                                                                 *)

NewDecision(k) == [key |-> k, at |-> now, ok |-> Allowed(k)]

\* What is known of a charge: its decision joins the log.
LEMMA ChargeTyped ==
    ASSUME TypeOK, NEW k \in Keys, Charge(k)
    PROVE  /\ NewDecision(k) \in Decision
           /\ log \in Seq(Decision)
           /\ log' = Append(log, NewDecision(k))
           /\ log' \in Seq(Decision)
           /\ Len(log) \in Nat /\ Len(log') = Len(log) + 1
           /\ \A n \in 1..Len(log) : log'[n] = log[n]
           /\ log'[Len(log) + 1] = NewDecision(k)
           /\ \A n \in 1..Len(log') : n \in 1..Len(log) \/ n = Len(log) + 1
           /\ entries' \in [Keys -> Entry \cup {NoEntry}]
           /\ \A j \in Keys \ {k} : entries'[j] = entries[j]
           /\ entries'[k] = IF Allowed(k) THEN Charged(k) ELSE entries[k]
<1>1. Allowed(k) \in BOOLEAN
    BY DEF Allowed, Closed
<1>2. NewDecision(k) \in Decision /\ log \in Seq(Decision)
    BY <1>1 DEF TypeOK, NewDecision, Decision
<1>3. log' = Append(log, NewDecision(k))
    BY DEF Charge, NewDecision
<1>4. /\ log' \in Seq(Decision) /\ Len(log) \in Nat /\ Len(log') = Len(log) + 1
      /\ \A n \in 1..Len(log) : log'[n] = log[n]
      /\ log'[Len(log) + 1] = NewDecision(k)
    BY <1>2, <1>3
<1>5. \A n \in 1..Len(log') : n \in 1..Len(log) \/ n = Len(log) + 1
    BY <1>4
<1>6. now \in Nat /\ Window \in Nat
    BY LimiterAssumption DEF TypeOK
<1>7. Charged(k) \in Entry
    <2>1. CASE Closed(k)
        BY <1>6, <2>1 DEF Charged, Entry
    <2>2. CASE ~Closed(k)
        <3>1. entries[k] \in Entry
            BY <2>2 DEF Closed, TypeOK
        <3>2. Charged(k) = [entries[k] EXCEPT !.count = @ + 1]
            BY <2>2 DEF Charged
        <3> QED
            BY <3>1, <3>2 DEF Entry
    <2> QED
        BY <2>1, <2>2
<1>8. /\ entries' \in [Keys -> Entry \cup {NoEntry}]
      /\ \A j \in Keys \ {k} : entries'[j] = entries[j]
      /\ entries'[k] = IF Allowed(k) THEN Charged(k) ELSE entries[k]
    BY <1>7 DEF Charge, TypeOK
<1> QED
    BY <1>2, <1>3, <1>4, <1>5, <1>8

\* The decisions of the log after a charge, and the new one.
LEMMA ChargeLogs ==
    ASSUME TypeOK, NEW k \in Keys, Charge(k), NEW n \in 1..Len(log')
    PROVE  \/ n \in 1..Len(log) /\ log'[n] = log[n]
           \/ n = Len(log) + 1 /\ log'[n].key = k /\ log'[n].at = now /\ (log'[n].ok <=> Allowed(k))
<1>1. NewDecision(k).key = k /\ NewDecision(k).at = now /\ NewDecision(k).ok = Allowed(k)
    BY DEF NewDecision
<1>2. CASE n \in 1..Len(log)
    BY <1>2, ChargeTyped
<1>3. CASE n = Len(log) + 1
    <2>1. log'[n] = NewDecision(k)
        BY <1>3, ChargeTyped
    <2> QED
        BY <1>1, <1>3, <2>1
<1> QED
    BY <1>2, <1>3, ChargeTyped

\* The grants after a charge.
LEMMA ChargeGrants ==
    ASSUME TypeOK, NEW k \in Keys, Charge(k), NEW j, NEW a \in Int, NEW b \in Int
    PROVE  /\ j = k /\ Allowed(k) /\ now \in a..b =>
                Cardinality(GrantsIn(log', j, a, b)) = Cardinality(GrantsIn(log, j, a, b)) + 1
           /\ ~(j = k /\ Allowed(k) /\ now \in a..b) =>
                GrantsIn(log', j, a, b) = GrantsIn(log, j, a, b)
           /\ \A m \in 1..Len(log) : m \in GrantsIn(log', j, a, b) <=> m \in GrantsIn(log, j, a, b)
<1> DEFINE e == NewDecision(k)
<1>1. e.key = k /\ e.at = now /\ (e.ok <=> Allowed(k))
    BY DEF NewDecision
<1>2. e \in Decision /\ log \in Seq(Decision) /\ log' = Append(log, e)
    BY ChargeTyped
<1> HIDE DEF e
<1>3. \A m \in 1..Len(log) : m \in GrantsIn(log', j, a, b) <=> m \in GrantsIn(log, j, a, b)
    <2> TAKE m \in 1..Len(log)
    <2>1. m \in 1..Len(log') /\ log'[m] = log[m]
        BY ChargeTyped
    <2> QED
        BY <2>1 DEF GrantsIn
<1>4. CASE j = k /\ Allowed(k) /\ now \in a..b
    <2>1. e.key = j /\ e.ok /\ e.at \in a..b
        BY <1>1, <1>4
    <2> QED
        BY <1>2, <1>4, <1>3, <2>1, GrantsCount
<1>5. CASE ~(j = k /\ Allowed(k) /\ now \in a..b)
    <2>1. ~(e.key = j /\ e.ok /\ e.at \in a..b)
        BY <1>1, <1>5
    <2> QED
        BY <1>2, <1>5, <1>3, <2>1, GrantsAppend
<1> QED
    BY <1>4, <1>5

\* Nothing new is remembered of a key that was not granted.
LEMMA ChargeOther ==
    ASSUME TypeOK, NEW k \in Keys, Charge(k), now' = now,
           NEW j \in Keys, j # k \/ ~Allowed(k), Remembers(j)
    PROVE  Remembers(j)'
<1>1. entries'[j] = entries[j]
    BY ChargeTyped
<1>2. \A n \in 1..Len(log') : log'[n].key = j /\ log'[n].ok =>
          n \in 1..Len(log) /\ log'[n] = log[n]
    BY ChargeLogs
<1>3. \A a, b \in Int : GrantsIn(log', j, a, b) = GrantsIn(log, j, a, b)
    BY ChargeGrants
<1>4. CASE entries[j] = NoEntry
    BY <1>1, <1>2, <1>4 DEF Remembers
<1>5. CASE entries[j] # NoEntry
    <2> DEFINE end == entries[j].end
               from == end - Window
    <2>1. end \in Int /\ from \in Int /\ Window \in Int /\ from - 1 \in Int
        BY <1>5, EntryKinds, LimiterAssumption
    <2>2. /\ \A n \in 1..Len(log) : log[n].key = j /\ log[n].ok => log[n].at <= end
          /\ from <= now
          /\ Cardinality(GrantsIn(log, j, from, end)) = entries[j].count
          /\ entries[j].count <= Max(j)
          /\ \A t \in Int : t + Window >= from =>
                Cardinality(GrantsIn(log, j, t, from - 1)) <= Max(j)
        BY <1>5 DEF Remembers
    <2>3. /\ \A n \in 1..Len(log') : log'[n].key = j /\ log'[n].ok => log'[n].at <= end
          /\ from <= now'
          /\ Cardinality(GrantsIn(log', j, from, end)) = entries[j].count
          /\ \A t \in Int : t + Window >= from =>
                Cardinality(GrantsIn(log', j, t, from - 1)) <= Max(j)
        <3> HIDE DEF end, from
        <3> QED
            BY <1>2, <1>3, <2>1, <2>2
    <2> QED
        BY <1>1, <1>5, <2>2, <2>3 DEF Remembers
<1> QED
    BY <1>4, <1>5

\* A grant within a window raises its counter.
LEMMA ChargeCounts ==
    ASSUME TypeOK, Logged, NEW k \in Keys, Charge(k), now' = now,
           Allowed(k), ~Closed(k), Remembers(k)
    PROVE  Remembers(k)'
<1> DEFINE end == entries[k].end
           from == end - Window
<1>1. entries[k] # NoEntry /\ now <= end /\ entries[k].count < Max(k)
    <2>1. entries[k] # NoEntry /\ ~(now > end) /\ entries[k].count < Max(k)
        BY DEF Allowed, Closed
    <2>2. now \in Int /\ end \in Int
        BY <2>1, EntryKinds, LimiterAssumption DEF TypeOK
    <2> QED
        BY <2>1, <2>2
<1>2. /\ entries[k].count \in Nat /\ end \in Int /\ from \in Int /\ Window \in Nat
      /\ from - 1 \in Int /\ now \in Int /\ Max(k) \in Nat
    BY <1>1, EntryKinds, LimiterAssumption DEF TypeOK, Keys
<1>3. /\ \A n \in 1..Len(log) : log[n].key = k /\ log[n].ok => log[n].at <= end
      /\ from <= now
      /\ Cardinality(GrantsIn(log, k, from, end)) = entries[k].count
      /\ \A t \in Int : t + Window >= from => Cardinality(GrantsIn(log, k, t, from - 1)) <= Max(k)
    BY <1>1 DEF Remembers
<1>4. entries'[k] # NoEntry /\ entries'[k].end = end /\ entries'[k].count = entries[k].count + 1
    <2>1. entries[k] \in Entry
        BY <1>1 DEF TypeOK
    <2>2. entries'[k] = [entries[k] EXCEPT !.count = @ + 1]
        BY ChargeTyped DEF Charged
    <2>3. entries'[k].end = end /\ entries'[k].count = entries[k].count + 1
        BY <2>1, <2>2 DEF Entry
    <2>4. entries'[k].count # NoEntry.count
        BY <1>2, <2>3 DEF NoEntry
    <2> QED
        BY <2>3, <2>4
<1> HIDE DEF end, from
<1>5. \A n \in 1..Len(log') : log'[n].key = k /\ log'[n].ok => log'[n].at <= end
    BY <1>1, <1>3, ChargeLogs
<1>6. Cardinality(GrantsIn(log', k, from, end)) = entries[k].count + 1
    <2>1. now \in from..end
        BY <1>1, <1>2, <1>3
    <2> QED
        BY <1>2, <1>3, <2>1, ChargeGrants
<1>7. ASSUME NEW t \in Int, t + Window >= from
      PROVE  Cardinality(GrantsIn(log', k, t, from - 1)) <= Max(k)
    <2>1. now \notin t..(from - 1)
        BY <1>2, <1>3
    <2> QED
        BY <1>2, <1>3, <1>7, <2>1, ChargeGrants
<1> QED
    BY <1>1, <1>2, <1>3, <1>4, <1>5, <1>6, <1>7 DEF Remembers, end, from

\* The first grant after a window opens the next one.
LEMMA ChargeOpens ==
    ASSUME TypeOK, Logged, NEW k \in Keys, Charge(k), now' = now,
           Closed(k), Remembers(k)
    PROVE  Remembers(k)'
<1>1. now \in Nat /\ Window \in Nat /\ Max(k) \in Nat /\ 1 <= Max(k)
    BY LimiterAssumption DEF TypeOK, Keys
<1>2. entries'[k] = [count |-> 1, end |-> now + Window] /\ Allowed(k)
    BY ChargeTyped DEF Allowed, Charged
<1>3. entries'[k].count = 1 /\ entries'[k].end = now + Window /\ entries'[k] # NoEntry
    <2>1. entries'[k].count = 1 /\ entries'[k].end = now + Window /\ NoEntry.count = 0
        BY <1>2 DEF NoEntry
    <2> QED
        BY <2>1
<1>4. \A n \in 1..Len(log') : log'[n].at <= now
    BY <1>1, ChargeLogs DEF Logged
<1>5. \A n \in 1..Len(log) : log[n].at \in Int
    <2> TAKE n \in 1..Len(log)
    <2>1. log[n] \in Decision
        BY ChargeTyped
    <2> QED
        BY <2>1, LimiterAssumption DEF Decision
<1>6. \A n \in 1..Len(log) : log[n].key = k /\ log[n].ok => log[n].at < now
    <2>1. CASE entries[k] = NoEntry
        BY <2>1 DEF Remembers
    <2>2. CASE entries[k] # NoEntry
        BY <1>1, <1>5, <2>2, EntryKinds DEF Closed, Remembers
    <2> QED
        BY <2>1, <2>2
<1>7. Cardinality(GrantsIn(log', k, now, now + Window)) = 1
    <2>1. GrantsIn(log, k, now, now + Window) = {}
        BY <1>1, <1>5, <1>6 DEF GrantsIn
    <2>2. Cardinality(GrantsIn(log, k, now, now + Window)) = 0
        BY <2>1, FS_EmptySet
    <2>3. now \in now..(now + Window) /\ now + Window \in Int
        BY <1>1
    <2> QED
        BY <1>1, <1>2, <2>2, <2>3, ChargeGrants
<1>8. ASSUME NEW t \in Int, t + Window >= now
      PROVE  Cardinality(GrantsIn(log', k, t, now - 1)) <= Max(k)
    <2>1. Cardinality(GrantsIn(log', k, t, now - 1)) = Cardinality(GrantsIn(log, k, t, now - 1))
        <3>1. now \notin t..(now - 1) /\ now - 1 \in Int
            BY <1>1
        <3> QED
            BY <1>1, <3>1, ChargeGrants
    <2>2. CASE entries[k] = NoEntry
        <3>1. GrantsIn(log, k, t, now - 1) = {}
            BY <2>2 DEF Remembers, GrantsIn
        <3>2. Cardinality(GrantsIn(log, k, t, now - 1)) = 0
            BY <3>1, FS_EmptySet
        <3> QED
            BY <1>1, <2>1, <3>2
    <2>3. CASE entries[k] # NoEntry
        <3> DEFINE end == entries[k].end
                   from == end - Window
        <3>1. /\ \A n \in 1..Len(log) : log[n].key = k /\ log[n].ok => log[n].at <= end
              /\ Cardinality(GrantsIn(log, k, from, end)) = entries[k].count
              /\ entries[k].count <= Max(k)
            BY <2>3 DEF Remembers
        <3>2. end \in Int /\ now > end /\ entries[k].count \in Nat
            BY <2>3, EntryKinds DEF Closed
        <3>3. from \in Int /\ t >= from
            BY <1>1, <1>8, <3>2
        <3> HIDE DEF end, from
        <3>4. GrantsIn(log, k, t, now - 1) \in SUBSET GrantsIn(log, k, from, end)
            BY <1>1, <1>5, <3>1, <3>2, <3>3 DEF GrantsIn
        <3>5. /\ Cardinality(GrantsIn(log, k, t, now - 1)) \in Nat
              /\ Cardinality(GrantsIn(log, k, t, now - 1)) <= Cardinality(GrantsIn(log, k, from, end))
            BY <3>4, ChargeTyped, GrantsWithin
        <3> QED
            BY <1>1, <2>1, <3>1, <3>2, <3>5
    <2> QED
        BY <2>2, <2>3
<1> DEFINE end == entries'[k].end
           from == end - Window
<1>9. end = now + Window /\ from = now /\ now <= end
    BY <1>1, <1>3
<1>10. \A n \in 1..Len(log') : log'[n].key = k /\ log'[n].ok => log'[n].at <= end
    <2> TAKE n \in 1..Len(log')
    <2>1. CASE n \in 1..Len(log) /\ log'[n] = log[n]
        BY <1>1, <1>3, <1>5, <1>6, <2>1
    <2>2. CASE log'[n].at = now
        BY <1>9, <2>2
    <2> QED
        BY <2>1, <2>2, ChargeLogs
<1>11. /\ from <= now
       /\ Cardinality(GrantsIn(log', k, from, end)) = 1
       /\ \A t \in Int : t + Window >= from => Cardinality(GrantsIn(log', k, t, from - 1)) <= Max(k)
    <2> HIDE DEF end, from
    <2> QED
        BY <1>1, <1>7, <1>8, <1>9
<1> QED
    BY <1>1, <1>3, <1>10, <1>11 DEF Remembers

\* A charge keeps what every key's entry remembers.
LEMMA ChargeRemembers ==
    ASSUME Inv, NEW k \in Keys, Charge(k), now' = now
    PROVE  \A j \in Keys : Remembers(j)'
<1> TAKE j \in Keys
<1>1. CASE j # k \/ ~Allowed(k)
    BY <1>1, ChargeOther DEF Inv
<1>2. CASE j = k /\ Closed(k)
    BY <1>2, ChargeOpens DEF Inv
<1>3. CASE j = k /\ Allowed(k) /\ ~Closed(k)
    BY <1>3, ChargeCounts DEF Inv
<1> QED
    BY <1>1, <1>2, <1>3

\* A stretch that sees the new grant reaches into the window of its key: the window holds
\* a ceiling of grants at most, and so does what the stretch has before it.
LEMMA ChargeCeiling ==
    ASSUME Inv, NEW k \in Keys, Charge(k), now' = now
    PROVE  TwiceCeiling'
<1> SUFFICES ASSUME NEW j \in Keys, NEW t \in 0..MaxTime
             PROVE  Cardinality(GrantsIn(log', j, t, t + Window)) <= 2 * Max(j)
    BY DEF TwiceCeiling, Granted, GrantsIn
<1>1. t \in Int /\ Window \in Nat /\ t + Window \in Int /\ Max(j) \in Nat /\ now \in Int
    BY LimiterAssumption DEF Keys, Inv, TypeOK
<1>2. TypeOK
    BY DEF Inv
<1>3. CASE ~(j = k /\ Allowed(k) /\ now \in t..(t + Window))
    <2>1. Cardinality(GrantsIn(log', j, t, t + Window)) = Cardinality(GrantsIn(log, j, t, t + Window))
        BY <1>1, <1>2, <1>3, ChargeGrants
    <2> QED
        BY <2>1 DEF Inv, TwiceCeiling, Granted, GrantsIn
<1>4. CASE j = k /\ Allowed(k) /\ now \in t..(t + Window)
    <2>1. j = k /\ Allowed(k) /\ now <= t + Window
        BY <1>1, <1>4
    <2> DEFINE end == entries'[k].end
               from == end - Window
    <2>2. Charged(k) # NoEntry
        <3>1. Charged(k).count # 0
            BY <1>2, EntryKinds DEF Charged, Closed, TypeOK, Entry
        <3> QED
            BY <3>1 DEF NoEntry
    <2>3. entries'[k] # NoEntry
        BY <1>2, <2>1, <2>2, ChargeTyped
    <2>4. Remembers(k)'
        BY ChargeRemembers
    <2>5. /\ \A n \in 1..Len(log') : log'[n].key = k /\ log'[n].ok => log'[n].at <= end
          /\ from <= now
          /\ Cardinality(GrantsIn(log', k, from, end)) <= Max(k)
          /\ \A u \in Int : u + Window >= from =>
                Cardinality(GrantsIn(log', k, u, from - 1)) <= Max(k)
        BY <2>3, <2>4 DEF Remembers
    <2>6. end \in Int /\ from \in Int
        <3>1. entries'[k] \in Entry
            BY <1>2, <2>3, ChargeTyped
        <3> QED
            BY <1>1, <3>1 DEF Entry
    <2> HIDE DEF end, from
    <2>7. Cardinality(GrantsIn(log', k, t, t + Window)) <=
              Cardinality(GrantsIn(log', k, t, from - 1)) + Cardinality(GrantsIn(log', k, from, end))
        BY <1>1, <1>2, <2>5, <2>6, ChargeTyped, GrantsSplit
    <2>8. Cardinality(GrantsIn(log', k, t, from - 1)) <= Max(k)
        BY <1>1, <2>1, <2>5, <2>6
    <2>9. /\ Cardinality(GrantsIn(log', k, t, from - 1)) \in Nat
          /\ Cardinality(GrantsIn(log', k, from, end)) \in Nat
          /\ Cardinality(GrantsIn(log', k, t, t + Window)) \in Nat
        BY <1>2, ChargeTyped, GrantsFinite
    <2> QED
        BY <1>1, <2>1, <2>5, <2>7, <2>8, <2>9
<1> QED
    BY <1>3, <1>4

\* A refusal now has its ceiling of charges in the window, which began at most Window ago.
LEMMA ChargeForCause ==
    ASSUME Inv, NEW k \in Keys, Charge(k), now' = now
    PROVE  RefusedForCause'
<1> SUFFICES ASSUME NEW n \in 1..Len(log'), ~log'[n].ok
             PROVE  Cardinality({m \in GrantsIn(log', log'[n].key, log'[n].at - Window, log'[n].at) : m < n})
                        >= Max(log'[n].key)
    BY DEF RefusedForCause, Granted, GrantsIn
<1>1. TypeOK /\ Logged /\ Remembers(k)
    BY DEF Inv
<1>2. CASE n \in 1..Len(log)
    <2> DEFINE j == log[n].key
               b == log[n].at
               a == b - Window
    <2>1. log'[n] = log[n] /\ log[n] \in Decision
        BY <1>1, <1>2, ChargeTyped
    <2>2. a \in Int /\ b \in Int
        BY <2>1, LimiterAssumption DEF Decision
    <2> HIDE DEF a, b, j
    <2>3. Len(log) + 1 >= n /\ ~(Len(log) + 1 < n) /\ Len(log) \in Nat
        BY <1>1, <1>2, ChargeTyped
    <2>4. {m \in GrantsIn(log', j, a, b) : m < n} = {m \in GrantsIn(log, j, a, b) : m < n}
        <3>1. GrantsIn(log', j, a, b) \subseteq 1..Len(log')
            BY DEF GrantsIn
        <3>2. GrantsIn(log, j, a, b) \subseteq 1..Len(log)
            BY DEF GrantsIn
        <3>3. \A m \in 1..Len(log') : m < n => m \in 1..Len(log)
            BY <1>1, <1>2, ChargeTyped
        <3>4. \A m \in 1..Len(log) : m \in GrantsIn(log', j, a, b) <=> m \in GrantsIn(log, j, a, b)
            BY <1>1, <2>2, ChargeGrants
        <3> QED
            BY <3>1, <3>2, <3>3, <3>4
    <2>5. Cardinality({m \in GrantsIn(log, j, a, b) : m < n}) >= Max(j)
        BY <1>2, <2>1 DEF Inv, RefusedForCause, Granted, GrantsIn, a, b, j
    <2> QED
        BY <2>1, <2>4, <2>5 DEF a, b, j
<1>3. CASE n = Len(log) + 1
    <2> DEFINE end == entries[k].end
               from == end - Window
    <2>1. log'[n] = NewDecision(k) /\ ~Allowed(k)
        BY <1>1, <1>3, ChargeTyped DEF NewDecision
    <2>2. entries[k] # NoEntry /\ ~(now > end) /\ ~(entries[k].count < Max(k))
        BY <2>1 DEF Allowed, Closed
    <2>3. /\ now \in Nat /\ end \in Int /\ from \in Int /\ Window \in Nat /\ now <= end
          /\ entries[k].count \in Nat /\ Max(k) \in Nat
        BY <1>1, <2>2, EntryKinds, LimiterAssumption DEF TypeOK, Keys
    <2>4. Cardinality(GrantsIn(log, k, from, end)) = entries[k].count
        BY <1>1, <2>2 DEF Remembers
    <2> HIDE DEF end, from
    <2>5. now - Window <= from
        BY <2>3 DEF from
    <2>6. \A m \in 1..Len(log) : log[m].at \in Int /\ log[m].at <= now
        <3> TAKE m \in 1..Len(log)
        <3>1. log[m] \in Decision
            BY <1>1, ChargeTyped
        <3> QED
            BY <1>1, <3>1, LimiterAssumption DEF Decision, Logged
    <2>7. Len(log) \in Nat /\ \A m \in 1..Len(log) : m < n
        BY <1>1, <1>3, ChargeTyped
    <2>8. GrantsIn(log, k, from, end) \in
              SUBSET {m \in GrantsIn(log', k, now - Window, now) : m < n}
        <3> SUFFICES ASSUME NEW m \in GrantsIn(log, k, from, end)
                     PROVE  m \in GrantsIn(log', k, now - Window, now) /\ m < n
            OBVIOUS
        <3>1. m \in 1..Len(log) /\ log[m].key = k /\ log[m].ok /\ log[m].at \in from..end
            BY DEF GrantsIn
        <3>2. m \in 1..Len(log') /\ log'[m] = log[m]
            BY <1>1, <3>1, ChargeTyped
        <3>3. log[m].at \in (now - Window)..now
            BY <2>3, <2>5, <2>6, <3>1
        <3> QED
            BY <2>7, <3>1, <3>2, <3>3 DEF GrantsIn
    <2>9. /\ {m \in GrantsIn(log', k, now - Window, now) : m < n} \in
                SUBSET GrantsIn(log', k, now - Window, now)
          /\ log' \in Seq(Decision)
        BY <1>1, ChargeTyped
    <2>10. /\ IsFiniteSet({m \in GrantsIn(log', k, now - Window, now) : m < n})
           /\ Cardinality({m \in GrantsIn(log', k, now - Window, now) : m < n}) \in Nat
        BY <2>9, GrantsWithin
    <2>11. Cardinality(GrantsIn(log, k, from, end)) <=
              Cardinality({m \in GrantsIn(log', k, now - Window, now) : m < n})
        BY <2>8, <2>10, FS_Subset
    <2>12. Cardinality({m \in GrantsIn(log', k, now - Window, now) : m < n}) >= Max(k)
        BY <2>2, <2>3, <2>4, <2>10, <2>11
    <2> QED
        BY <2>1, <2>12 DEF NewDecision
<1> QED
    BY <1>1, <1>2, <1>3, ChargeTyped

\* A charge keeps the invariant, whichever of the two it is.
LEMMA ChargeKeeps ==
    ASSUME Inv, NEW k \in Keys, Charge(k), now' = now,
           handler' \in [Handlers -> {Idle} \cup [email : Emails]]
    PROVE  Inv'
<1>1. TypeOK'
    BY ChargeTyped DEF Inv, TypeOK, Decision
<1>2. Logged'
    <2>1. now \in Int /\ now <= now
        BY LimiterAssumption DEF Inv, TypeOK
    <2> QED
        BY <2>1, ChargeLogs DEF Inv, Logged
<1> QED
    BY <1>1, <1>2, ChargeRemembers, ChargeCeiling, ChargeForCause DEF Inv

-----------------------------------------------------------------------------
(* The theorems.                                                             *)

\* The invariant is inductive: entries and log agree on what was granted.
THEOREM Invariant == Spec => []Inv
<1>1. Init => Inv
    <2> SUFFICES ASSUME Init PROVE Inv
        OBVIOUS
    <2>1. log = <<>> /\ Len(log) = 0 /\ \A n \in 1..Len(log) : FALSE
        BY DEF Init
    <2>2. TypeOK
        BY <2>1, LimiterAssumption DEF Init, TypeOK
    <2>3. \A k \in Keys : Remembers(k)
        BY <2>1 DEF Init, Remembers
    <2>4. TwiceCeiling
        BY <2>1, SilentIsLow DEF TwiceCeiling, Granted, GrantsIn
    <2> QED
        BY <2>1, <2>2, <2>3, <2>4 DEF Inv, Logged, RefusedForCause
<1>2. Inv /\ [Next]_vars => Inv'
    <2> SUFFICES ASSUME Inv, [Next]_vars PROVE Inv'
        OBVIOUS
    <2>1. ASSUME NEW h \in Handlers, NEW ip \in Ips, NEW email \in Emails, ChargeIp(h, ip, email)
          PROVE  Inv'
        <3>1. ip \in Keys /\ Charge(ip) /\ now' = now
            BY <2>1 DEF ChargeIp, Keys
        <3>2. handler' \in [Handlers -> {Idle} \cup [email : Emails]]
            BY <2>1 DEF ChargeIp, Inv, TypeOK
        <3> QED
            BY <3>1, <3>2, ChargeKeeps
    <2>2. ASSUME NEW h \in Handlers, ChargeEmail(h)
          PROVE  Inv'
        <3>1. handler[h] \in [email : Emails]
            BY <2>2 DEF ChargeEmail, Inv, TypeOK
        <3>2. handler[h].email \in Keys /\ Charge(handler[h].email) /\ now' = now
            BY <2>2, <3>1 DEF ChargeEmail, Keys
        <3>3. handler' \in [Handlers -> {Idle} \cup [email : Emails]]
            BY <2>2 DEF ChargeEmail, Inv, TypeOK
        <3> QED
            BY <3>2, <3>3, ChargeKeeps
    <2>3. CASE Tick
        <3>1. /\ now' = now + 1 /\ now' \in 0..MaxTime /\ now \in Nat
              /\ entries' = entries /\ handler' = handler /\ log' = log
            BY <2>3, LimiterAssumption DEF Tick, Inv, TypeOK
        <3>2. TypeOK' /\ TwiceCeiling' /\ RefusedForCause'
            BY <3>1 DEF Inv, TypeOK, TwiceCeiling, RefusedForCause, Granted
        <3>3. Logged'
            <4> SUFFICES ASSUME NEW n \in 1..Len(log) PROVE log[n].at <= now + 1
                BY <3>1 DEF Logged
            <4>1. log \in Seq(Decision)
                BY DEF Inv, TypeOK, Decision
            <4>2. log[n] \in Decision
                BY <4>1
            <4>3. log[n].at \in Int
                BY <4>2, LimiterAssumption DEF Decision
            <4> QED
                BY <3>1, <4>3 DEF Inv, Logged
        <3>4. ASSUME NEW k \in Keys
              PROVE  Remembers(k)'
            <4>1. Remembers(k) /\ (entries[k] # NoEntry => entries[k].end \in Nat)
                BY EntryKinds DEF Inv
            <4>2. entries[k] # NoEntry => entries[k].end - Window <= now + 1
                BY <3>1, <4>1, LimiterAssumption DEF Remembers
            <4> QED
                BY <3>1, <4>1, <4>2 DEF Remembers
        <3> QED
            BY <3>2, <3>3, <3>4 DEF Inv
    <2>4. CASE Restart
        <3>1. /\ log' = <<>> /\ Len(log') = 0 /\ \A n \in 1..Len(log') : FALSE
              /\ now' = now /\ entries' = [k \in Keys |-> NoEntry]
              /\ handler' = [h \in Handlers |-> Idle]
            BY <2>4 DEF Restart
        <3>2. TypeOK'
            BY <3>1 DEF Inv, TypeOK
        <3>3. \A k \in Keys : Remembers(k)'
            BY <3>1 DEF Remembers
        <3>4. TwiceCeiling'
            BY <3>1, SilentIsLow DEF TwiceCeiling, Granted, GrantsIn
        <3> QED
            BY <3>1, <3>2, <3>3, <3>4 DEF Inv, Logged, RefusedForCause
    <2>5. CASE UNCHANGED vars
        BY <2>5 DEF vars, Inv, TypeOK, Logged, TwiceCeiling, RefusedForCause, Granted,
                    Remembers
    <2> QED
        BY <2>1, <2>2, <2>3, <2>4, <2>5 DEF Next
<1> QED
    BY <1>1, <1>2, PTL DEF Spec

\* Entries, requests and decisions have their types.
THEOREM TypeCorrect == Spec => []TypeOK
<1>1. Inv => TypeOK
    BY DEF Inv
<1> QED
    BY <1>1, Invariant, PTL

\* A restart apart, no stretch of a window's length sees more than twice the ceiling of a
\* key, for any ceilings and windows: it meets two windows at most.
THEOREM CeilingTwice == Spec => []TwiceCeiling
<1>1. Inv => TwiceCeiling
    BY DEF Inv
<1> QED
    BY <1>1, Invariant, PTL

\* Whom a key refuses, it has let its ceiling of requests pass within the last window's
\* length, those counted that the other key then refused.
THEOREM RefusalHasCause == Spec => []RefusedForCause
<1>1. Inv => RefusedForCause
    BY DEF Inv
<1> QED
    BY <1>1, Invariant, PTL
=============================================================================
