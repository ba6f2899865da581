------------------------------ MODULE Workspace -----------------------------
(***************************************************************************)
(* The local registers of a signed-in browser (useWorkspace.ts) against the *)
(* server's records.  A mutation is sent, stored by the server and, when    *)
(* the answer comes, applied to the local register; a reload reads each     *)
(* register by a call of its own and applies the answers together.  Nothing *)
(* keeps these from overlapping: the pages work while the first load is     *)
(* still on its way, a restore reloads, buttons stay enabled.               *)
(***************************************************************************)
EXTENDS Naturals, Sequences, FiniteSets

CONSTANTS
    Ids,         \* record ids; the expectations and the settings have fixed ones
    Kinds,       \* the registers, each read by a call of its own
    KindOf,
    Calls,       \* asynchronous calls of the page in flight at a time
    MaxWrites,   \* bound: versions written, here and elsewhere
    MaxFaults    \* bound: lost calls and answers

Lists   == {"expense", "recurring", "income", "income_event"}
Singles == {"expectations", "settings"}

ASSUME WorkspaceAssumption ==
    /\ Kinds \subseteq Lists \cup Singles
    /\ KindOf \in [Ids -> Kinds]
    /\ MaxWrites \in Nat \ {0} /\ MaxFaults \in Nat

VARIABLES
    store,      \* the server's version of every record, 0 when there is none
    local,      \* per id, the versions the page shows: none, one, or more
    call,       \* the asynchronous calls in flight
    loadError,  \* what the hub shows of the last load
    used,       \* ids handed out by newId, or stored before
    writes, faults,
    suspect     \* history: ids whose calls overlapped, or whose answer was lost,
                \* or that changed elsewhere, since they were last loaded in peace

vars == <<store, local, call, loadError, used, writes, faults, suspect>>

Versions == 1..MaxWrites
Idle     == [op |-> "idle"]
Change   == [op : {"add", "update", "upsert", "remove"}, id : Ids, ver : Versions \cup {0},
             phase : {"sent", "stored"}]
Load     == [op : {"load"}, unread : SUBSET Kinds, seen : [Ids -> Versions \cup {0}],
             touched : SUBSET Ids]

Changing(c, i) == call[c].op \notin {"idle", "load"} /\ call[c].id = i
Loading(c)     == call[c].op = "load"
Pending(i)     == \E c \in Calls : Changing(c, i)

Shown(v) == IF v = 0 THEN <<>> ELSE <<v>>

\* The history of the loads in flight: what they have read of i may be old.
Touch(i) ==
    [c \in Calls |-> IF Loading(c) THEN [call[c] EXCEPT !.touched = @ \cup {i}] ELSE call[c]]

-----------------------------------------------------------------------------
(* What an answered mutation does to the register. *)

\* saveExpense puts the new expense in front; updateExpense maps over the list.
Prepended(vs, v) == <<v>> \o vs
Mapped(vs, v)    == [n \in DOMAIN vs |-> v]

\* upsert: replace in place, or put in front.
Upserted_Prepends(vs, v) == <<v>> \o vs
Upserted(vs, v) == IF vs = <<>> THEN <<v>> ELSE Mapped(vs, v)

Applied(k, vs) ==
    CASE k.op = "add"    -> Prepended(vs, k.ver)
      [] k.op = "update" -> Mapped(vs, k.ver)
      [] k.op = "upsert" -> Upserted(vs, k.ver)
      [] k.op = "remove" -> <<>>

-----------------------------------------------------------------------------
(* A mutation.  A new record has a new id; the others are picked from what   *)
(* the page shows.  The two single records are saved under their fixed ids.  *)

Ops(i) ==
    IF KindOf[i] \in Singles THEN {"upsert"}
    ELSE IF i \notin used THEN {IF KindOf[i] = "expense" THEN "add" ELSE "upsert"}
    ELSE IF local[i] = <<>> THEN {}
    ELSE {IF KindOf[i] = "expense" THEN "update" ELSE "upsert", "remove"}

Begin(c, i, op) ==
    /\ call[c] = Idle
    /\ op \in Ops(i)
    /\ writes < MaxWrites
    /\ writes' = writes + 1
    /\ call' = [Touch(i) EXCEPT ![c] =
          [op |-> op, id |-> i, ver |-> IF op = "remove" THEN 0 ELSE writes', phase |-> "sent"]]
    /\ used' = used \cup {i}
    /\ suspect' = IF Pending(i) THEN suspect \cup {i} ELSE suspect
    /\ UNCHANGED <<store, local, loadError, faults>>

Store(c) ==
    /\ call[c].op \in {"add", "update", "upsert", "remove"} /\ call[c].phase = "sent"
    /\ store' = [store EXCEPT ![call[c].id] = call[c].ver]
    /\ call' = [call EXCEPT ![c].phase = "stored"]
    /\ UNCHANGED <<local, loadError, used, writes, faults, suspect>>

Answer(c) ==
    /\ call[c].op \in {"add", "update", "upsert", "remove"} /\ call[c].phase = "stored"
    /\ local' = [local EXCEPT ![call[c].id] = Applied(call[c], @)]
    /\ call' = [call EXCEPT ![c] = Idle]
    /\ UNCHANGED <<store, loadError, used, writes, faults, suspect>>

\* The call or its answer is lost, or refused: the form shows an error, the register
\* stays as it is.
Lose(c) ==
    /\ call[c].op \in {"add", "update", "upsert", "remove"}
    /\ faults < MaxFaults
    /\ faults' = faults + 1
    /\ suspect' = IF call[c].phase = "stored" THEN suspect \cup {call[c].id} ELSE suspect
    /\ call' = [call EXCEPT ![c] = Idle]
    /\ UNCHANGED <<store, local, loadError, used, writes>>

-----------------------------------------------------------------------------
(* reload: Promise.all over the registers' lists. *)

NewLoad == [op |-> "load", unread |-> Kinds, seen |-> [i \in Ids |-> 0],
            touched |-> {i \in Ids : Pending(i)}]

Reload(c) ==
    /\ call[c] = Idle
    /\ call' = [call EXCEPT ![c] = NewLoad]
    /\ loadError' = FALSE
    /\ UNCHANGED <<store, local, used, writes, faults, suspect>>

\* The server reads one register for one of the calls.
Read(c, k) ==
    /\ Loading(c) /\ k \in call[c].unread
    /\ call' = [call EXCEPT
          ![c].unread = @ \ {k},
          ![c].seen   = [i \in Ids |-> IF KindOf[i] = k THEN store[i] ELSE @[i]]]
    /\ UNCHANGED <<store, local, loadError, used, writes, faults, suspect>>

Complete_First(c) == call[c].unread # Kinds
Complete(c) == call[c].unread = {}

Apply(c) ==
    /\ Loading(c) /\ Complete(c)
    /\ local' = [i \in Ids |-> Shown(call[c].seen[i])]
    /\ call' = [call EXCEPT ![c] = Idle]
    /\ suspect' = call[c].touched
    /\ UNCHANGED <<store, loadError, used, writes, faults>>

FailLoad_Waits(c) ==
    /\ Loading(c)
    /\ faults < MaxFaults
    /\ faults' = faults + 1
    /\ loadError' = TRUE
    /\ call' = [call EXCEPT ![c].unread = {"never answered"}]
    /\ UNCHANGED <<store, local, used, writes, suspect>>

\* One list refused, or one record that does not decrypt, fails the whole load.
FailLoad(c) ==
    /\ Loading(c)
    /\ faults < MaxFaults
    /\ faults' = faults + 1
    /\ loadError' = TRUE
    /\ call' = [call EXCEPT ![c] = Idle]
    /\ UNCHANGED <<store, local, used, writes, suspect>>

\* Another browser of the user saves or removes a record.
Elsewhere(i, v) ==
    /\ writes < MaxWrites
    /\ v \in {0, writes + 1}
    /\ writes' = writes + 1
    /\ store' = [store EXCEPT ![i] = v]
    /\ used' = used \cup {i}
    /\ suspect' = suspect \cup {i}
    /\ call' = Touch(i)
    /\ UNCHANGED <<local, loadError, faults>>

-----------------------------------------------------------------------------
\* HomePage is mounted over a store the page knows nothing of; its effect loads.
Init ==
    /\ \E there \in SUBSET Ids :
          /\ store = [i \in Ids |-> IF i \in there THEN 1 ELSE 0]
          /\ used = there
    /\ local = [i \in Ids |-> <<>>]
    /\ \E c \in Calls :
          call = [d \in Calls |->
                    IF d = c THEN [op |-> "load", unread |-> Kinds,
                                   seen |-> [i \in Ids |-> 0], touched |-> {}]
                    ELSE Idle]
    /\ loadError = FALSE
    /\ writes = 1 /\ faults = 0
    /\ suspect = Ids

\* What goes on without the user: the network, the server, the answers.
Progress(c) ==
    \/ Store(c) \/ Answer(c) \/ Lose(c)
    \/ \E k \in Kinds : Read(c, k)
    \/ Apply(c) \/ FailLoad(c)

Next ==
    \/ \E c \in Calls, i \in Ids : \E op \in Ops(i) : Begin(c, i, op)
    \/ \E c \in Calls : Reload(c) \/ Progress(c)
    \/ \E i \in Ids, v \in {0, writes + 1} : Elsewhere(i, v)

\* A fetch settles: it is answered or it fails.
Fairness == \A c \in Calls : WF_vars(Progress(c))

Spec == Init /\ [][Next]_vars /\ Fairness

-----------------------------------------------------------------------------
(* Properties.                                                             *)

TypeOK ==
    /\ store \in [Ids -> Versions \cup {0}]
    /\ local \in [Ids -> Seq(Versions)]
    /\ call \in [Calls -> {Idle} \cup Change \cup Load]
    /\ loadError \in BOOLEAN
    /\ used \subseteq Ids
    /\ writes \in Versions
    /\ faults \in 0..MaxFaults
    /\ suspect \subseteq Ids

\* The page shows of every record exactly what the server has of it, once, unless a call
\* for it is under way, or something disturbed it since the last load: a load that
\* overlapped one of its calls, two calls for it at once, a lost answer, another browser.
ShownIsStored ==
    \A i \in Ids : i \notin suspect /\ ~Pending(i) => local[i] = Shown(store[i])

\* Whatever overlaps with what, only an expense can be shown twice: all other registers
\* are upserted.
OnlyExpensesDouble ==
    \A i \in Ids : Len(local[i]) > 1 => KindOf[i] = "expense" /\ i \in suspect

\* Every save, removal and load comes to an end for the user: the form is done or says
\* that it failed, the load is applied or reports an error.
Settles == \A c \in Calls : (call[c] # Idle) ~> (call[c] = Idle)
=============================================================================
