----------------------------- MODULE UserStore -----------------------------
(***************************************************************************)
(* What the record API promises a user: a store of its own (delivery-brief *)
(* section 3, "opaque blobs keyed by user_id + type + id").  A call takes  *)
(* effect once, at one moment between asking and the answer, on the store  *)
(* of the user who asked; a call that is not answered "ok" has no effect.  *)
(* The promise stops at the ids that several users save under: there a put *)
(* may be answered "ok" and be lost.                                       *)
(***************************************************************************)
CONSTANTS
    Users, Ids, Kinds, Values, Calls,
    Shared  \* the ids of several users

VARIABLES
    view,  \* per user: id -> entry
    task   \* per call: what was asked and how it was answered

Entry  == [kind : Kinds, val : Values]
Absent == [gone |-> TRUE]
NoTask == [state |-> "none"]

\* What was asked, before any answer.
Asked(u, op, i, k, v) ==
    [state |-> "pending", user |-> u, op |-> op, id |-> i, kind |-> k, val |-> v, got |-> {}]

Begin(c) ==
    /\ task[c] = NoTask
    /\ \E u \in Users, op \in {"list", "put", "delete"}, i \in Ids, k \in Kinds, v \in Values :
          task' = [task EXCEPT ![c] = Asked(u, op, i, k, v)]
    /\ UNCHANGED view

\* A put replaces the record whole, its kind included.
Effect(t) ==
    CASE t.op = "put"    -> [view EXCEPT ![t.user][t.id] = [kind |-> t.kind, val |-> t.val]]
      [] t.op = "delete" -> [view EXCEPT ![t.user][t.id] = Absent]
      [] t.op = "list"   -> view

Answered(t, why, got) ==
    [state |-> why, user |-> t.user, op |-> t.op, id |-> t.id, kind |-> t.kind, val |-> t.val,
     got |-> got]

Result(t) ==
    IF t.op = "list"
    THEN {<<i, view[t.user][i].val>> :
             i \in {j \in Ids : view[t.user][j] # Absent /\ view[t.user][j].kind = t.kind}}
    ELSE {}

Finish(c) ==
    /\ task[c].state = "pending"
    /\ view' = Effect(task[c])
    /\ task' = [task EXCEPT ![c] = Answered(@, "ok", Result(@))]

Lose(c) ==
    /\ task[c].state = "pending"
    /\ task[c].op = "put"
    /\ task[c].id \in Shared
    /\ task' = [task EXCEPT ![c] = Answered(@, "ok", {})]
    /\ UNCHANGED view

Decline(c, why) ==
    /\ task[c].state = "pending"
    /\ task' = [task EXCEPT ![c] = Answered(@, why, {})]
    /\ UNCHANGED view

Forget(c) ==
    /\ task[c].state \notin {"none", "pending"}
    /\ task' = [task EXCEPT ![c] = NoTask]
    /\ UNCHANGED view

Init ==
    /\ view = [u \in Users |-> [i \in Ids |-> Absent]]
    /\ task = [c \in Calls |-> NoTask]

Next ==
    \E c \in Calls :
       \/ Begin(c)
       \/ Finish(c)
       \/ Lose(c)
       \/ \E why \in {"refused", "error"} : Decline(c, why)
       \/ Forget(c)

Spec == Init /\ [][Next]_<<view, task>>
=============================================================================
