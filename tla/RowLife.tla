------------------------------ MODULE RowLife -------------------------------
(***************************************************************************)
(* What the operation engine promises to everyone who looks at rows and    *)
(* operations (scheduler, reconciler, API clients), without journal        *)
(* states, clouds, lost answers, recovery or the engine's memory.  A row   *)
(* is worked on by one task at a time.  A task takes its row into a phase  *)
(* of its own, and ends once: in the same step the row leaves that phase   *)
(* for what the outcome says.  Nobody leases a row that is worked on, and  *)
(* a deleted row is never touched again.                                   *)
(*                                                                         *)
(* Module OperationEngine implements this.                                 *)
(***************************************************************************)
EXTENDS Phase

CONSTANTS Rows, Tasks, Null

VARIABLES
    life,      \* of each row: none, a phase, or deleted
    leased,    \* rows with a lease
    kind, row, \* of each task
    outcome    \* of each task: none, open, succeeded or failed

vars == <<life, leased, kind, row, outcome>>

Kinds == {"create", "delete", "stop", "start"}

(* Where a task may begin, the phase it works in, where it is to lead and  *)
(* where it may fall back to.                                              *)
Entries == [k \in Kinds |-> CASE k = "create" -> {"none"}
                              [] k = "delete" -> {p \in Phases : CanTransition(p, "deleting")}
                              [] k = "stop"   -> {"ready"}
                              [] k = "start"  -> {"parked"}]
During == [k \in Kinds |-> CASE k = "create" -> "provisioning"
                             [] k = "delete" -> "deleting"
                             [] k = "stop"   -> "parking"
                             [] k = "start"  -> "starting"]
Goal == [k \in Kinds |-> CASE k = "create" -> "ready"
                           [] k = "delete" -> "deleted"
                           [] k = "stop"   -> "parked"
                           [] k = "start"  -> "ready"]
Setbacks == [k \in Kinds |-> CASE k = "create" -> {"failed"}
                               [] k = "delete" -> {"failed"}
                               [] k = "stop"   -> {"ready"}
                               [] k = "start"  -> {"parked", "failed"}]

Init ==
    /\ life = [r \in Rows |-> "none"]
    /\ leased = {}
    /\ kind = [t \in Tasks |-> "none"]
    /\ row = [t \in Tasks |-> Null]
    /\ outcome = [t \in Tasks |-> "none"]

-----------------------------------------------------------------------------
Idle(r) == \A t \in Tasks : row[t] = r => outcome[t] # "open"

Begin(r, t, k) ==
    /\ outcome[t] = "none" /\ Idle(r)
    /\ life[r] \in Entries[k] /\ r \notin leased
    /\ life' = [life EXCEPT ![r] = During[k]]
    /\ kind' = [kind EXCEPT ![t] = k]
    /\ row' = [row EXCEPT ![t] = r]
    /\ outcome' = [outcome EXCEPT ![t] = "open"]
    /\ UNCHANGED leased

(* The outcome and the row change together.                                *)
Ends(t, how, to) ==
    /\ outcome[t] = "open" /\ life[row[t]] = During[kind[t]]
    /\ life' = [life EXCEPT ![row[t]] = to]
    /\ outcome' = [outcome EXCEPT ![t] = how]
    /\ UNCHANGED <<leased, kind, row>>

Succeed(t) == Ends(t, "succeeded", Goal[kind[t]])
Fail(t) == outcome[t] = "open" /\ \E p \in Setbacks[kind[t]] : Ends(t, "failed", p)

(* A row without a machine may be deleted under its create, which can then *)
(* only fail.                                                              *)
Forget(r) ==
    /\ life[r] \in {"provisioning", "failed"}
    /\ life' = [life EXCEPT ![r] = "deleted"]
    /\ UNCHANGED <<leased, kind, row, outcome>>

FailForgotten(t) ==
    /\ outcome[t] = "open" /\ kind[t] = "create" /\ life[row[t]] = "deleted"
    /\ outcome' = [outcome EXCEPT ![t] = "failed"]
    /\ UNCHANGED <<life, leased, kind, row>>

Lease(r) ==
    /\ life[r] = "ready"
    /\ life' = [life EXCEPT ![r] = "allocated"]
    /\ leased' = leased \cup {r}
    /\ UNCHANGED <<kind, row, outcome>>

EndLease(r) ==
    /\ r \in leased /\ life[r] = "allocated"
    /\ life' = [life EXCEPT ![r] = "ready"]
    /\ leased' = leased \ {r}
    /\ UNCHANGED <<kind, row, outcome>>

Next ==
    \/ \E r \in Rows, t \in Tasks, k \in Kinds : Begin(r, t, k)
    \/ \E t \in Tasks : Succeed(t) \/ Fail(t) \/ FailForgotten(t)
    \/ \E r \in Rows : Forget(r) \/ Lease(r) \/ EndLease(r)

Spec == Init /\ [][Next]_vars
=============================================================================
