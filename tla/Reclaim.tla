------------------------------ MODULE Reclaim -------------------------------
(***************************************************************************)
(* ReclaimPoolless (internal/reconcile/reconcile.go): the periodic sweep   *)
(* that stops or deletes idle machines outside of pools.  On a provider    *)
(* that bills by the period it waits for the window before the end of a    *)
(* paid period, and acquisitions that wait in the queue keep the machines  *)
(* they could use.                                                         *)
(*                                                                         *)
(* A sweep takes no time on the clock, but everyone else may step between  *)
(* its transactions.  Sweeps are at most Interval apart (its timer); other *)
(* components may wake it earlier.                                         *)
(***************************************************************************)
EXTENDS Accounting

CONSTANTS
    Rows,         \* rows of one class
    Acqs,         \* acquisitions of the class
    Classes,      \* class policies a behaviour may have
    Interval_,    \* Config.Interval
    Slack,        \* the constant part of the buffer's floor
    Margin,       \* margin over the p95 of an adaptive buffer
    CacheFor,     \* how long an adaptive buffer is cached
    Observations, \* lists of delete durations RecentTerminal may return
    Budget,       \* Config.MaxMutationsPerCycle, for drained rows
    CostBudget,   \* the sweep's own bound on reclaims (50 in the code)
    MaxWait,      \* queue budget of an acquisition, 0 for none
    MaxStart,     \* bound: machines are created up to this time
    MaxActors,    \* bound: machines and acquisitions of a behaviour
    MaxTime       \* bound: the clock

ASSUME TimesAssumption ==
    /\ Interval_ \in Nat \ {0} /\ Slack \in Nat /\ Margin \in Nat
    /\ CacheFor \in Nat /\ Budget \in Nat /\ CostBudget \in Nat /\ MaxWait \in Nat
    /\ MaxStart \in Nat /\ MaxActors \in Nat /\ MaxTime \in Nat
    /\ Observations \subseteq Seq(Nat)

(* A class: its reclaim policy and the billing of its provider.            *)
ASSUME ClassesAssumption ==
    Classes \subseteq [idleAfter : Nat, park : BOOLEAN, deleteAfter : Nat,
                       billing : Policy, adaptive : BOOLEAN]

VARIABLES
    now,       \* the clock
    class,     \* the class of all rows
    phase,     \* phase of each row: "none" before, "gone" after its life
    created,   \* created_at
    since,     \* idleSinceOf: the later of ready_at and last_lease_ended_at
    parkedAt,  \* parked_at
    protected, \* delete_protected
    leases,    \* spans of the leases of each row, by acquisition
    acq,       \* new | pending | bound | done
    deadline,  \* end of the queue budget of a pending acquisition, 0 if it
               \* has none; when it was bound in time, the time of that
    op,        \* when the delete of a row was journaled
    cache,     \* adaptiveCache: the buffer and when it was computed
    lastSweep, \* when the last sweep began
    sweep      \* the running sweep: rows to visit and how they were listed,
               \* unmatched acquisitions, budgets

rowVars == <<phase, created, since, parkedAt, protected, op>>
vars == <<now, class, rowVars, leases, acq, deadline, cache, lastSweep, sweep>>

NoSweep == [on |-> FALSE, todo |-> {}, snap |-> [r \in Rows |-> "none"],
            unmatched |-> {}, budget |-> 0, cost |-> 0]
NoCache == [buffer |-> 0, at |-> 0 - CacheFor]

Init ==
    /\ now = 1 /\ class \in Classes
    /\ phase = [r \in Rows |-> "none"]
    /\ created = [r \in Rows |-> 0] /\ since = [r \in Rows |-> 0]
    /\ parkedAt = [r \in Rows |-> 0] /\ op = [r \in Rows |-> 0]
    /\ protected \in SUBSET Rows
    /\ leases = [r \in Rows |-> {}]
    /\ acq = [a \in Acqs |-> "new"] /\ deadline = [a \in Acqs |-> 0]
    /\ cache = NoCache /\ lastSweep = 1 /\ sweep = NoSweep

In(phases) == {r \in Rows : phase[r] \in phases}
Active(r) == {l \in leases[r] : l.end = 0}

(* Pending acquisitions within their queue budget.  One class: every row   *)
(* satisfies every acquisition.                                            *)
Queued == {a \in Acqs : acq[a] = "pending" /\ (deadline[a] = 0 \/ now <= deadline[a])}

-----------------------------------------------------------------------------
(* The reclaim decision for a row *)

Parks == class.park

Base == EffectiveBuffer(class.billing, Interval_, Slack)

(* effectiveBuffer: the floor, or for an adaptive policy the larger of the *)
(* floor and the cached or freshly computed buffer.  RecentTerminal names  *)
(* a column that the table does not have and its error is dropped, so the  *)
(* code observes no durations at present: {<<>>} is among Observations.    *)
Fresh(observed) ==
    [buffer |-> AdaptiveBuffer(observed, Base, Margin, class.billing.increment \div 2),
     at |-> now]
Caches == IF ~class.adaptive \/ now - cache.at < CacheFor
          THEN {cache} ELSE {Fresh(o) : o \in Observations}
BufferOf(c) == IF class.adaptive /\ c.buffer > Base THEN c.buffer ELSE Base

(* Where the clock stands in the termination window, "terminate" when      *)
(* there is none.                                                          *)
InWindow(r, buffer) ==
    LET b == NextBoundary(created[r], class.billing, now)
    IN  IF FineGrained(class.billing) \/ b = NoBoundary THEN "terminate"
        ELSE Decide(Window(b, buffer), now)

(* Whether a row is due, by the time it was idle or parked.                *)
Due(r) ==
    \/ /\ phase[r] = "ready" /\ class.idleAfter > 0
       /\ now - since[r] >= class.idleAfter
    \/ /\ phase[r] = "parked" /\ class.deleteAfter > 0
       /\ now - parkedAt[r] >= class.deleteAfter

-----------------------------------------------------------------------------
(* Transactions on a row *)

(* Times that no reader of the row in its new phase looks at are dropped.  *)
SetPhase(r, to) ==
    /\ phase' = [phase EXCEPT ![r] = to]
    /\ since' = [since EXCEPT ![r] = IF to \in {"ready", "allocated"} THEN @ ELSE 0]

(* journalDeleteInTx: protection and lease gates.                          *)
JournalDeleteGate(r) == r \notin protected /\ Active(r) = {}
JournalDeleteInTx(r) ==
    /\ SetPhase(r, "deleting")
    /\ op' = [op EXCEPT ![r] = now]
    /\ UNCHANGED <<created, parkedAt, protected>>

(* Mutant: trusts the queue that the sweep has read.                       *)
CostReclaimGateStale(r, from) == phase[r] = from /\ JournalDeleteGate(r)

(* costReclaim: all gates again, and the queued acquisitions must not      *)
(* outnumber the ready rows that remain.                                   *)
CostReclaimGate(r, from) ==
    /\ phase[r] = from /\ JournalDeleteGate(r)
    /\ Cardinality(Queued) <= Cardinality(In({"ready"}) \ {r})

JournalStopGate(r) ==
    phase[r] = "ready" /\ r \notin protected /\ Active(r) = {}
JournalStop(r) ==
    /\ SetPhase(r, "parking")
    /\ UNCHANGED <<created, parkedAt, protected, op>>

-----------------------------------------------------------------------------
(* The sweep.  Rows are listed once: which are due, and in which phase, is *)
(* decided on the list, and the transactions check the phase again.        *)

StartSweep ==
    /\ ~sweep.on
    /\ sweep' = [on |-> TRUE,
                 todo |-> In({"draining"})
                            \cup {r \in In({"ready", "parked"}) : Due(r) /\ r \notin protected},
                 snap |-> phase, unmatched |-> Queued,
                 budget |-> Budget, cost |-> CostBudget]
    /\ lastSweep' = now
    /\ UNCHANGED <<now, class, rowVars, leases, acq, deadline, cache>>

Visit(r, listed) == sweep.on /\ r \in sweep.todo /\ sweep.snap[r] = listed
Visited(r, spent, cost) ==
    sweep' = [sweep EXCEPT !.todo = @ \ {r}, !.budget = @ - spent, !.cost = @ - cost]
Skip(r) == Visited(r, 0, 0) /\ UNCHANGED <<rowVars, cache>>

(* claimQueued: a queued acquisition keeps one row for itself.             *)
Claim(r) ==
    /\ \E a \in sweep.unmatched :
          sweep' = [sweep EXCEPT !.todo = @ \ {r}, !.unmatched = @ \ {a}]
    /\ UNCHANGED <<rowVars, cache>>

SweepDraining(r) ==
    /\ Visit(r, "draining")
    /\ IF sweep.budget > 0 /\ phase[r] = "draining" /\ JournalDeleteGate(r)
       THEN JournalDeleteInTx(r) /\ Visited(r, 1, 0) /\ UNCHANGED cache
       ELSE Skip(r)

(* Stage 2: a row that has been parked for deleteAfter is deleted.         *)
SweepParked(r) ==
    /\ Visit(r, "parked")
    /\ IF sweep.cost = 0 THEN Skip(r)
       ELSE IF sweep.unmatched # {} THEN Claim(r)
       ELSE IF CostReclaimGate(r, "parked")
       THEN JournalDeleteInTx(r) /\ Visited(r, 0, 1) /\ UNCHANGED cache
       ELSE Skip(r)

(* Stage 1: an idle row is stopped, or deleted, in its window.             *)
Dispose(r) ==
    IF Parks
    THEN IF JournalStopGate(r) THEN JournalStop(r) /\ Visited(r, 0, 1)
         ELSE Visited(r, 0, 0) /\ UNCHANGED rowVars
    ELSE IF CostReclaimGate(r, "ready") THEN JournalDeleteInTx(r) /\ Visited(r, 0, 1)
         ELSE Visited(r, 0, 0) /\ UNCHANGED rowVars

SweepReady(r) ==
    /\ Visit(r, "ready")
    /\ IF sweep.cost = 0 THEN Skip(r)
       ELSE IF sweep.unmatched # {} THEN Claim(r)
       ELSE \E c \in Caches :
              /\ cache' = c
              /\ IF InWindow(r, BufferOf(c)) = "terminate" THEN Dispose(r)
                 ELSE Visited(r, 0, 0) /\ UNCHANGED rowVars

EndSweep ==
    /\ sweep.on /\ sweep.todo = {} /\ sweep' = NoSweep
    /\ UNCHANGED <<now, class, rowVars, leases, acq, deadline, cache, lastSweep>>

ReclaimPoolless ==
    /\ \E r \in Rows : SweepDraining(r) \/ SweepParked(r) \/ SweepReady(r)
    /\ UNCHANGED <<now, class, leases, acq, deadline, lastSweep>>

-----------------------------------------------------------------------------
(* The clock, the rows and the acquisitions around the sweep *)

Tick ==
    /\ ~sweep.on /\ now < MaxTime
    /\ now < lastSweep + Interval_
    /\ now' = now + 1
    /\ UNCHANGED <<class, rowVars, leases, acq, deadline, cache, lastSweep, sweep>>

Room == Cardinality({r \in Rows : phase[r] # "none"})
          + Cardinality({a \in Acqs : acq[a] # "new"}) < MaxActors

(* A machine comes up (its creation takes no time here).                   *)
Provision(r) ==
    /\ now <= MaxStart /\ phase[r] = "none" /\ Room
    /\ phase' = [phase EXCEPT ![r] = "ready"]
    /\ created' = [created EXCEPT ![r] = now] /\ since' = [since EXCEPT ![r] = now]
    /\ UNCHANGED <<now, class, parkedAt, protected, op, leases, acq, deadline,
                   cache, lastSweep, sweep>>

(* A start succeeds: ready_at.                                             *)
BecomeReady(r) ==
    /\ phase[r] = "starting"
    /\ phase' = [phase EXCEPT ![r] = "ready"] /\ since' = [since EXCEPT ![r] = now]
    /\ UNCHANGED <<now, class, created, parkedAt, protected, op, leases, acq, deadline,
                   cache, lastSweep, sweep>>

(* A stop succeeds: parked_at.                                             *)
BecomeParked(r) ==
    /\ phase[r] = "parking" /\ SetPhase(r, "parked")
    /\ parkedAt' = [parkedAt EXCEPT ![r] = now]
    /\ UNCHANGED <<now, class, created, protected, op, leases, acq, deadline,
                   cache, lastSweep, sweep>>

BecomeGone(r) ==
    /\ phase[r] = "deleting" /\ SetPhase(r, "gone")
    /\ created' = [created EXCEPT ![r] = 0] /\ parkedAt' = [parkedAt EXCEPT ![r] = 0]
    /\ op' = [op EXCEPT ![r] = 0] /\ leases' = [leases EXCEPT ![r] = {}]
    /\ UNCHANGED <<now, class, protected, acq, deadline, cache, lastSweep, sweep>>

Drain(r) ==
    /\ phase[r] \in {"ready", "allocated"} /\ SetPhase(r, "draining")
    /\ UNCHANGED <<now, class, created, parkedAt, protected, op, leases, acq,
                   deadline, cache, lastSweep, sweep>>

Enqueue(a) ==
    /\ acq[a] = "new" /\ Room /\ acq' = [acq EXCEPT ![a] = "pending"]
    /\ deadline' = [deadline EXCEPT ![a] = IF MaxWait = 0 THEN 0 ELSE now + MaxWait]
    /\ UNCHANGED <<now, class, rowVars, leases, cache, lastSweep, sweep>>

(* A pending acquisition gets a share of a row.                            *)
Bind(a, r) ==
    /\ acq[a] = "pending" /\ acq' = [acq EXCEPT ![a] = "bound"]
    /\ phase[r] \in {"ready", "allocated"} /\ SetPhase(r, "allocated")
    /\ leases' = [leases EXCEPT ![r] = @ \cup {[by |-> a, start |-> now, end |-> 0]}]
    /\ deadline' = [deadline EXCEPT ![a] = IF a \in Queued THEN now ELSE @]
    /\ UNCHANGED <<now, class, created, parkedAt, protected, op, cache, lastSweep, sweep>>

(* The scheduler starts a parked row for a pending acquisition.            *)
Start(r) ==
    /\ \E a \in Acqs : acq[a] = "pending"
    /\ phase[r] = "parked" /\ SetPhase(r, "starting")
    /\ parkedAt' = [parkedAt EXCEPT ![r] = 0]
    /\ UNCHANGED <<now, class, created, protected, op, leases, acq, deadline, cache,
                   lastSweep, sweep>>

(* A lease ends: last_lease_ended_at, and the row is ready after its last. *)
Release(a, r) ==
    /\ \E l \in Active(r) :
          /\ l.by = a
          /\ leases' = [leases EXCEPT ![r] = (@ \ {l}) \cup {[l EXCEPT !.end = now]}]
          /\ phase' = [phase EXCEPT ![r] =
                          IF @ = "allocated" /\ Active(r) = {l} THEN "ready" ELSE @]
    /\ acq' = [acq EXCEPT ![a] = "done"]
    /\ since' = [since EXCEPT ![r] = IF phase[r] = "allocated" THEN now ELSE @]
    /\ UNCHANGED <<now, class, created, parkedAt, protected, op, deadline, cache,
                   lastSweep, sweep>>

Others ==
    \/ \E r \in Rows : \/ Provision(r) \/ BecomeReady(r) \/ BecomeParked(r)
                       \/ BecomeGone(r) \/ Drain(r) \/ Start(r)
    \/ \E a \in Acqs : Enqueue(a) \/ \E r \in Rows : Bind(a, r) \/ Release(a, r)

Next == Tick \/ StartSweep \/ ReclaimPoolless \/ EndSweep \/ Others

Spec == Init /\ [][Next]_vars

-----------------------------------------------------------------------------
(* The reference for NextBoundary: the first instant from now on after     *)
(* which one more unit of lifetime costs more.                             *)
Jumps(r, t) == Paid(t + 1 - created[r], class.billing) > Paid(t - created[r], class.billing)
Costs(r, t) == Paid(t - created[r], class.billing)

(* Reclaimed by the sweep for its idleness (not after a drain).            *)
Reclaimed(r) == phase[r] = "ready" /\ phase'[r] \in {"deleting", "parking"}

(* A machine that is billed by the period is taken only at the end of one: *)
(* a delete that takes half a buffer costs no more than one that ends at   *)
(* once, and what is paid already lasts no longer than the buffer.         *)
ReclaimedInWindow ==
    [][\A r \in Rows : (Reclaimed(r) /\ class.billing.increment > 0) =>
          LET buffer == BufferOf(cache')
          IN  /\ Costs(r, now + buffer \div 2) = Costs(r, now + 1)
              /\ Costs(r, now + buffer + 1) > Costs(r, now + 1)]_vars

(* The acquisition is in the queue, or was at the time t or later.         *)
Wants(a, t) == acq[a] # "new" /\ (a \in Queued \/ t <= deadline[a])

(* Sweeps meet the window: a machine that was idle long enough when the    *)
(* window of a boundary opened, whether it has served leases before or     *)
(* not, is not there any more when the window has closed, unless an        *)
(* acquisition was in the queue since the window opened.                   *)
Whole(r, b) == b - Base >= since[r] + class.idleAfter
WindowMet ==
    \A r \in Rows :
       (phase[r] = "ready" /\ r \notin protected /\ class.idleAfter > 0
          /\ class.billing.increment > 0 /\ ~class.adaptive)
       => \A b \in created[r]..(now + Base) :
             (Jumps(r, b) /\ Whole(r, b) /\ \A a \in Acqs : ~Wants(a, b - Base))
             => now <= b - Base \div 2

(* No machine is deleted for its idleness while more acquisitions wait in  *)
(* the queue than ready machines are left for them.                        *)
QueueKeepsMachines ==
    [][\A r \in Rows :
          (phase[r] \in {"ready", "parked"} /\ phase'[r] = "deleting")
          => Cardinality(Queued) <= Cardinality(In({"ready"})')]_vars

(* Every delete that ended in a more expensive period than it was          *)
(* journaled in is counted as an overrun.  A period includes its first     *)
(* instant: what is journaled there pays for the period that begins.       *)
OverrunsCounted ==
    [][\A r \in Rows :
          (class.billing.increment > 0 /\ phase[r] = "deleting" /\ phase'[r] = "gone"
             /\ Costs(r, now) > Costs(r, op[r] + 1))
          => Overrun(created[r], class.billing, op[r], now)]_vars

(* Overlapping leases of one machine are not counted twice: the useful     *)
(* time is the number of time units in which it had a lease, and paid time *)
(* is useful or idle, nothing of it is lost to the clamp at zero.          *)
UsefulIsBusyTime ==
    \A r \in Rows :
       LET spans == {Interval(l.start, l.end) : l \in leases[r]}
           busy  == Cardinality({t \in 1..(now - 1) :
                       \E l \in leases[r] : l.start <= t /\ (l.end = 0 \/ t < l.end)})
       IN  /\ UsefulMillis(spans, now) = busy
           /\ PaidIdle(created[r], class.billing, spans, now) + busy = Costs(r, now)
=============================================================================
