---------------------------- MODULE Acquisitions -----------------------------
(***************************************************************************)
(* Acquisitions and leases: the scheduler (internal/scheduler), the lease  *)
(* manager (internal/lease) and the acquire handler (internal/app), over   *)
(* rows that the reconciler, discovery and the operator work on at the     *)
(* same time.                                                              *)
(*                                                                         *)
(* Goroutines: one API worker per acquisition, which runs Satisfy once     *)
(* after the acquisition is recorded; the sweeper, which runs              *)
(* Scheduler.Resume; and the engine's terminal callback.  Each reads rows  *)
(* outside any transaction, keeps what it read in memory, and acts on it   *)
(* later in transactions that are one step each.                           *)
(*                                                                         *)
(* The engine is seen through its contract (module OperationEngine): a row *)
(* in a transient phase has an open operation, which ends once, together   *)
(* with the phase.  All rows have one class and capacity.  Deadlines and   *)
(* timeouts are nondeterministic choices.                                  *)
(***************************************************************************)
EXTENDS Capacity, FiniteSets, Phase

CONSTANTS
    Resources, Acqs, Leases,
    Null,
    Sweeper,     \* the goroutine of the periodic Resume
    Total,       \* capacity vector of a machine of the class
    Requests     \* [constraints, exclusive, class, maxWait] of the callers

ASSUME AcquisitionsAssumption ==
    /\ Null \notin Resources \cup Acqs \cup Leases
    /\ Sweeper \notin Acqs \cup {Null}
    /\ \A q \in Requests :
         q.exclusive \in BOOLEAN /\ q.class \in BOOLEAN /\ q.maxWait \in BOOLEAN

(* Capacities are counts; a constraint may ask for any number.             *)
ASSUME VectorsAssumption ==
    /\ \A dim \in DOMAIN Total : Total[dim] \in Nat
    /\ \A q \in Requests : \A k \in DOMAIN q.constraints : q.constraints[k] \in Int

VARIABLES
    (* resource rows *)
    phase,       \* phase of each row; "none" before the row exists
    deleted,     \* rows with deleted_at set
    (* acquisition rows *)
    acqState,
    request,     \* stored request payload
    pending,     \* pending_resource_id
    leaseID,     \* lease_id
    (* lease rows *)
    leaseState,
    holder,      \* acquisition_id
    on,          \* resource_id
    (* memory of the process *)
    work,        \* what each worker does and has read
    ended,       \* the operation whose terminal callback runs
    waiting      \* acquisitions that the callback has still to resolve

rowVars   == <<phase, deleted>>
acqVars   == <<acqState, request, pending, leaseID>>
leaseVars == <<leaseState, holder, on>>
callback  == <<ended, waiting>>
vars == <<rowVars, acqVars, leaseVars, work, callback>>

-----------------------------------------------------------------------------
Workers   == Acqs \cup {Sweeper}
OpenAcq   == {"pending", "provisioning"}
AcqStates == OpenAcq \cup {"none", "bound", "released", "expired", "failed"}

(* Where a worker is: at the head of Satisfy, over the ranked candidates,  *)
(* over the parked machines, at the queue-or-scale decision, at the expiry *)
(* check of a pending acquisition; or, for a provisioning one, before and  *)
(* after it read the pre-bound row.                                        *)
Points == {"idle", "satisfy", "reserve", "start", "decide", "expire", "sweep",
           "settle"}
Busy(point, a, r) ==
    [pc |-> point, acq |-> a, rows |-> {}, row |-> r, verdict |-> "none"]
Idle == Busy("idle", Null, Null)

(* What becomes of an acquisition whose pre-bound row is settled: it binds *)
(* the row, fails with the row's create, or returns to pending because the *)
(* row's start failed.                                                     *)
Verdicts == {"bind", "fail", "repend"}
NoOp == [res |-> Null, verdict |-> "none", listed |-> FALSE]

TypeOK ==
    /\ phase \in [Resources -> Phases \cup {"none"}]
    /\ deleted \in SUBSET Resources
    /\ acqState \in [Acqs -> AcqStates]
    /\ request \in [Acqs -> Requests \cup {Null}]
    /\ pending \in [Acqs -> Resources \cup {Null}]
    /\ leaseID \in [Acqs -> Leases \cup {Null}]
    /\ leaseState \in [Leases -> {"none", "active", "released", "expired"}]
    /\ holder \in [Leases -> Acqs \cup {Null}]
    /\ on \in [Leases -> Resources \cup {Null}]
    /\ work \in [Workers -> [pc : Points, acq : Acqs \cup {Null}, rows : SUBSET Resources,
                             row : Resources \cup {Null}, verdict : Verdicts \cup {"none"}]]
    /\ ended \in [res : Resources \cup {Null}, verdict : Verdicts \cup {"none"},
                  listed : BOOLEAN]
    /\ waiting \in SUBSET Acqs

Init ==
    /\ phase = [r \in Resources |-> "none"]
    /\ deleted = {}
    /\ acqState = [a \in Acqs |-> "none"]
    /\ request = [a \in Acqs |-> Null]
    /\ pending = [a \in Acqs |-> Null]
    /\ leaseID = [a \in Acqs |-> Null]
    /\ leaseState = [l \in Leases |-> "none"]
    /\ holder = [l \in Leases |-> Null]
    /\ on = [l \in Leases |-> Null]
    /\ work = [w \in Workers |-> Idle]
    /\ ended = NoOp
    /\ waiting = {}

Live(r)    == phase[r] # "none" /\ r \notin deleted
Active(r)  == {l \in Leases : leaseState[l] = "active" /\ on[l] = r}
Want(a)    == WantFromConstraints(request[a].constraints)
Exclusive(a) == exclusive(request[a])
Used(r)    == SumActive([l \in Active(r) |-> Want(holder[l])])

-----------------------------------------------------------------------------
(* The acquire handler and the reservation transaction *)

(* Mutant: the acquisition is stored without its state. *)
AcquireStateless(a, q) ==
    /\ acqState[a] = "none"
    /\ acqState' = [acqState EXCEPT ![a] = Null]
    /\ request' = [request EXCEPT ![a] = q]
    /\ work' = [work EXCEPT ![a] = Busy("satisfy", a, Null)]
    /\ UNCHANGED <<rowVars, pending, leaseID, leaseVars, callback>>

(* Acquire records the acquisition and goes on to Satisfy. *)
Acquire(a, q) ==
    /\ acqState[a] = "none"
    /\ acqState' = [acqState EXCEPT ![a] = "pending"]
    /\ request' = [request EXCEPT ![a] = q]
    /\ work' = [work EXCEPT ![a] = Busy("satisfy", a, Null)]
    /\ UNCHANGED <<rowVars, pending, leaseID, leaseVars, callback>>

(* Transition, the CAS on the state of an acquisition. *)
AcqTransition(a, from, to) ==
    /\ acqState[a] = from
    /\ acqState' = [acqState EXCEPT ![a] = to]

(* Mutant: only whether a holder is exclusive is looked at. *)
RoomNotExclusive(a, r) ==
    /\ \A l \in Active(r) : ~Exclusive(holder[l])
    /\ Fits(Total, Used(r), Want(a))

(* The capacity terms of a reservation: an exclusive request wants an idle *)
(* machine, an exclusive holder blocks everyone, the rest must fit.        *)
Room(a, r) ==
    /\ Exclusive(a) => Active(r) = {}
    /\ \A l \in Active(r) : ~Exclusive(holder[l])
    /\ Fits(Total, Used(r), Want(a))

(* rankedCandidates, on a read snapshot. *)
rankedCandidates(a) ==
    {r \in Resources : Live(r) /\ phase[r] \in {"ready", "allocated"} /\ Room(a, r)}

(* Mutants of Reservable: the snapshot is trusted; Bind ignores the state. *)
ReservableUnchecked(a, r) ==
    Live(r) /\ phase[r] \in {"ready", "allocated"} /\ acqState[a] \in OpenAcq

ReservableAnyState(a, r) ==
    Live(r) /\ phase[r] \in {"ready", "allocated"} /\ Room(a, r)

(* What reserve checks again inside its transaction, with the sum over the *)
(* leases after the insert, and the acquisition still open for Bind.       *)
Reservable(a, r) ==
    /\ Live(r) /\ phase[r] \in {"ready", "allocated"}
    /\ Room(a, r)
    /\ \A dim \in DOMAIN Total : At(Used(r), dim) + At(Want(a), dim) <= Total[dim]
    /\ acqState[a] \in OpenAcq

(* reserve: lease, phase and acquisition in one transaction. *)
reserve(a, r) ==
    /\ Reservable(a, r)
    /\ \E l \in Leases :
         /\ leaseState[l] = "none"
         /\ leaseState' = [leaseState EXCEPT ![l] = "active"]
         /\ holder' = [holder EXCEPT ![l] = a]
         /\ on' = [on EXCEPT ![l] = r]
         /\ leaseID' = [leaseID EXCEPT ![a] = l]
    /\ phase' = [phase EXCEPT ![r] = "allocated"]
    /\ acqState' = [acqState EXCEPT ![a] = "bound"]
    /\ pending' = [pending EXCEPT ![a] = Null]
    /\ UNCHANGED <<deleted, request>>

-----------------------------------------------------------------------------
(* Satisfy: the ladder *)

Stands(w, point) == work[w].pc = point

(* The worker is at a point, with rows left to try there. *)
GoOn(w, point, S) == work' = [work EXCEPT ![w] = [@ EXCEPT !.pc = point, !.rows = S]]

(* Satisfy returns; the sweeper goes on to the expiry check.               *)
Return(w) ==
    work' = [work EXCEPT ![w] =
               IF w = Sweeper THEN [@ EXCEPT !.pc = "expire", !.rows = {}] ELSE Idle]

(* At most three of the candidates are tried, best-ranked first; ranking   *)
(* is abstracted to any three.                                             *)
MaxTries == 3

TopRanked(S) ==
    LET n == Cardinality(S) IN
    {T \in SUBSET S : Cardinality(T) = IF n < MaxTries THEN n ELSE MaxTries}

Satisfy(w) ==
    /\ Stands(w, "satisfy")
    /\ LET a == work[w].acq IN
         \/ /\ acqState[a] # "pending"
            /\ Return(w)
         \/ /\ acqState[a] = "pending"
            /\ \E S \in TopRanked(rankedCandidates(a)) :
                 GoOn(w, "reserve", S)
    /\ UNCHANGED <<rowVars, acqVars, leaseVars, callback>>

ReserveCandidate(w) ==
    /\ Stands(w, "reserve")
    /\ \E r \in work[w].rows : reserve(work[w].acq, r)
    /\ Return(w)
    /\ UNCHANGED <<callback>>

(* The candidate went, or the acquisition did: try the next one. *)
CandidateLost(w) ==
    /\ Stands(w, "reserve")
    /\ \E r \in work[w].rows :
         /\ ~Reservable(work[w].acq, r)
         /\ GoOn(w, "reserve", work[w].rows \ {r})
    /\ UNCHANGED <<rowVars, acqVars, leaseVars, callback>>

(* startParked goes over parked machines; with none left, Satisfy decides  *)
(* between waiting and scaling.                                            *)
Start(w, S) == GoOn(w, IF S = {} THEN "decide" ELSE "start", S)

(* startParked lists the parked machines that fit.  One whose start failed *)
(* is skipped while its backoff runs; backoff is a matter of time, so that *)
(* any of them may be.                                                     *)
ListParked(w) ==
    /\ Stands(w, "reserve") /\ work[w].rows = {}
    /\ \E S \in SUBSET {r \in Resources :
                          /\ Live(r) /\ phase[r] = "parked"
                          /\ Fits(Total, <<>>, Want(work[w].acq))} :
         /\ Cardinality(S) <= MaxTries
         /\ Start(w, S)
    /\ UNCHANGED <<rowVars, acqVars, leaseVars, callback>>

(* startParked: acquisition, start and pre-bind in one transaction.        *)
Startable(a, r) == acqState[a] = "pending" /\ Live(r) /\ phase[r] = "parked"

startParked(w) ==
    /\ Stands(w, "start")
    /\ \E r \in work[w].rows :
         LET a == work[w].acq IN
         /\ Startable(a, r)
         /\ AcqTransition(a, "pending", "provisioning")
         /\ phase' = [phase EXCEPT ![r] = "starting"]
         /\ pending' = [pending EXCEPT ![a] = r]
    /\ Return(w)
    /\ UNCHANGED <<deleted, request, leaseID, leaseVars, callback>>

StartLost(w) ==
    /\ Stands(w, "start")
    /\ \E r \in work[w].rows :
         /\ ~Startable(work[w].acq, r)
         /\ Start(w, work[w].rows \ {r})
    /\ UNCHANGED <<rowVars, acqVars, leaseVars, callback>>

(* Queue: with a wait budget and capacity expected within it, the          *)
(* acquisition stays pending.                                              *)
Queue(w) ==
    /\ Stands(w, "decide")
    /\ request[work[w].acq].maxWait
    /\ Return(w)
    /\ UNCHANGED <<rowVars, acqVars, leaseVars, callback>>

(* scaleOnDemand: acquisition, create and pre-bind in one transaction.     *)
scaleOnDemand(w) ==
    /\ Stands(w, "decide")
    /\ LET a == work[w].acq IN
         /\ request[a].class
         /\ AcqTransition(a, "pending", "provisioning")
         /\ \E r \in Resources :
              /\ phase[r] = "none"
              /\ phase' = [phase EXCEPT ![r] = "provisioning"]
              /\ pending' = [pending EXCEPT ![a] = r]
    /\ Return(w)
    /\ UNCHANGED <<deleted, request, leaseID, leaseVars, callback>>

(* The plan is refused by the provider, or the acquisition has moved on:   *)
(* the error is logged.                                                    *)
ScaleFails(w) ==
    /\ Stands(w, "decide")
    /\ request[work[w].acq].class
    /\ Return(w)
    /\ UNCHANGED <<rowVars, acqVars, leaseVars, callback>>

(* ErrNoCapacity without a class: Acquire and Resume fail the acquisition. *)
NoCapacity(w) ==
    /\ Stands(w, "decide")
    /\ LET a == work[w].acq IN
         /\ ~request[a].class
         /\ acqState' = [acqState EXCEPT ![a] = IF @ = "pending" THEN "failed" ELSE @]
    /\ work' = [work EXCEPT ![w] = Idle]
    /\ UNCHANGED <<rowVars, request, pending, leaseID, leaseVars, callback>>

-----------------------------------------------------------------------------
(* Resume: the sweep over open acquisitions *)

(* Mutant: provisioning acquisitions are left to the callback. *)
ResumePendingOnly(a) ==
    /\ Stands(Sweeper, "idle")
    /\ acqState[a] = "pending"
    /\ work' = [work EXCEPT ![Sweeper] = Busy("satisfy", a, Null)]
    /\ UNCHANGED <<rowVars, acqVars, leaseVars, callback>>

(* The list says pending, or provisioning for a pre-bound row; by the time *)
(* the acquisition is handled, that may be out of date.                    *)
Resume(a) ==
    /\ Stands(Sweeper, "idle")
    /\ acqState[a] \in OpenAcq
    /\ work' = [work EXCEPT ![Sweeper] =
                  IF acqState[a] = "pending"
                  THEN Busy("satisfy", a, Null)
                  ELSE Busy("sweep", a, pending[a])]
    /\ UNCHANGED <<rowVars, acqVars, leaseVars, callback>>

(* After Satisfy: a pending acquisition older than pendingTimeout expires. *)
ExpirePending ==
    /\ Stands(Sweeper, "expire")
    /\ AcqTransition(work[Sweeper].acq, "pending", "expired")
    /\ work' = [work EXCEPT ![Sweeper] = Idle]
    /\ UNCHANGED <<rowVars, request, pending, leaseID, leaseVars, callback>>

NotExpired ==
    /\ Stands(Sweeper, "expire")
    /\ work' = [work EXCEPT ![Sweeper] = Idle]
    /\ UNCHANGED <<rowVars, acqVars, leaseVars, callback>>

(* A provisioning acquisition that is past pendingTimeout since its last   *)
(* transition expires; the CAS may miss.                                   *)
ExpireProvisioning ==
    /\ Stands(Sweeper, "sweep")
    /\ LET a == work[Sweeper].acq IN
         acqState' = [acqState EXCEPT ![a] = IF @ = "provisioning" THEN "expired" ELSE @]
    /\ work' = [work EXCEPT ![Sweeper] = Idle]
    /\ UNCHANGED <<rowVars, request, pending, leaseID, leaseVars, callback>>

(* Otherwise Resume reads the pre-bound row and goes by its phase, whatever *)
(* operation led there.                                                    *)
VerdictOf(p) ==
    CASE p = "ready" -> "bind" [] p = "failed" -> "fail" [] p = "parked" -> "repend"
      [] OTHER -> "none"

ReadRow ==
    /\ Stands(Sweeper, "sweep")
    /\ LET r == work[Sweeper].row
           v == IF r = Null THEN "none" ELSE VerdictOf(phase[r]) IN
         work' = [work EXCEPT ![Sweeper] =
                    IF v = "none" THEN Idle ELSE [@ EXCEPT !.pc = "settle", !.verdict = v]]
    /\ UNCHANGED <<rowVars, acqVars, leaseVars, callback>>

-----------------------------------------------------------------------------
(* resolvePending and rePend, for the sweeper and the terminal callback    *)

(* The pre-bound machine is there: the full reservation, or a log line.    *)
BindPending(a, r) ==
    \/ reserve(a, r)
    \/ ~Reservable(a, r) /\ UNCHANGED <<rowVars, acqVars, leaseVars>>

(* The create failed: so does the acquisition. *)
FailPending(a) ==
    /\ acqState' = [acqState EXCEPT ![a] = IF @ = "provisioning" THEN "failed" ELSE @]
    /\ UNCHANGED <<rowVars, request, pending, leaseID, leaseVars>>

(* The start failed: back to pending, without pre-bind. *)
rePend(a) ==
    /\ IF acqState[a] = "provisioning"
       THEN /\ acqState' = [acqState EXCEPT ![a] = "pending"]
            /\ pending' = [pending EXCEPT ![a] = Null]
       ELSE UNCHANGED <<acqState, pending>>
    /\ UNCHANGED <<rowVars, request, leaseID, leaseVars>>

Resolve(a, r, verdict) ==
    \/ verdict = "bind" /\ BindPending(a, r)
    \/ verdict = "fail" /\ FailPending(a)
    \/ verdict = "repend" /\ rePend(a)

Settle ==
    /\ Stands(Sweeper, "settle")
    /\ Resolve(work[Sweeper].acq, work[Sweeper].row, work[Sweeper].verdict)
    /\ work' = [work EXCEPT ![Sweeper] = Idle]
    /\ UNCHANGED <<callback>>

(* HandleOpTerminal: the list of the acquisitions that wait for the row.   *)
HandleOpTerminal ==
    /\ ended.res # Null /\ ~ended.listed
    /\ ended' = [ended EXCEPT !.listed = TRUE]
    /\ waiting' = {a \in Acqs : acqState[a] = "provisioning" /\ pending[a] = ended.res}
    /\ UNCHANGED <<rowVars, acqVars, leaseVars, work>>

resolvePending(a) ==
    /\ a \in waiting
    /\ Resolve(a, ended.res, ended.verdict)
    /\ waiting' = waiting \ {a}
    /\ UNCHANGED <<work, ended>>

CallbackDone ==
    /\ ended.listed /\ waiting = {}
    /\ ended' = NoOp
    /\ UNCHANGED <<rowVars, acqVars, leaseVars, work, waiting>>

-----------------------------------------------------------------------------
(* The lease manager *)

(* Mutant: the last lease is looked for among the leases left over before  *)
(* this one ended.                                                         *)
endLeaseMiscounts(l, to) ==
    /\ leaseState[l] = "active"
    /\ leaseState' = [leaseState EXCEPT ![l] = to]
    /\ acqState' = [acqState EXCEPT ![holder[l]] = IF @ = "bound" THEN to ELSE @]
    /\ phase' = [phase EXCEPT ![on[l]] =
                   IF Active(on[l]) = {} /\ @ = "allocated" THEN "ready" ELSE @]
    /\ UNCHANGED <<deleted, request, pending, leaseID, holder, on, work, callback>>

(* Release and SweepExpired: lease, acquisition and, with the last lease,  *)
(* the phase, in one transaction.                                          *)
endLease(l, to) ==
    /\ leaseState[l] = "active"
    /\ leaseState' = [leaseState EXCEPT ![l] = to]
    /\ acqState' = [acqState EXCEPT ![holder[l]] = IF @ = "bound" THEN to ELSE @]
    /\ phase' = [phase EXCEPT ![on[l]] =
                   IF Active(on[l]) = {l} /\ @ = "allocated" THEN "ready" ELSE @]
    /\ UNCHANGED <<deleted, request, pending, leaseID, holder, on, work, callback>>

Release(a) == acqState[a] = "bound" /\ endLease(leaseID[a], "released")

SweepExpired(l) == endLease(l, "expired")

(* Mutant: the state that ReleaseAcquisition read is not compared again. *)
WithdrawUnguarded(a) ==
    /\ acqState[a] \in OpenAcq \cup {"bound"}
    /\ acqState' = [acqState EXCEPT ![a] = "released"]
    /\ UNCHANGED <<rowVars, request, pending, leaseID, leaseVars, work, callback>>

(* ReleaseAcquisition of one that is not satisfied yet. *)
Withdraw(a) ==
    /\ acqState[a] \in OpenAcq
    /\ acqState' = [acqState EXCEPT ![a] = "released"]
    /\ UNCHANGED <<rowVars, request, pending, leaseID, leaseVars, work, callback>>

-----------------------------------------------------------------------------
(* Everyone else who moves rows *)

Row(r, from, to) ==
    /\ Live(r) /\ phase[r] \in from
    /\ phase' = [phase EXCEPT ![r] = to]
    /\ UNCHANGED <<acqVars, leaseVars, work>>

(* CreateResource and createOne. *)
CreateRow(r) ==
    /\ phase[r] = "none"
    /\ phase' = [phase EXCEPT ![r] = "provisioning"]
    /\ UNCHANGED <<deleted, acqVars, leaseVars, work, callback>>

(* Discovery adopts a labelled machine without row, running or stopped. *)
mintRecord(r) ==
    /\ phase[r] = "none"
    /\ \E p \in {"ready", "parked"} : phase' = [phase EXCEPT ![r] = p]
    /\ UNCHANGED <<deleted, acqVars, leaseVars, work, callback>>

(* Mutant: a ready row is taken for an unleased one. *)
ParkReady(r) ==
    /\ Row(r, {"ready"}, "parking")
    /\ UNCHANGED <<deleted, callback>>

(* ParkResource, ReclaimPoolless and the park pass: JournalStop. *)
Park(r) ==
    /\ Active(r) = {}
    /\ Row(r, {"ready"}, "parking")
    /\ UNCHANGED <<deleted, callback>>

(* StartResource and the warm-up: JournalStart. *)
StartRow(r) ==
    /\ Row(r, {"parked"}, "starting")
    /\ UNCHANGED <<deleted, callback>>

(* DeleteResource, costReclaim, journalDelete of a materialized row. *)
Delete(r) ==
    /\ Active(r) = {}
    /\ Row(r, {p \in Phases : CanTransition(p, "deleting")}, "deleting")
    /\ UNCHANGED <<deleted, callback>>

(* The same of a row without external_id. *)
Tombstone(r) ==
    /\ Live(r) /\ phase[r] \in {"provisioning", "failed"}
    /\ Active(r) = {}
    /\ deleted' = deleted \cup {r}
    /\ UNCHANGED <<phase, acqVars, leaseVars, work, callback>>

(* DrainResource, which does not ask for leases, and RunOnce, which counts *)
(* them outside the transaction, so that the count is no guard.            *)
Drain(r) ==
    /\ Row(r, {p \in Phases : CanTransition(p, "draining")}, "draining")
    /\ UNCHANGED <<deleted, callback>>

(* UndrainResource and RunOnce with a deficit. *)
Undrain(r) ==
    /\ Row(r, {"draining"}, "ready")
    /\ UNCHANGED <<deleted, callback>>

(* confirmOrphan and refreshObserved of discovery: the machine is gone, is *)
(* back running or stopped, or stays away.                                 *)
Orphan(r) ==
    /\ Row(r, {"ready", "allocated", "parked"}, "orphaned")
    /\ UNCHANGED <<deleted, callback>>

Reappear(r) ==
    /\ Row(r, {"orphaned"}, "ready") \/ Row(r, {"orphaned"}, "parked")
    /\ UNCHANGED <<deleted, callback>>

TombstoneOrphan(r) ==
    /\ Live(r) /\ phase[r] = "orphaned"
    /\ Active(r) = {}
    /\ deleted' = deleted \cup {r}
    /\ UNCHANGED <<phase, acqVars, leaseVars, work, callback>>

(* The engine ends the operation of a row, one at a time, and calls back   *)
(* for a create or a start.                                                *)
Ends(r, verdict) ==
    /\ ended' = [res |-> r, verdict |-> verdict, listed |-> FALSE]
    /\ UNCHANGED <<deleted, waiting>>

OpSucceeds(r) ==
    /\ ended = NoOp
    /\ \/ Row(r, {"provisioning"}, "ready") /\ Ends(r, "bind")
       \/ Row(r, {"starting"}, "ready") /\ Ends(r, "bind")
       \/ Row(r, {"parking"}, "parked") /\ UNCHANGED <<deleted, callback>>
       \/ /\ Live(r) /\ phase[r] = "deleting"
          /\ deleted' = deleted \cup {r}
          /\ UNCHANGED <<phase, acqVars, leaseVars, work, callback>>

(* A start fails back to parked, or to failed when the machine runs and    *)
(* its readiness probe does not pass.                                      *)
OpFails(r) ==
    /\ ended = NoOp
    /\ \/ Row(r, {"provisioning"}, "failed") /\ Ends(r, "fail")
       \/ Row(r, {"starting"}, "parked") /\ Ends(r, "repend")
       \/ Row(r, {"starting"}, "failed") /\ Ends(r, "repend")
       \/ Row(r, {"parking"}, "ready") /\ UNCHANGED <<deleted, callback>>
       \/ Row(r, {"deleting"}, "failed") /\ UNCHANGED <<deleted, callback>>

(* The process restarts: memory is lost, rows are not. *)
Crash ==
    /\ work' = [w \in Workers |-> Idle]
    /\ ended' = NoOp
    /\ waiting' = {}
    /\ UNCHANGED <<rowVars, acqVars, leaseVars>>

-----------------------------------------------------------------------------
(* The steps of one Satisfy. *)
Progress(w) ==
    \/ Satisfy(w) \/ ReserveCandidate(w) \/ CandidateLost(w) \/ ListParked(w)
    \/ startParked(w) \/ StartLost(w) \/ Queue(w) \/ scaleOnDemand(w)
    \/ ScaleFails(w) \/ NoCapacity(w)

Scheduler ==
    \/ \E a \in Acqs, q \in Requests : Acquire(a, q)
    \/ \E w \in Workers : Progress(w)
    \/ \E a \in Acqs : Resume(a) \/ resolvePending(a)
    \/ ExpirePending \/ NotExpired \/ ExpireProvisioning \/ ReadRow \/ Settle
    \/ HandleOpTerminal \/ CallbackDone

LeaseManager ==
    \/ \E a \in Acqs : Release(a) \/ Withdraw(a)
    \/ \E l \in Leases : SweepExpired(l)

RowSteps ==
    \E r \in Resources :
          \/ CreateRow(r) \/ mintRecord(r) \/ Park(r) \/ StartRow(r) \/ Delete(r) \/ Tombstone(r)
          \/ Drain(r) \/ Undrain(r) \/ Orphan(r) \/ Reappear(r) \/ TombstoneOrphan(r)
          \/ OpSucceeds(r) \/ OpFails(r)

Next == Scheduler \/ LeaseManager \/ RowSteps \/ Crash

Spec == Init /\ [][Next]_vars

(* Fairness.  Workers, sweeper and callback keep running between crashes,  *)
(* and there is a last crash; the engine ends every operation (its own     *)
(* liveness).  pendingTimeout passes, so that an acquisition that the      *)
(* sweep sees open again and again expires.  And machines are not started  *)
(* for one acquisition forever: a failed start puts the machine under a    *)
(* backoff that grows to minutes, and a started one is parked only after   *)
(* an idle time, so that some sweep finds none to start.                   *)
AllParkedBackOff(w) == ListParked(w) /\ work'[w].rows = {}

Fairness ==
    /\ <>[][~Crash]_vars
    /\ \A w \in Workers : WF_vars(Progress(w)) /\ SF_vars(AllParkedBackOff(w))
    /\ \A a \in Acqs : SF_vars(Resume(a)) /\ WF_vars(resolvePending(a))
    /\ WF_vars(ExpirePending \/ NotExpired) /\ SF_vars(ExpirePending)
    /\ WF_vars(ExpireProvisioning \/ ReadRow) /\ SF_vars(ExpireProvisioning)
    /\ WF_vars(Settle) /\ WF_vars(HandleOpTerminal) /\ WF_vars(CallbackDone)
    /\ \A r \in Resources : WF_vars(OpSucceeds(r) \/ OpFails(r))

LiveSpec == Spec /\ Fairness
-----------------------------------------------------------------------------
(* Properties *)

(* No machine is over-allocated (invariant 1): in every dimension the      *)
(* active leases together stay within the machine, whoever else filtered   *)
(* on the same snapshot.                                                   *)
CapacityRespected ==
    \A r \in Resources : \A dim \in DOMAIN Total :
        SumFunction([l \in Active(r) |-> At(Want(holder[l]), dim)]) <= Total[dim]

(* An exclusive lease, which need not claim any capacity, is alone on its  *)
(* machine, also when the machine came back to ready under a lease.        *)
ExclusiveAlone ==
    \A r \in Resources : \A l, m \in Active(r) : Exclusive(holder[l]) => l = m

(* Lease and acquisition agree: a bound acquisition has exactly one active *)
(* lease, the one it names, and every active lease is that of a bound      *)
(* acquisition; nobody pays for a machine that the caller gave back or     *)
(* was never told about.                                                   *)
BoundIffLeased ==
    \A a \in Acqs :
        {l \in Leases : leaseState[l] = "active" /\ holder[l] = a}
          = IF acqState[a] = "bound" THEN {leaseID[a]} ELSE {}

(* An allocated row has an active lease: without one nothing would ever    *)
(* make it ready or reclaim it again.                                      *)
AllocatedHasLease ==
    \A r \in Resources : phase[r] = "allocated" => Active(r) # {}

(* A leased machine is never stopped, deleted or forgotten under its       *)
(* holder (invariant 3), whatever the sweeps read before the lease was     *)
(* taken.                                                                  *)
LeasedKept ==
    \A l \in Leases : leaseState[l] = "active" =>
        Live(on[l]) /\ phase[on[l]] \notin {"parking", "deleting"}

(* An acquisition that is over stays over, however late a worker, the      *)
(* sweeper or the callback come with what they read before: nobody is      *)
(* bound to a machine after giving up on it.                               *)
NoResurrection ==
    [][\A a \in Acqs : acqState[a] \in {"released", "expired", "failed"}
                         => acqState'[a] = acqState[a]]_vars

(* Every acquisition is settled, through lost callbacks, failed starts and *)
(* stolen machines: it is bound, or it fails, expires or is withdrawn.     *)
AcqResolves ==
    \A a \in Acqs : acqState[a] \in OpenAcq ~> acqState[a] \notin OpenAcq
-----------------------------------------------------------------------------
(* What callers see: whether they wait, hold a share or are done, the      *)
(* machine they hold, and the machines that are there for them.            *)
CallerState ==
    [a \in Acqs |-> IF acqState[a] \in OpenAcq THEN "waiting"
                    ELSE IF acqState[a] = "bound" THEN "held" ELSE acqState[a]]
HeldMachine == [a \in Acqs |-> IF acqState[a] = "bound" THEN on[leaseID[a]] ELSE Null]
Kept == {r \in Resources : Live(r) /\ phase[r] \notin {"parking", "deleting"}}

Alloc == INSTANCE Allocation WITH
    Machines <- Resources, state <- CallerState, asked <- request,
    machine <- HeldMachine, kept <- Kept

(* Rows, leases and acquisitions change in step: what a caller sees is an  *)
(* acquisition that waits, holds a share of one kept machine within its    *)
(* capacity, and is over for good, however late a worker, the sweeper or   *)
(* the callback come with what they read before.                           *)
SharesAreGranted == Alloc!Spec
=============================================================================
