--------------------------- MODULE PoolReconciler ---------------------------
(***************************************************************************)
(* One pool and its reconciler (internal/reconcile/reconcile.go): RunOnce  *)
(* lists the rows of the pool once and then works through eight passes on  *)
(* that snapshot, one transaction per row and one mutation budget for all  *)
(* of them.  Every transaction re-reads its row, so that what the          *)
(* scheduler, the operator and the engine do between the list and the      *)
(* transaction is met by its gates.                                        *)
(*                                                                         *)
(* The order in which a pass visits its rows (by idle time, parking time   *)
(* or id) is left open: any row of the pass may be next.                   *)
(***************************************************************************)
EXTENDS Integers, FiniteSets, Phase

CONSTANTS
    Rows,                 \* slots for rows; a tombstoned row frees its slot
    Specs,                \* the pool specs an operator may apply
    MaxMutationsPerCycle, \* Config.MaxMutationsPerCycle
    MaxMeddling           \* bound: leases, operator commands, failures, crashes

(* UpsertPool accepts a minRunning of at most replicas.                    *)
ASSUME SpecsAssumption ==
    /\ Specs \subseteq [replicas : Nat, minReady : Nat, minRunning : Nat,
                        maxResources : Nat]
    /\ \A s \in Specs : s.minRunning <= s.replicas

ASSUME BoundsAssumption ==
    IsFiniteSet(Rows) /\ MaxMutationsPerCycle \in Nat \ {0} /\ MaxMeddling \in Nat

VARIABLES
    phase,      \* phase of each row, "none" for a free slot
    ext,        \* rows with an external_id
    leased,     \* rows with an active lease
    protected,  \* rows with delete_protected
    idle,       \* rows idle for longer than reclaim.idleAfter
    exists,     \* the pool's own row is there
    spec,       \* the pool's spec
    paused,     \* the pool is paused
    backoff,    \* creates are paused by the failure backoff
    queued,     \* an acquisition of the class is pending
    cyc,        \* the local variables of RunOnce
    others,     \* somebody else changed the pool since the list was read
    meddling    \* bound

rowVars == <<phase, ext, leased, protected, idle>>
vars == <<rowVars, exists, spec, paused, backoff, queued, cyc, others, meddling>>

(* RunOnce's passes in order; "create" is the loop of the scale-up pass.  *)
Order == <<"undrain", "warmup", "scaleup", "create", "parked", "drain",
           "pipeline", "failed", "park">>

Live == {r \in Rows : phase[r] # "none"}
In(ph) == {r \in Rows : phase[r] \in ph}
CountedPhases == {"provisioning", "ready", "allocated", "parking", "parked", "starting"}
HotPhases == {"provisioning", "starting", "ready", "allocated"}
Counted == Cardinality(In(CountedPhases))
Hot == Cardinality(In(HotPhases))

Idle == [pass |-> "idle", todo |-> {}, snap |-> [r \in Rows |-> "none"], cand |-> {},
         spec |-> spec, budget |-> 0, gap |-> 0, hot |-> 0, ready |-> 0, n |-> 0,
         checked |-> {}]

Init ==
    /\ phase = [r \in Rows |-> "none"]
    /\ ext = {} /\ leased = {} /\ protected = {} /\ idle = {}
    /\ exists = TRUE /\ spec \in Specs
    /\ paused = FALSE /\ backoff = FALSE /\ queued = FALSE
    /\ cyc = Idle
    /\ others = FALSE /\ meddling = 0

-----------------------------------------------------------------------------
Min2(a, b) == IF a < b THEN a ELSE b

(* Rows change phase through CASPhase, which stamps ready_at.              *)

Move(r, to) ==
    /\ phase' = [phase EXCEPT ![r] = to]
    /\ idle' = IF to = "ready" THEN idle \ {r} ELSE idle

Tombstone(r) ==
    /\ phase' = [phase EXCEPT ![r] = "none"]
    /\ ext' = ext \ {r} /\ protected' = protected \ {r} /\ idle' = idle \ {r}

(* Transactions.  Each is a gate on the row as it is now, and an effect;   *)
(* a closed gate is a conflict, on which RunOnce goes on to the next row.  *)

(* journalDeleteInTx: protection and lease gates; a row that never got a   *)
(* machine is tombstoned at once, any other gets a delete operation.       *)
Deletable(r) == r \notin protected /\ r \notin leased

JournalDeleteInTx(r) ==
    /\ IF r \in ext
       THEN Move(r, "deleting") /\ UNCHANGED <<ext, protected>>
       ELSE Tombstone(r)
    /\ UNCHANGED leased

(* journalDelete, the second step of a drain and the end of failed rows.   *)
JournalDeleteGate(r) == phase[r] \in {"draining", "failed"} /\ Deletable(r)

(* costReclaim of a parked row: refused while a pending acquisition of the *)
(* class would be left without a ready machine.                            *)
CostReclaimGate(r) ==
    /\ phase[r] = "parked" /\ Deletable(r)
    /\ queued => In({"ready"}) # {}

JournalStopGate(r) == phase[r] = "ready" /\ r \in ext /\ r \notin leased

JournalStartGate(r) == phase[r] = "parked" /\ r \in ext

CasPhase(r, to) == Move(r, to) /\ UNCHANGED <<ext, leased, protected>>

-----------------------------------------------------------------------------
(* The cycle *)

SnapIn(c, ph) == {r \in Rows : c.snap[r] = ph}

(* Mutant: failed rows are not cleaned up.                                 *)
TodoNotFailed(c, pass) ==
    CASE pass = "failed" -> {}
      [] pass \in {"undrain", "pipeline"} -> SnapIn(c, "draining")
      [] pass \in {"warmup", "parked"} -> SnapIn(c, "parked")
      [] pass \in {"drain", "park"} -> c.cand
      [] OTHER -> {}

(* The rows a pass is to visit.                                            *)
Todo(c, pass) ==
    CASE pass = "undrain"  -> SnapIn(c, "draining")
      [] pass = "warmup"   -> IF c.spec.minRunning > 0 THEN SnapIn(c, "parked") ELSE {}
      [] pass = "parked"   -> SnapIn(c, "parked")
      [] pass = "drain"    -> c.cand
      [] pass = "pipeline" -> SnapIn(c, "draining")
      [] pass = "failed"   -> SnapIn(c, "failed")
      [] pass = "park"     -> IF c.spec.minRunning > 0 THEN c.cand ELSE {}
      [] OTHER             -> {}

(* What keeps the loop of a pass going over the rows left to visit.  gap   *)
(* is replicas - Counted as far as this cycle knows; hot and ready are the *)
(* counts it maintains.                                                    *)
Going(c, pass, rows) ==
    /\ c.budget > 0
    /\ CASE pass = "undrain"  -> rows # {} /\ c.gap > 0
         [] pass = "warmup"   -> rows # {} /\ c.hot < c.spec.minRunning
         [] pass = "scaleup"  -> c.gap > 0
         [] pass = "create"   -> c.n > 0
         [] pass = "parked"   -> rows # {} /\ c.gap < 0
         [] pass = "drain"    -> rows # {} /\ c.gap < 0 /\ c.ready - 1 >= c.spec.minReady
         [] pass = "park"     -> /\ rows # {} /\ c.ready - 1 >= c.spec.minReady
                                 /\ c.hot - 1 >= c.spec.minRunning
         [] OTHER             -> rows # {}

(* Mutant: only what counts towards replicas counts against the maximum.   *)
CreateQuotaCounted(c) ==
    LET live == Cardinality({r \in Rows : c.snap[r] \in CountedPhases})
    IN  Min2(Min2(c.gap, IF c.spec.maxResources > 0 THEN c.spec.maxResources - live ELSE c.gap),
             c.budget)

(* The creates of a cycle: the deficit, within maxResources (which every   *)
(* row counts against) and the budget.                                     *)
CreateQuota(c) ==
    LET live == Cardinality({r \in Rows : c.snap[r] # "none"})
        room == IF c.spec.maxResources > 0
                THEN Min2(c.gap, c.spec.maxResources - live) ELSE c.gap
    IN  Min2(room, c.budget)

(* The cycle goes on with the same pass, or the next one that has work.    *)
Position == [pass \in {Order[i] : i \in DOMAIN Order} |->
                CHOOSE i \in DOMAIN Order : Order[i] = pass]

Settle(c) ==
    IF Going(c, c.pass, c.todo) THEN c
    ELSE LET later == {i \in DOMAIN Order : /\ i > Position[c.pass]
                                            /\ Going(c, Order[i], Todo(c, Order[i]))}
         IN  IF later = {} THEN Idle
             ELSE LET pass == Order[CHOOSE i \in later : \A j \in later : i <= j]
                  IN  [c EXCEPT !.pass = pass, !.todo = Todo(c, pass)]

(* The local variables become c, as far as the loops let it.               *)
GoOn(c) == \E d \in {c} : cyc' = Settle(d)

(* RunOnce up to its first pass: spec, list, counts, candidates (the idle, *)
(* unprotected ready rows).  A paused pool is left alone.                  *)
StartCycle ==
    /\ cyc.pass = "idle" /\ exists /\ ~paused
    /\ LET c == [Idle EXCEPT
                  !.snap = phase, !.spec = spec, !.budget = MaxMutationsPerCycle,
                  !.cand = (In({"ready"}) \cap idle) \ protected,
                  !.gap = spec.replicas - Counted, !.hot = Hot,
                  !.ready = Cardinality(In({"ready"})), !.pass = "undrain"]
       IN  GoOn([c EXCEPT !.todo = Todo(c, "undrain")])
    /\ others' = FALSE
    /\ UNCHANGED <<rowVars, exists, spec, paused, backoff, queued, meddling>>

(* One row of a pass: the transaction commits and is counted, or its gate  *)
(* is closed and the row is passed over.                                   *)
Visit(r, pass) == cyc.pass = pass /\ r \in cyc.todo

Did(r, dgap, dhot, dready) ==
    GoOn([cyc EXCEPT !.todo = @ \ {r}, !.checked = {}, !.budget = @ - 1,
                       !.gap = @ + dgap, !.hot = @ + dhot, !.ready = @ + dready])

PassOver(r) ==
    /\ GoOn([cyc EXCEPT !.todo = @ \ {r}, !.checked = {}])
    /\ UNCHANGED rowVars

(* Mutant: an undrain does not lower the deficit.                          *)
UndrainKeepsDeficit(r) ==
    /\ Visit(r, "undrain")
    /\ IF phase[r] = "draining"
       THEN CasPhase(r, "ready") /\ Did(r, 0, 0, 0)
       ELSE PassOver(r)

Undrain(r) ==
    /\ Visit(r, "undrain")
    /\ IF phase[r] = "draining"
       THEN CasPhase(r, "ready") /\ Did(r, -1, 0, 0)
       ELSE PassOver(r)

WarmUp(r) ==
    /\ Visit(r, "warmup")
    /\ IF JournalStartGate(r)
       THEN CasPhase(r, "starting") /\ Did(r, 0, 1, 0)
       ELSE PassOver(r)

ScaleUp ==
    /\ cyc.pass = "scaleup"
    /\ GoOn([cyc EXCEPT !.pass = "create",
                            !.n = IF backoff THEN 0 ELSE CreateQuota(cyc)])
    /\ UNCHANGED rowVars

(* createOne: the row and its create operation in one transaction, which   *)
(* the foreign key refuses when the pool is gone.  The loop ends on the    *)
(* first error (no pool, or no free slot in this model).                   *)
CreateOne(r) ==
    /\ cyc.pass = "create" /\ exists
    /\ phase[r] = "none"
    /\ CasPhase(r, "provisioning")
    /\ GoOn([cyc EXCEPT !.n = @ - 1, !.budget = @ - 1])

CreateFails ==
    /\ cyc.pass = "create"
    /\ Live = Rows \/ ~exists
    /\ GoOn([cyc EXCEPT !.n = 0])
    /\ UNCHANGED rowVars

ReclaimParked(r) ==
    /\ Visit(r, "parked")
    /\ IF CostReclaimGate(r)
       THEN JournalDeleteInTx(r) /\ Did(r, 1, 0, 0)
       ELSE PassOver(r)

(* CountActive is asked outside the transaction that drains.               *)
CountActive(r) ==
    /\ Visit(r, "drain") /\ cyc.checked = {}
    /\ IF r \in leased
       THEN PassOver(r)
       ELSE cyc' = [cyc EXCEPT !.checked = {r}] /\ UNCHANGED rowVars

DrainReady(r) ==
    /\ Visit(r, "drain") /\ r \in cyc.checked
    /\ IF phase[r] = "ready"
       THEN CasPhase(r, "draining") /\ Did(r, 1, 0, -1)
       ELSE PassOver(r)

DeleteDrained(r) ==
    /\ Visit(r, "pipeline") \/ Visit(r, "failed")
    /\ IF JournalDeleteGate(r)
       THEN JournalDeleteInTx(r) /\ Did(r, 0, 0, 0)
       ELSE PassOver(r)

ParkIdle(r) ==
    /\ Visit(r, "park")
    /\ IF JournalStopGate(r) /\ r \notin protected
       THEN CasPhase(r, "parking") /\ Did(r, 0, -1, -1)
       ELSE PassOver(r)

RunOnce ==
    /\ \/ ScaleUp \/ CreateFails
       \/ \E r \in Rows :
            \/ Undrain(r) \/ WarmUp(r) \/ CreateOne(r) \/ ReclaimParked(r)
            \/ CountActive(r) \/ DrainReady(r) \/ DeleteDrained(r) \/ ParkIdle(r)
    /\ UNCHANGED <<exists, spec, paused, backoff, queued, others, meddling>>

-----------------------------------------------------------------------------
(* The engine settles the operation of a row in a transient phase, and     *)
(* HandleOpTerminal keeps the failure backoff.                             *)

OpSucceeds(r) ==
    /\ \/ /\ phase[r] \in {"provisioning", "starting"}
          /\ Move(r, "ready") /\ ext' = ext \cup {r} /\ UNCHANGED protected
       \/ /\ phase[r] = "parking"
          /\ Move(r, "parked") /\ UNCHANGED <<ext, protected>>
       \/ /\ phase[r] = "deleting" /\ Tombstone(r)
    /\ backoff' = (backoff /\ phase[r] # "provisioning")
    /\ UNCHANGED <<leased, exists, spec, paused, queued, cyc, others, meddling>>

(* A failed create may or may not have left a machine.                     *)
OpFails(r) ==
    /\ meddling < MaxMeddling
    /\ \/ /\ phase[r] = "provisioning" /\ Move(r, "failed")
          /\ ext' \in {ext, ext \cup {r}} /\ backoff' = TRUE
       \/ /\ phase[r] = "deleting" /\ Move(r, "failed") /\ UNCHANGED <<ext, backoff>>
       \/ /\ phase[r] = "parking" /\ Move(r, "ready") /\ UNCHANGED <<ext, backoff>>
       \/ /\ phase[r] = "starting" /\ UNCHANGED <<ext, backoff>>
          /\ (Move(r, "parked") \/ Move(r, "failed"))
    /\ others' = TRUE /\ meddling' = meddling + 1
    /\ UNCHANGED <<leased, protected, exists, spec, paused, queued, cyc>>

BackoffElapses ==
    /\ backoff /\ backoff' = FALSE
    /\ UNCHANGED <<rowVars, exists, spec, paused, queued, cyc, others, meddling>>

-----------------------------------------------------------------------------
(* The scheduler, the lease manager and the operator *)

Meddle == meddling < MaxMeddling /\ meddling' = meddling + 1 /\ others' = TRUE

Enqueue ==
    /\ Meddle /\ ~queued /\ queued' = TRUE
    /\ UNCHANGED <<rowVars, exists, spec, paused, backoff, cyc>>

(* It is served elsewhere, expires or is withdrawn.                        *)
LeaveQueue ==
    /\ queued /\ queued' = FALSE
    /\ UNCHANGED <<rowVars, exists, spec, paused, backoff, cyc, others, meddling>>

(* A pending acquisition takes a ready row.                                *)
Bind(r) ==
    /\ queued /\ queued' = FALSE
    /\ phase[r] = "ready" /\ Move(r, "allocated")
    /\ leased' = leased \cup {r}
    /\ others' = TRUE
    /\ UNCHANGED <<ext, protected, exists, spec, paused, backoff, cyc, meddling>>

(* A lease ends; the row is idle from now on.                              *)
Release(r) ==
    /\ r \in leased /\ leased' = leased \ {r}
    /\ phase' = [phase EXCEPT ![r] = IF @ = "allocated" THEN "ready" ELSE @]
    /\ idle' = idle \ {r}
    /\ others' = TRUE
    /\ UNCHANGED <<ext, protected, exists, spec, paused, backoff, queued, cyc, meddling>>

IdleElapses(r) ==
    /\ phase[r] = "ready" /\ r \notin leased /\ r \notin idle
    /\ idle' = idle \cup {r}
    /\ UNCHANGED <<phase, ext, leased, protected, exists, spec, paused, backoff, queued, cyc,
                   others, meddling>>

DrainResource(r) ==
    /\ Meddle
    /\ phase[r] \in Phases /\ CanTransition(phase[r], "draining")
    /\ CasPhase(r, "draining")
    /\ UNCHANGED <<exists, spec, paused, backoff, queued, cyc>>

UndrainResource(r) ==
    /\ Meddle
    /\ phase[r] = "draining" /\ CasPhase(r, "ready")
    /\ UNCHANGED <<exists, spec, paused, backoff, queued, cyc>>

SetResourceProtected(r) ==
    /\ Meddle
    /\ r \in Live
    /\ protected' = IF r \in protected THEN protected \ {r} ELSE protected \cup {r}
    /\ UNCHANGED <<phase, ext, leased, idle, exists, spec, paused, backoff, queued, cyc>>

(* :park bypasses the protection; :start and the scheduler's rung for      *)
(* parked machines both go through JournalStart.                           *)
ParkResource(r) ==
    /\ Meddle
    /\ JournalStopGate(r) /\ CasPhase(r, "parking")
    /\ UNCHANGED <<exists, spec, paused, backoff, queued, cyc>>

StartResource(r) ==
    /\ Meddle
    /\ JournalStartGate(r) /\ CasPhase(r, "starting")
    /\ UNCHANGED <<exists, spec, paused, backoff, queued, cyc>>

UpsertPool(s) ==
    /\ Meddle
    /\ exists /\ s # spec /\ spec' = s
    /\ UNCHANGED <<rowVars, exists, paused, backoff, queued, cyc>>

SetPoolPaused ==
    /\ Meddle
    /\ exists /\ paused' = ~paused
    /\ UNCHANGED <<rowVars, exists, spec, backoff, queued, cyc>>

(* Only an empty pool that is scaled to zero can be deleted.               *)
DeletePool ==
    /\ Meddle
    /\ exists /\ spec.replicas = 0 /\ Live = {}
    /\ exists' = FALSE
    /\ UNCHANGED <<rowVars, spec, paused, backoff, queued, cyc>>

(* DeleteResource by its owner: the deletion gates and the phase table.  A *)
(* row without a machine is tombstoned even under its open create.         *)
DeleteResource(r) ==
    /\ Meddle
    /\ phase[r] \in Phases /\ Deletable(r)
    /\ r \in ext => CanTransition(phase[r], "deleting")
    /\ JournalDeleteInTx(r)
    /\ UNCHANGED <<exists, spec, paused, backoff, queued, cyc>>

(* Discovery: a machine is lost, and is back or given up after the grace.  *)
Lose(r) ==
    /\ Meddle
    /\ phase[r] \in {"ready", "allocated", "parked"} /\ CasPhase(r, "orphaned")
    /\ UNCHANGED <<exists, spec, paused, backoff, queued, cyc>>

EndOrphan(r) ==
    /\ phase[r] = "orphaned"
    /\ \/ \E to \in {"ready", "parked"} : CasPhase(r, to)
       \/ r \notin leased /\ Tombstone(r) /\ UNCHANGED leased
    /\ others' = TRUE
    /\ UNCHANGED <<exists, spec, paused, backoff, queued, cyc, meddling>>

(* The process dies in the middle of a cycle and comes back.               *)
Crash ==
    /\ Meddle
    /\ cyc.pass # "idle" /\ cyc' = Idle
    /\ UNCHANGED <<rowVars, exists, spec, paused, backoff, queued>>

Engine == BackoffElapses \/ \E r \in Rows : OpSucceeds(r) \/ OpFails(r)

Outside ==
    \/ Enqueue \/ LeaveQueue \/ SetPoolPaused \/ DeletePool \/ Crash
    \/ \E s \in Specs : UpsertPool(s)
    \/ \E r \in Rows : \/ Bind(r) \/ Release(r) \/ IdleElapses(r)
                       \/ DrainResource(r) \/ UndrainResource(r)
                       \/ SetResourceProtected(r)
                       \/ ParkResource(r) \/ StartResource(r)
                       \/ DeleteResource(r) \/ Lose(r) \/ EndOrphan(r)

Next == StartCycle \/ RunOnce \/ Engine \/ Outside

Spec == Init /\ [][Next]_vars

(* The reconciler's loop runs, also by its timer alone; operations end;    *)
(* backoffs, idle times, leases and queued acquisitions run out.           *)
Fairness ==
    /\ WF_vars(StartCycle) /\ WF_vars(RunOnce) /\ WF_vars(BackoffElapses)
    /\ WF_vars(LeaveQueue)
    /\ \A r \in Rows : /\ WF_vars(OpSucceeds(r)) /\ WF_vars(Release(r))
                       /\ WF_vars(IdleElapses(r)) /\ WF_vars(EndOrphan(r))

FairSpec == Spec /\ Fairness

-----------------------------------------------------------------------------
(* A create never takes the pool above maxResources, counting every row    *)
(* that is not tombstoned, those on their way out too, and whatever has    *)
(* happened since the rows were listed.                                    *)
CreatesWithinMax ==
    [][(cyc.pass = "create" /\ Cardinality(Live') > Cardinality(Live)
          /\ cyc.spec.maxResources > 0)
         => Cardinality(Live') <= cyc.spec.maxResources]_vars

(* A cycle that nobody interferes with stays within the limits of its      *)
(* spec, whatever mix of undrains, creates, deletes of parked machines,    *)
(* drains and parks it consists of: it does not take the counted fleet     *)
(* past replicas in either direction, nor the ready machines below         *)
(* minReady by draining some and parking others.                           *)
SnapCount(phases) == Cardinality({r \in Rows : cyc.snap[r] \in phases})
Undisturbed == cyc.pass # "idle" /\ ~others'
NoOvershoot ==
    [][Undisturbed =>
        LET before == SnapCount(CountedPhases)  want == cyc.spec.replicas
        IN  /\ before <= want => Counted' <= want
            /\ before >= want => Counted' >= want
            /\ Cardinality(In({"ready"})')
                  >= Min2(cyc.spec.minReady, SnapCount({"ready"}))]_vars

(* Once the outside world leaves the pool alone and nothing is protected,  *)
(* the fleet has the size that was asked for, the powered part of it is    *)
(* not below minRunning, and no row is left draining, failed or deleting:  *)
(* no pass is starved by those before it in the shared budget.             *)
Settled ==
    \/ paused \/ ~exists \/ protected # {}
    \/ /\ Counted = spec.replicas /\ Hot >= spec.minRunning
       /\ In({"draining", "failed", "deleting"}) = {}
Converges == <>[]Settled
=============================================================================
