# A TLA+ model of FleetPlane

FleetPlane is a control plane for machines at cloud providers. Callers acquire
machines by class and capacity; pools keep warm machines; every mutation of a
cloud is an *operation* in a journal that an engine drives to its end through
crashes, lost answers and lagging list calls.

## The system

| Component | State | Operations | Talks to |
|---|---|---|---|
| Operation engine (`internal/operations`) | operation rows; the goroutine's current operation | `dispatch`, `poll`, `verify`, `Resume`, `failOp`, `succeed*` | drivers (`Apply`, `ObserveOperation`, `Discover`, `Get`), resource rows, `OnTerminal` callbacks |
| Journaling handlers (`internal/app`, `internal/provision`) | none of their own | create, delete, tombstone, park, start, resolve | one transaction each on resource and operation rows |
| Drivers (`providers/*`) | the cloud | `Plan`, `Apply`, `ObserveOperation`, `Discover`, `Get` | the cloud API, a pacer |
| Scheduler (`internal/scheduler`) | acquisition rows; queue flags and start backoff in memory | `Satisfy`, `reserve`, `startParked`, `scaleOnDemand`, `HandleOpTerminal`, `Resume` | leases, journaling handlers |
| Lease manager (`internal/lease`) | lease rows | `Release`, `ReleaseAcquisition`, `SweepExpired` | resource phase, pool kicks |
| Pool reconciler (`internal/reconcile`) | failure backoff, claims in memory | `RunOnce`, `ReclaimPoolless` | journaling handlers, queued acquisitions, billing |
| Discovery (`internal/reconcile/discovery.go`) | orphan sightings | `SweepProvider` | drivers, resource rows |
| Capacity and billing (`internal/capacity`, `internal/billing`) | none | arithmetic on vectors and billing periods | scheduler, reconciler |
| Idempotency (`internal/storage/sqlite/idempotency.go`) | key rows | `Begin`, `Complete`, `GC` | create, delete and acquire handlers |
| Boot (`internal/boot`) | readiness | `Serve` | starts all loops, then `Resume` |
| SDK, classes and secrets (`pkg/sdk`, `internal/app/classes.go`) | class rows | lookups, validation | scheduler, handlers |
| API, CLI, web UI, metrics, configuration | none relevant | I/O | |

Everything durable is in one SQLite file with serializable write transactions,
and one process runs at a time. So the unit of atomicity is the transaction, and
everything between two transactions (provider calls, ranked candidate lists, the
list of a sweep, callbacks) is memory: it may be out of date when it is used, and
a crash loses it.

### Hard behaviours, and what makes each component correct

* **Operation engine.** A request to a cloud may be lost, may land late, and its
  answer may be lost; the process may die between the transaction before the call
  (TxB) and the one after it (TxC); list calls lag; `Resume` runs while the
  goroutine is already dispatching. Correct: a create never owns two machines, no
  machine is forgotten, no row is wedged in a transient phase, every operation ends
  except in three places that can be named.
* **Scheduler.** Workers, the sweep and the terminal callback act on reads of
  different ages; pre-binds can be stolen; a crash loses callbacks and the queue.
  Correct: no machine is over-allocated, an acquisition that is over stays over,
  every acquisition is settled.
* **Lease manager.** Release, expiry, withdrawal and reservations race. Correct:
  leases, acquisitions and phases agree.
* **Pool reconciler, operator.** They park, drain and delete rows that the
  scheduler is about to lease. Correct: a leased machine is never stopped or
  deleted; floors (`minReady`, `minRunning`) hold; budgets starve nobody.
* **Discovery.** A provider's list is older than the rows it is compared with.
  Correct: a deleted machine is not adopted again, a live one is not tombstoned.
* **Idempotency.** A retry meets its key in any state. Correct: one effect, one
  answer.
* **Drivers.** Six clouds answer the same fault in six ways, and each driver's error
  map decides between a blind retry and verification. Correct: one machine per
  create, success only in the target state, polls that end.
* **Billing, capacity.** Arithmetic at boundaries, and sweeps that must meet the
  window before one.

`PROJECT.json` lists the hazards behind these, each at its line, with the
properties that cover it.

## Modules

| Module | Models |
|---|---|
| `Phase` | phases and the transition table of `phase.go` |
| `OperationEngine` | journal, engine goroutine, boot recovery, journaling handlers, the cloud behind a driver |
| `Capacity` | capacity vectors: fit, exclusivity, sums |
| `RowLife` | what the engine promises to all who read rows and operations; implemented by `OperationEngine` |
| `Allocation` | what callers are promised; implemented by `Acquisitions` |
| `Acquisitions` | scheduler, lease manager, acquire handler, over rows that reconciler, discovery and operator also move |
| `PoolReconciler` | `RunOnce` on one pool, the pool commands and the operator's commands on its rows |
| `Billing`, `Accounting` | paid time, boundaries, buffers, windows; useful time, idle time, overruns |
| `Reclaim` | `ReclaimPoolless`, against a clock, over `Billing` and `Accounting` |
| `Discovery` | `SweepProvider`, ghosts, orphans, the health gate |
| `Drivers` | `Apply`, `ObserveOperation` and `Discover` of aws, gcp, hetzner, digitalocean, docker and fake, and the pacer |
| `Once` | what an idempotency key promises |
| `Idempotency` | the keyed handlers, an implementation of `Once` |
| `OperationEngineProofs`, `AcquisitionsProofs`, `PoolReconcilerProofs`, `ReclaimProofs`, `BillingProofs`, `DiscoveryProofs`, `DriversProofs`, `IdempotencyProofs` | theorems |
| `MC...` | instances for TLC |

`OperationEngine` and `Drivers` look at one seam from both sides: the first has
any driver that keeps the contract and the whole engine, the second the engine's
handling of one operation and what each driver really answers. In the same
way `Acquisitions` lets reconciler and discovery do more than they would, and
`PoolReconciler`, `Reclaim` and `Discovery` have their code with callers reduced to
leases that come and go.

### OperationEngine

*State.* Rows: `phase`, `ext` (external_id), `deleted`, `leased`. Journal:
`opState`, `opKind`, `opRes`, `opRef`, `attempt`, and `elapsed`, the operations
whose verify deadline passed. Cloud: `machine`, `label`, `listed`, `wire`
(requests on the way), `botched`. Process: `boot`, `toResume`, and the one engine
goroutine with `pc`, `cur`, `seen`. A crash loses the process part only.

*Actions.* One per transaction or provider call of the handler. `dispatch` is
`TxB` or `GiveUp` (the attempt cap), then the call (`ApplyDedup`, `ApplyCall`),
then one of `TxC`, `ApplyDeleteNotFound`, `ApplyFailed`, `ApplyRetry`,
`ApplyUncertain` or `ApplyRaced` (the CAS misses). `poll` is `PollObserve` and
then `PollSucceeded`, `PollNotFound`, `PollFailed`, `PollAgain`,
`ReadinessExhausted` or `PollRolledBack`. `verify` is `VerifyPark`,
`VerifyDelete`, `VerifyCreate` with `Discover`, `Adopt`, `NotListed`,
`DeleteVerified`, `FreezeUncertain`. `Engine.Resume` is `ResumeScan`,
`ResumeRoute`, `ResumeConflict`, in the order `boot.Serve` calls it. Handlers are
`Journal`, `JournalDelete`, `TombstoneUnmaterialized`, `JournalStop`,
`JournalStart`, the two resolutions, and the lease side seen from here (`Reserve`,
`EndLease`). Faults: crash, lost request, lost response, refusal, a failed
commit, a machine that vanishes or dies while it starts.

*Abstractions.* Delays are any waits. `WindowCoversLag` says that the verify
window outlasts request and list lag, which is what the code asks of its
configuration; the run `engine_recovery` is without it. `leased` has at most
one lease per row here; sharing is in `Acquisitions`. That a stop's or a start's Data is
lost is in neither this module nor `Drivers`, where only an adopted create has none.

*What stays open.* `MachineAccounted` and `RowContract` admit an operation that is open
for ever, and the machine it knows. `OpResolves` says which those are once faults stop:
`Stranded`, left in flight with nobody to drive it, because boot stayed gated or the
transaction after `Apply` did not commit, until the next restart; `PolledInVain`, a start whose
machine stopped again, which no deadline ends; `RolledBack`, a create whose row was
tombstoned before it had an external id, which rolls back at every poll. Everything else, a
create whose machine vanished before its first poll, say, succeeds, fails or is frozen.

### RowLife

*State.* `life` of a row (none, a phase, deleted), `leased`, and of each operation its kind, row and
`outcome`. *Actions.* `Begin`, `Succeed`, `Fail`, `Forget` (the tombstone of a row without machine),
`FailForgotten` (a create whose row was forgotten can only fail), `Lease`, `EndLease`. Everything that makes the engine
hard is absent: journal states, clouds, lost answers, recovery. `RowContract` is the refinement, with
`LifeOf` and `OutcomeOf`: frozen operations are open, and a tombstone hides the phase a
row died in. Its phase changes are among those of the table of `phase.go`, which no CAS of the store consults, and it
says more: which step of which operation may use which transition, and that row and operation
move together.

### Allocation, Acquisitions

*Promise.* In `Allocation` an acquisition waits, is granted a share of a machine (`Grant`, if
there is `Room`), is given up or ends; machines arrive, and leave when nobody holds them. There are no rows,
leases or workers. `SharesAreGranted` is the refinement: `CallerState` merges pending and provisioning,
`HeldMachine` is the row of the lease that the acquisition names, `Kept` the live rows that are not
being stopped or deleted. A late worker that binds an acquisition which is over, a lease without its
acquisition, or a machine that goes under its holder would each be a step that `Allocation` does not have.

*State.* Rows: `phase`, `deleted`. Acquisitions: `acqState`, `request`, `pending`
(pending_resource_id), `leaseID`. Leases: `leaseState`, `holder`, `on`. Memory:
`work` (for each API worker and for the sweeper: where it is in the code, which
acquisition it handles, the rows it read and the verdict it came to), and
`ended`, `waiting` (the terminal callback and the list it goes through).

*Actions.* `Acquire` records; `Satisfy`, `ReserveCandidate`, `CandidateLost`,
`ListParked`, `startParked`, `StartLost`, `Queue`, `scaleOnDemand`, `ScaleFails`,
`NoCapacity` are the ladder of `Scheduler.Satisfy`, each read and each transaction
a step. `Resume`, `ExpirePending`, `NotExpired`, `ExpireProvisioning`, `ReadRow`,
`Settle` are the sweep, `HandleOpTerminal`, `resolvePending`, `CallbackDone` the
callback; both end in `Resolve`, which binds, fails or re-pends. `Release`,
`Withdraw`, `SweepExpired` are the lease manager. `Park`, `StartRow`, `Delete`,
`Tombstone`, `Drain`, `Undrain`, `CreateRow` are the gates that reconciler and
operator go through; `mintRecord`, `Orphan`, `Reappear`, `TombstoneOrphan` those of
discovery; `OpSucceeds`, `OpFails` the engine's contract: row by row they are `Succeed` and `Fail`
of `RowLife`, which the engine is proved to implement.

*Abstractions.* All rows have one class and capacity `Total`. The ranking is any
choice of three; wait estimates, deadlines and start backoff are any choice. The
list of a sweep is read acquisition by acquisition. The lease count that `RunOnce`
takes outside the draining transaction is no guard. Errors of the store other than
conflicts are left out. The environment may do more than the reconciler would
(drain at any time, for example), which only adds behaviours.

### PoolReconciler

*State.* Rows of one pool in `phase`, with `ext`, `leased`, `protected`, `idle`; the
pool itself in `exists`, `spec`, `paused`; `backoff`; `queued`; and `cyc`, the local
variables of a `RunOnce`: its pass, snapshot, spec, counters and budget. `others`
records whether anyone else has changed the pool since the list was read.

*Actions.* `StartCycle` lists, then one action per transaction of each pass:
`Undrain`, `WarmUp`, `ScaleUp` with `CreateOne` and `CreateFails`, `ReclaimParked`,
`CountActive` and `DrainReady` (the count is a read of its own), `DeleteDrained` (of
drained and of failed rows), `ParkIdle`. A closed gate passes the row over. Around it
`Bind`, `Release`, `Enqueue`, operator commands, pool commands, `OpSucceeds` and
`OpFails`, lost machines, crashes.

*Abstractions.* Any row of a pass may be its next one. A tombstoned row frees its
slot. A pause takes effect with the next cycle, as in the code.

### Billing, Accounting, Reclaim

*State.* `now`; the `class` (reclaim policy and billing policy); of each row its phase,
`created`, `since` (the idle clock), `parkedAt`, `op` (when its delete was journaled) and
`leases` with start and end; of each acquisition its state and `deadline`; the `cache` of
the adaptive buffer; the `sweep`.

*Actions.* `StartSweep` reads rows, queue and buffer and claims ready rows for queued
acquisitions; `SweepDraining`, `SweepParked`, `SweepReady` are its transactions.
A sweep takes no time and comes at most one interval after the last one; everyone else
steps in between. `Paid`, `NextBoundary`, `EffectiveBuffer`, `Window`, `Decide`, `AdaptiveBuffer`,
`UsefulMillis` (clip, sort, merge: `Clip`, `Latest`, `Merge`), `Overrun` and `PaidIdle` are operators; the properties compare them
with definitions by enumeration (`Jumps`: one more unit of lifetime costs more).

*What the code does at the edges.* A lifetime of exactly `k` increments counts the
boundary as passed, and a delete confirmed at that instant as an overrun. `JournalStop`
re-checks no queue, so `QueueKeepsMachines` is about deletes. An increment shorter than
cutoff and interval together has no usable window.

*Abstractions.* `deadline` is the end of an acquisition's queue budget, 0 if it has none (`maxWait`
0); binding in time sets it to the time of the binding, so that it says until when the
acquisition was in the queue. The observed delete durations of an adaptive policy are any of
`Observations`. In the program there are never any, see disagreement 10.

### Discovery

*State.* `machine`, `origin` (its labels), `young` (a list may miss it); `row`, `create`,
`leased`, `graced`; `up`, `fails` (the health tracker); `sweep` with the three readings.

*Actions.* `Discover`, `ListRows`, `ListOps` are separate reads. Then per machine
`RefreshObserved`, `LeaveToVerifier`, `Adopt` or `HandleGhost` (followed by `DrainGhost` and
`DeleteGhost`, each a transaction), then `CheckHealthy` and per unmatched row `Get` and
`ConfirmOrphan`. Creates, deletes, leases, outages, out-of-band changes and
crashes step in between.

*Abstractions.* `Get` is authoritative and only lists lag. Grace is a flag that
passes. A machine whose create is open belongs to the verifier, so `MachinesTracked` starts
when the create is over. A ghost that is stopped is minted `parked`, and the drain that
follows misses; a crash after the mint leaves a ready row; both are tracked, and
neither is deleted by a later sweep. A row that the sweep mints from a stale list is
orphaned and tombstoned by later sweeps (`PhantomsCleared`).

### Drivers

*State.* `driver`; `cloud` and `listed`; `op`, the operation as the journal has it (kind, stage,
reference, Data, the row's phase); `zop`, the zonal operation or action that Data
names; `parked`, the pacer.

*Actions.* An `Apply` is a read (`CreateRead`, `StopStartRead`, `DeleteRead`), for creates the
lookup of image and type (`LookupFails`), and the request (`SendCreate`, `SendStopStart`,
`SendDelete`, `SendFails`, and GCE's re-read `Rescue`). Between any two of them the cloud, its
list, the pacer and the account's owner move. Each driver has its own error map
(`AwsErr` and so on), dedup and completion predicate (`AwsObserve` and so on);
`HandleApplyError`, `Poll`, `VerifyCreate`, `VerifyDelete` are the engine.

*Abstractions.* Native states are merged into one vocabulary. Replies are lost,
throttled, refused, unavailable, not found, conflicting, or unreadable (docker). The
verify window lets lists catch up (`Caught`); too short a window is in `engine_recovery`.
The attempt cap is in `OperationEngine`. That EC2 answers a client token whose instance is
terminated with that instance is left to the cloud.

### Once, Idempotency

*State.* Per client its request and what it was told; committed records `rec` and effects
`eff`, `open` ones among them; the one write transaction: holder `tx`, place `pc`, and what it
has written so far, `wrec` and `weff`.

*Actions.* `Send`, `Retry`, `BeginTx`; `Begin`, `Effect` or `Refuse`, `Complete`, `Commit` inside the
transaction; `Crash` anywhere in it or after it; `OpTerminal`, `Expire`, `GC`.

`ActsOnce` is the refinement: with `outcome` the record's effect, `owner` the key of an effect
and `open` itself, every step is a step of `Once` or a stutter. `GC` is in the store and tested,
but no loop of the program calls it: records are kept for ever at present, and the model
shows that collecting them would be safe. `BeginInProgress` is answered by no run of the
program, because claim and completion are one transaction; `Fail` is never called.

## Runs

| Run | Instance | Shows |
|---|---|---|
| `engine_life` | 1 row, 3 operations, 2 machines, 3 faults, one operation without label discovery | creates stay unique, no machine forgotten, no row wedged, no leased machine deleted; the engine implements `RowLife` |
| `engine_recovery` | 2 rows, 2 operations, 2 machines, 2 faults, a window that may close too early | recovery races the engine: nothing in flight left behind; doubles happen, and are the only machines without a row |
| `engine_live` | 2 rows, 2 operations, 3 machines, 1 fault, starts that die, commits that fail, fairness | a journaled operation succeeds, fails, is frozen or is in one of the three places of `OpResolves`, also while `Resume` races the engine |
| `acq_life` | 2 callers sharing, 1 machine, every actor | leases, acquisitions and phases agree; no leased machine stopped, deleted or forgotten; what callers see is `Allocation`, so no stale read revives an acquisition |
| `acq_contention` | 2 callers, whole/share/classless requests, 1 machine | no over-allocation in any dimension, exclusive leases alone |
| `acq_live` | 1 caller, 1 machine, fairness | every acquisition is settled |
| `pool` | 3 rows, 3 specs, budget 2, 2 interferences, fairness | `maxResources` holds for every create; an undisturbed cycle never overshoots replicas nor undercuts `minReady`; the pool converges, so no pass starves another |
| `reclaim` | 2 machines, 2 callers, 5 class policies, clock to 9 | machines go only in the window of a real cost jump, no window of an idle machine is missed, fresh or released, queued work keeps its machine, overruns and busy time are right |
| `discovery` | 2 machines, 3 row ids, 1 create, 1 interference, fairness | one live row per machine, foreign machines never deleted, outages lose nothing, every owned machine tracked, phantoms cleared |
| `drivers` | 6 drivers, 2 machines, 4 faults, 4 operations, fairness | one machine per create, failed creates leave nothing, success is on target, a refused stop has stopped nothing, polls end |
| `drivers_lost_data` | aws, 1 fault, 1 operation, fairness | violated: see below |
| `idempotency` | 2 clients, 3 keys (one per endpoint), 2 bodies, 3 effects, 2 crashes or refusals, fairness | the handlers implement `Once`; answers are durable; persistent clients are answered |

*Bounds.* Three operations let a row be created, parked or deleted and started
again; two faults are needed for a lost answer followed by a crash, three for a
crash during the recovery from it. In `engine_live` two rows keep two operations open at once, which is
what `Resume` needs to meet a conflict on one and leave the other behind; each exception of
`OpResolves` can be reached, so that dropping any one of them makes the run fail. It starts
from an empty process, or one whose discovery has minted a stopped machine as parked
(`discovery.go:295`), so that two operations are enough for a start beside a create, and
its third machine is for a create that is dispatched again after its first machine vanished. Two callers on one
machine make every race on a reservation; an acquisition binds at most once, so
as many leases as callers never run out. With one machine a pre-bind cannot move
to another row while someone still holds the first; that case is covered by the
proofs, which are for any number of machines. In `pool` the specs grow the pool within a
maximum, shrink it without one and empty it, and a budget of 2 is smaller than what
three rows may ask for. In `reclaim` the clock passes a whole period of every policy that
bills by the period except the longest, whose window (that of an adaptive buffer)
opens before the end; the increment of 7 leaves time for a machine to be leased, released and idle
before its window opens, and a queue budget of 5 for an acquisition to run out of it. In `discovery` one interference on top of
a lagging list and an ended create is what ghosts, phantoms and outages each need.
In `drivers` four faults are a lost reply, a throttled retry, someone else's switch and one more; four
operations are create, stop, start and delete. Identities are interchangeable, so
that permuting them is sound; runs with temporal properties other than action properties do
without symmetry. Deadlock is not checked: when all identities are used up, a
model really has nothing left to do.

*Fairness.* Engine: `Due` orders by age and a rescheduled operation yields, so an
operation that is due again and again is driven (SF); the handler runs to its
end, the cloud handles what reached it, lists catch up, deadlines pass, the
supervisor restarts the process (WF). Faults are bounded. Acquisitions: between
crashes all goroutines run, and there is a last crash; operations end (`OpResolves`, outside its
exceptions: where an operation stays open, its acquisition runs into `pendingTimeout` instead). `pendingTimeout` passes, so an acquisition that the sweep finds
open again and again expires (SF). A machine whose start failed is skipped under
a backoff that grows to minutes, and a started one is parked only after an idle
time, so some pass finds none to start (SF on `AllParkedBackOff`); without this a
model without clocks could start and park one machine for ever. Pool: the loop has a
timer of its own, operations end, and backoffs, idle times, leases, orphans and
queued acquisitions run out (WF). Discovery: sweeps and health checks are periodic and
outages end (WF). Drivers: the engine calls, the cloud finishes what it began, parks end
(WF). Idempotency: handlers run to their end and clients retry (WF); the single
writer connection is handed out in turn (SF on `BeginTx`).

## Proofs

For every value of the constants. The assumptions are named in the modules that declare
the constants: `Null`, `None` and the sweeper are no identities of anything else, row ids are
no label words, flags and bounds have their types, capacities are counts, durations are
naturals, billing classes have the fields of a policy, and a pool has finitely many rows and specs
that the API admits. Every safety property that a run checks is also a
theorem, refinements included. Each was first checked by TLC.

`OperationEngineProofs`. `TypeCorrect`: `TypeOK` with `CurOK` (the goroutine
works on an operation that has been journaled) is inductive. `RedispatchIsSafe` and
`CreateIsUnique` are for a calibrated window. That a journaled create has neither
request nor machine is not inductive: an operation is sent back to the journal by
`NotListed` because the goroutine saw an empty list with a clock value from
before, or by `ApplyRetry` because the driver vouched that nothing happened.
`RedispatchInv` adds where requests can be (`WireInv`), that labels are of journaled
creates (`LabelInv`), what a passed deadline means (`ElapsedInv`) and what the
goroutine's memory means at each point of the handler (`HandlerInv`), for
operations that `Resume` may meanwhile have moved. One lemma per group of actions.

`TransientRowsHaveOps` (no row is wedged) needs `JournalInv`: a row has at most one open
operation (`OneOpen`) and a create is the first one (`CreateAlone`), because otherwise the end of
one operation would take the row out from under another; only creates are frozen
(`OnlyCreatesFreeze`), so that a resolution knows which phase to leave; leased rows are allocated.
`PhasesMoveLegally` needs types only: each CAS names its
own source phase. `LeasesAreProtected` and `MachinesAreAccounted` rest on
`MachineInv`, whose heart is `SeenInv`: what the goroutine may conclude from the answer it
holds, although the operation may have been moved by `Resume`, the row tombstoned and the machine
vanished since; together with whose label a row's machine carries (`ExtLabelled`)
and which row a delete is for (`DeleteRow`). `AccountedInv` adds that under a calibrated window the machine of an accepted create is the one its
row names, or the one the goroutine is about to write there (`OwnMachine`). `NothingLeftInFlight` is `InFlightOwned` for a store whose commits do not fail:
`OwnedInv` ties every operation in flight to the goroutine or to what recovery has still to route.
With failing commits the statement is false, and the operation waits for the next restart; the runs
with `StoreMayFail` therefore do not check it.

`ContractIsKept` is the refinement of `RowLife`. An operation that ends must find its row in the phase of its
kind, which is `JournalInv`. `LifeInv` adds what is needed for tombstones: a row without
external id is in creation or failed (`Materialized`, because an accepted create has written
the id, `AcceptedHasMachine`), and a tombstoned row can have an open create but no other open operation
(`ForgottenCreates`). One lemma says what each kind of transaction looks like from outside
(`Begins`, `Succeeds`, `DeleteSucceeds`, `Fails`, `MoveUnseen`, `RowsUnseen`), one per group of actions
applies them.

`AcquisitionsProofs`. `TypeCorrect` needs `WorkInv` (a busy worker has an
acquisition). `Safe` is the conjunction of `Agree`, `AllocatedHasLease`,
`LeasedKept` and `ExclusiveAlone`. The four need each other: the last lease of a
row can only be recognised if leases name their holders and rows (`Agree`, the
lease-wise form of `BoundIffLeased`), and an exclusive lease stays alone because a
reservation looks at leases and not at the phase, which draining and orphaning
decouple from them. Frame lemmas cover the many steps that move only
acquisitions (`AcqFrame`), a row (`RowFrame`) or a tombstone (`TombstoneFrame`);
`ReserveSafe`, `EndLeaseSafe` and `ResolveSafe` are the rest. `TerminalIsFinal` is an
action property proved from the types.

`CapacityIsRespected` is about sums over the active leases of a row. The community modules define
such a sum by a fold that chooses an element at each step, so that neither its existence nor its
independence of the choices is given: `SumTable` proves that the fold's recursive function
exists and `SumsAny` that any choice gives the same sum, both by a least counterexample on
the cardinality of the set (`SmallestSet`), in place of the induction theorems, which the provers
cannot instantiate. `SumAdd` and `SumZero` are what the reservation and the end of a lease
need. `CapacityInv` adds that a row's active leases are finitely many and that requests keep
their vectors. Negative constraints are admitted, as in the code, which counts them as nothing.

`PromiseIsKept` is the refinement of `Allocation`. `Agree` makes the holders of a machine and the active leases
of its row the same people under two names (`HoldersAreLeased`), so that the sums of claimed capacity are equal, which
is a re-indexing of the fold (`SumRename`, `ClaimedIsUsed`). A reservation is a `Grant`
(`ReserveGrants`), the end of a lease an `End`, and a row leaves `Kept` only without leases
(`LeasedKept` is what makes `Leave` possible). A step that ends a lease and moves the row to ready is one
`End`, since both phases are kept. All steps of workers before the reservation are stutters.

`PoolReconcilerProofs`. `CreatesStayWithinMax`, `CyclesDoNotOvershoot`: the cycle counts on its
snapshot while it changes the rows, so the invariant says what its counters still mean
(`PoolInv`). `MaxInv`: until the creates are decided every row was in the list, so that a
quota computed from the list is not too large, and from then on there is room for all that
are left. `CountInv`, for a cycle that nobody disturbs: on which side of `replicas` the pool
started decides which passes act (`SideOf`), the remaining gap is exact where it is used
(`GapOf`), and there are at least as many ready machines as the cycle believes (`ReadyOf`).
`GoingInv` and the choice of the next pass with work (by `LeastNatural`) carry them from pass to pass.

`BillingProofs`. Arithmetic for every policy, interval and slack. `WindowNotSkipped`: a sweep
that decides to keep a machine is followed by one that is not past the cutoff, because
`EffectiveBuffer`'s floor makes the window longer than the interval. `ReclaimLeavesTime`: what
the window admits is journaled at least an interval before the boundary. `BoundaryIsNextJump`:
`NextBoundary`, computed by division, is the next jump of the bill. `P95IsObserved`: the percentile, which
the model defines as a least element, exists and has the rank that the code's index gives it.
`UsefulIsCovered`: the merge counts each instant that some interval covers once, for any finite
set of intervals, however they nest, touch or reach beyond now. The fold takes the interval with the latest start off and merges
the rest first. Its recursive function exists (`MergeTable`); among the sets for which it counts wrongly
one would be smallest, and `MergeStep` shows that adding the latest interval to a correct merge gives
a correct one: it meets only the current interval, because all merged before began earlier.

`ReclaimProofs`. `ReclaimsAreInWindow` and `OverrunsAreCounted` follow from `BillingProofs` and `TimeInv`
(nothing happens before a machine is created, sweeps are at most an interval apart and take no
time). `QueueIsServedFirst` follows from what the sweep re-reads inside its
transaction. `WindowsAreMet` says what a sweep may leave behind (`LeftAloneInv`: a machine still to be
visited, not due, outside its window, or wanted by the queue since the window opened) and that the sweep's bound is not used up before all rows
are visited (`CostInv`). That a machine is kept for an acquisition is remembered by `Wanted` after the
acquisition was bound or ran out of its budget (`WantsStays`, `AskedInv`), and a ready row has no
active lease (`LeaselessInv`), so that the sweep, which passes over
machines with one, considers it. The theorem covers machines that have served leases and is silent only
where an acquisition was in the queue since the window opened. It has two hypotheses, which all classes of the run `reclaim` satisfy:
`BudgetSuffices`, because a bound smaller than the fleet may spend itself on others until a
window has closed; and `WindowFits`, an increment of at least half the buffer and one interval,
because in a shorter increment the window opens before the boundary before it and no sweep
need fall into what is left. A billing increment of less than half the buffer is never reclaimed in.
`UsefulTimeIsBusy` applies `UsefulIsCovered` to the leases of a machine, with `LeaseInv`: they are
finitely many, begin after the machine was created and not in the future, so that what they cover
was paid for and the clamp of `PaidIdle` loses nothing.

`DiscoveryProofs`. `MachinesHaveOneRow`, `ForeignMachinesAreSafe`, `OutagesLoseNothing`, from `DiscoveryInv`.
The sweep acts on readings of three ages, and `ReadInv` says what stays true of them: a row that was
read as live keeps its machine, whatever became of it, and what was confirmed gone stays gone. `RowInv` says that
rows point at machines that were there, and that rows of foreign machines are observed only: this
is what the delete gates rely on. Only `Confirm` orphans or writes off (`NextQuiet`).

`DriversProofs`. For each of the six drivers and any faults. `OneMachine` is not inductive: no driver
counts machines before it creates one, each relies on a name, a token or a lookup. `AtMostOne` counts machines
in any state, which is what names and tokens refuse; `NothingSent` and `NothingLeft` say what holds before a request and
after a failure where only lookup and verification protect. `CreatesMakeOneMachine` and `FailedCreatesAreClean` follow. `RefusedStopsAreClean` goes
through each driver's error map and re-read. `SuccessesAreOnTarget` needs `TargetInv`: what Data may
say while an operation is polled (`DataInv`), the row after it (`RowTable`), and for the
fake, whose completion predicate looks at no kind, where its machines can be.

`IdempotencyProofs`. `IInv` adds to the types what the open transaction has written at
each place of the handler (`Written`), that past `Begin` nobody else uses its key and
its effect (`Claimed`), that a committed record is complete and names the effect of
its own request (`RecordsTrue`), and that the key of an open operation still remembers it
(`OpenRemembered`; this is where `GC`'s test for a terminal operation is needed).
`Durable` and `OneOpenPerKey` follow. `Refinement` proves `Spec => ActsOnce`: a commit is
`Happen`, `OpTerminal` is `Close`, `GC` is `Forget`, and every other step, a crash too, is a stutter.

*Form.* Where Go tests conditions in order, the models use chains of IF, not CASE with overlapping
guards, which to the prover is a choice among them. Theorems about least elements use that `<` is
well-founded on the naturals (`LeastNatural`).

*Only model-checked.* Liveness (`OpResolves`, `AcqResolves`, `Converges`, `MachinesTracked`,
`PhantomsCleared`, `PollsEnd`, `Answered`), which is out of reach of the prover. There are no `RECURSIVE`
operators here; what the folds compute is proved by least counterexamples.

## Disagreements between code and comments

With a run:

1. `drivers_lost_data`: `provider.go:171-173` asks drivers to tolerate lost Data "by degrading to
   resource-status observation". The AWS driver answers `OpUnknown` then (`aws.go:681-690`), so a
   create that was adopted by its label, or found by the dedup lookup, is polled for ever
   although its instance runs.

The models also contain the following, which no property asserts away:

2. Deleting a row without external id tombstones it under its open create; the comment
   at `service.go:313-315` says that an active operation makes this a conflict. The machine is then
   one without a row, known to its open operation only (`MachineAccounted` admits it as such).
3. A stop that landed with its answer lost and then fails leaves a `ready` row with a
   stopped machine; `engine.go:687-689` says that "a failed stop leaves a running machine".
   `FailedStopIsClean` shows that the drivers' own refusals do not cause it.
4. The attempt cap (`engine.go:197-207`) does not apply to polls, so a machine that dies while
   starting, or that someone keeps switched the other way, is polled for ever; the docker
   driver relies on the cap.
5. A start whose readiness probe is exhausted leaves a `failed` row, and a sweep that
   sees it before the callback fails the acquisition (`scheduler.go:763`), against "A
   failed START is not a failed acquisition" (`scheduler.go:673`).
6. A leased machine that is lost and listed again as stopped becomes `parked` under its
   lease (`discovery.go:204`); `docs/12_PARKED_MACHINES.md:193` has it that a leased machine is never
   parked. `LeasedKept` shows that it is still not deleted.
7. The park pass counts hot machines from the start of the cycle, without the drains
   of that cycle: `minRunning` may be undercut until the next one (`reconcile.go:692`).
   `Converges` shows that it is restored; with three rows the undercut itself is met in few behaviours.
8. docker reports a create whose reply cannot be read as without side effect
   (`docker.go:319`), against the meaning of `EffectNone` in `errors.go:24-26`. The container's
   name keeps the retry from making a second one (`OneMachine`).
9. "Resume routes every non-terminal operation after a restart" (`engine.go:100-101`), but it returns at the
   first conflict (`engine.go:117-118`), which the goroutine that boot has started before it can
   cause, and boot then logs the error and stays gated (`boot.go:279-280`). What was not routed yet
   stays in flight until the next restart (`Stranded`).
10. `docs/11_COST_AWARE_LEASING.md` §12 and `reconcile.go:401` describe a buffer from the p95 of recent
   deletes. `RecentTerminal` (`sqlite/operations.go:107`) selects on a column `provider`, the table has
   `provider_instance` (`0002_domain.sql:116`), and `reconcile.go:415` drops the error, so
   nothing is ever observed. The model's observations include that case.

## Plan

1. Done: all modules above, and their runs.
2. Done: theorems for the safety properties of all modules, and three refinements: `Once`,
   `Allocation` and `RowLife`.
3. Left: `PoolReconciler`, `Reclaim` and `Discovery` also move rows; that they stay within a `RowLife`
   with drains and orphans is not stated. A capacity that `refreshObserved` changes under leases.

*Not modelled.* `refreshObserved` may shrink the capacity of a row under its leases
(capacity is a constant here). The batch limit of `Step`. Volumes, capacity and price lookups, the pacer's rates
and semaphore, the ranking of images, the construction of requests. HTTP decoding
and authentication, CLI, API client, web UI, metrics, ids, configuration and secrets, schema
migration: I/O and presentation without state that the properties above could tell
apart. The conformance suite is test code; what it tests is in `Drivers`.
