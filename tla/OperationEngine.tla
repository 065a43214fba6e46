--------------------------- MODULE OperationEngine ---------------------------
(***************************************************************************)
(* The operation journal and the engine that drives it                     *)
(* (internal/operations/engine.go), the handlers that append to the        *)
(* journal (internal/app, internal/provision, internal/reconcile), the     *)
(* boot-time recovery (Engine.Resume), and the cloud behind the driver.    *)
(*                                                                         *)
(* Durable state is what the SQLite file holds; every store transaction is *)
(* one step.  The engine is one goroutine: between two of its steps it     *)
(* keeps in memory the operation it drives (cur), where it is in the       *)
(* handler (pc) and what the provider last answered (seen); a crash loses  *)
(* these three and nothing else.                                           *)
(*                                                                         *)
(* Time is abstracted: next_attempt_at delays are arbitrary waits, and the *)
(* verify window of an operation is open until an unconstrained step says  *)
(* that its deadline passed.                                               *)
(***************************************************************************)
EXTENDS Naturals, FiniteSets, Phase

CONSTANTS
    Resources,               \* identities of resource rows
    Ops,                     \* identities of operation rows
    Machines,                \* identities the cloud gives to machines
    Null,                    \* a NULL column, or no value
    maxParkOpAttempts,       \* the cap on stop/start dispatches (8 in the code)
    LabelDiscovery,          \* operations of drivers with SupportsLabelDiscovery
    WindowCoversLag,         \* the verify window outlasts request and list lag
    StartsMayDie,            \* a starting machine may stop before it runs
    StoreMayFail,            \* a transaction of the engine may fail to commit
    MaxFaults                \* bound: provider faults, crashes, lost machines

ASSUME ConstantsAssumption ==
    /\ Null \notin Resources \cup Ops \cup Machines
    /\ maxParkOpAttempts \in Nat
    /\ LabelDiscovery \subseteq Ops
    /\ WindowCoversLag \in BOOLEAN
    /\ StartsMayDie \in BOOLEAN
    /\ StoreMayFail \in BOOLEAN
    /\ MaxFaults \in Nat

VARIABLES
    (* resource rows *)
    phase,      \* phase of each row; "none" before the row exists
    ext,        \* external_id
    deleted,    \* rows with deleted_at set
    leased,     \* rows with an active lease
    (* operation rows *)
    opState,    \* journal state; "unborn" before the row exists
    opKind,     \* create | delete | stop | start
    opRes,      \* resource_id
    opRef,      \* machine of the action or of external_op
    attempt,    \* attempt counter
    elapsed,    \* operations whose verify_deadline_at has passed
    (* the cloud *)
    machine,    \* state of each machine
    label,      \* fleetplane.io/op label of each machine
    listed,     \* machines that list calls return
    wire,       \* operations with a request the cloud has not yet handled
    botched,    \* operations the cloud reports as failed
    (* the process *)
    boot,       \* down | booting | resuming | ready | gated
    toResume,   \* in_flight operations Engine.Resume has still to route
    pc,         \* where the engine goroutine is
    cur,        \* the operation it drives
    seen,       \* what it last read
    (* bound *)
    faults

resVars  == <<phase, ext, deleted, leased>>
opVars   == <<opState, opKind, opRes, opRef, attempt, elapsed>>
cloud    == <<machine, label, listed, wire, botched>>
goroutine == <<pc, cur, seen>>
recovery == <<boot, toResume>>
vars     == <<resVars, opVars, cloud, goroutine, recovery, faults>>

-----------------------------------------------------------------------------
(* Vocabulary *)

OpKinds    == {"create", "delete", "stop", "start"}
OpenStates == {"journaled", "in_flight", "external_accepted", "verifying",
               "uncertain"}
Terminal   == {"succeeded", "failed"}

MachineStates == {"absent", "creating", "running", "stopping", "stopped",
                  "starting", "deleting", "gone"}
Exists(x)  == machine[x] \notin {"absent", "gone"}

isParkOp(kind) == kind \in {"stop", "start"}

(* An answer of the driver as the engine classifies it (provider.Classify, *)
(* provider.Effect), of ObserveOperation, or of Discover and Get.          *)
Answers == {"pending", "accepted", "rejected", "not_found", "effect_none",
            "effect_maybe", "running", "succeeded", "failed", "found", "present"}

Reading(a, x, late) == [answer |-> a, ref |-> x, late |-> late]
NoReading == Reading("pending", Null, FALSE)

Open(o)       == opState[o] \in OpenStates
OpenOpsOf(r)  == {o \in Ops : Open(o) /\ opRes[o] = r}
Live(r)       == phase[r] # "none" /\ r \notin deleted

TypeOK ==
    /\ phase \in [Resources -> Phases \cup {"none"}]
    /\ ext \in [Resources -> Machines \cup {Null}]
    /\ deleted \in SUBSET Resources
    /\ leased \in SUBSET Resources
    /\ opState \in [Ops -> OpenStates \cup Terminal \cup {"unborn"}]
    /\ opKind \in [Ops -> OpKinds \cup {"none"}]
    /\ opRes \in [Ops -> Resources \cup {Null}]
    /\ opRef \in [Ops -> Machines \cup {Null}]
    /\ attempt \in [Ops -> Nat]
    /\ elapsed \in SUBSET Ops
    /\ machine \in [Machines -> MachineStates]
    /\ label \in [Machines -> Ops \cup {Null}]
    /\ listed \in SUBSET Machines
    /\ wire \in SUBSET Ops
    /\ botched \in SUBSET Ops
    /\ boot \in {"down", "booting", "resuming", "ready", "gated"}
    /\ toResume \in SUBSET Ops
    /\ pc \in {"idle", "apply", "called", "observed", "discover", "looked"}
    /\ cur \in Ops \cup {Null}
    /\ seen \in [answer : Answers, ref : Machines \cup {Null}, late : BOOLEAN]
    /\ faults \in Nat

Init ==
    /\ phase = [r \in Resources |-> "none"]
    /\ ext = [r \in Resources |-> Null]
    /\ deleted = {}
    /\ leased = {}
    /\ opState = [o \in Ops |-> "unborn"]
    /\ opKind = [o \in Ops |-> "none"]
    /\ opRes = [o \in Ops |-> Null]
    /\ opRef = [o \in Ops |-> Null]
    /\ attempt = [o \in Ops |-> 0]
    /\ elapsed = {}
    /\ machine = [x \in Machines |-> "absent"]
    /\ label = [x \in Machines |-> Null]
    /\ listed = {}
    /\ wire = {}
    /\ botched = {}
    /\ boot = "booting"
    /\ toResume = {}
    /\ pc = "idle"
    /\ cur = Null
    /\ seen = NoReading
    /\ faults = 0

-----------------------------------------------------------------------------
(* Journaling handlers.  Each is one transaction: gates, phase and the     *)
(* journaled operation commit together.  They serve the API, which is      *)
(* gated on readiness, and the reconciler and scheduler, which are not;    *)
(* so they need only a running process.                                    *)

(* Operations().Append: the partial index op_active_per_resource turns a   *)
(* second open operation on a resource into a conflict.                    *)
Append(o, kind, r, ref) ==
    /\ opState[o] = "unborn"
    /\ OpenOpsOf(r) = {}
    /\ opState' = [opState EXCEPT ![o] = "journaled"]
    /\ opKind' = [opKind EXCEPT ![o] = kind]
    /\ opRes' = [opRes EXCEPT ![o] = r]
    /\ opRef' = [opRef EXCEPT ![o] = ref]
    /\ UNCHANGED <<attempt, elapsed>>

(* Prepared.Journal, by CreateResource, scaleOnDemand and the pool loop.   *)
Journal(r, o) ==
    /\ boot # "down"
    /\ phase[r] = "none"
    /\ phase' = [phase EXCEPT ![r] = "provisioning"]
    /\ Append(o, "create", r, Null)
    /\ UNCHANGED <<ext, deleted, leased, cloud, goroutine, recovery, faults>>

(* DeleteResource and journalDeleteInTx of a row without external_id.      *)
TombstoneUnmaterialized(r) ==
    /\ boot # "down"
    /\ Live(r)
    /\ r \notin leased
    /\ ext[r] = Null
    /\ deleted' = deleted \cup {r}
    /\ UNCHANGED <<phase, ext, leased, opVars, cloud, goroutine, recovery, faults>>

(* DeleteResource and journalDeleteInTx of a materialized row.             *)
JournalDelete(r, o) ==
    /\ boot # "down"
    /\ Live(r)
    /\ r \notin leased
    /\ ext[r] # Null
    /\ CanTransition(phase[r], "deleting")
    /\ phase' = [phase EXCEPT ![r] = "deleting"]
    /\ Append(o, "delete", r, ext[r])
    /\ UNCHANGED <<ext, deleted, leased, cloud, goroutine, recovery, faults>>

JournalStop(r, o) ==
    /\ boot # "down"
    /\ Live(r)
    /\ phase[r] = "ready"
    /\ r \notin leased
    /\ ext[r] # Null
    /\ phase' = [phase EXCEPT ![r] = "parking"]
    /\ Append(o, "stop", r, ext[r])
    /\ UNCHANGED <<ext, deleted, leased, cloud, goroutine, recovery, faults>>

JournalStart(r, o) ==
    /\ boot # "down"
    /\ Live(r)
    /\ phase[r] = "parked"
    /\ ext[r] # Null
    /\ phase' = [phase EXCEPT ![r] = "starting"]
    /\ Append(o, "start", r, ext[r])
    /\ UNCHANGED <<ext, deleted, leased, cloud, goroutine, recovery, faults>>

(* Mutant: reserves whatever the phase. *)
ReserveAnyPhase(r) ==
    /\ boot # "down"
    /\ Live(r)
    /\ phase' = [phase EXCEPT ![r] = "allocated"]
    /\ leased' = leased \cup {r}
    /\ UNCHANGED <<ext, deleted, opVars, cloud, goroutine, recovery, faults>>

(* The two ends of a lease, as far as the engine can see them: reserve and *)
(* endLeaseLocked for one exclusive lease.                                 *)
Reserve(r) ==
    /\ boot # "down"
    /\ Live(r)
    /\ phase[r] = "ready"
    /\ phase' = [phase EXCEPT ![r] = "allocated"]
    /\ leased' = leased \cup {r}
    /\ UNCHANGED <<ext, deleted, opVars, cloud, goroutine, recovery, faults>>

EndLease(r) ==
    /\ boot # "down"
    /\ r \in leased
    /\ leased' = leased \ {r}
    /\ phase' = [phase EXCEPT ![r] = IF @ = "allocated" THEN "ready" ELSE @]
    /\ UNCHANGED <<ext, deleted, opVars, cloud, goroutine, recovery, faults>>

-----------------------------------------------------------------------------
(* Journal primitives of the engine *)

(* Operations().Transition, the journal CAS. *)
Transition(o, from, to) ==
    /\ opState[o] = from
    /\ opState' = [opState EXCEPT ![o] = to]

(* Resources().CASPhase where a miss aborts the transaction. *)
CASPhase(r, from, to) ==
    /\ phase[r] = from
    /\ r \notin deleted
    /\ phase' = [phase EXCEPT ![r] = to]

(* Resources().CASPhase where a miss is only logged. *)
TryCASPhase(r, from, to) ==
    phase' = IF phase[r] = from /\ r \notin deleted
             THEN [phase EXCEPT ![r] = to] ELSE phase

(* The goroutine returns from drive. *)
Return == pc' = "idle" /\ cur' = Null /\ seen' = NoReading

(* failOp: the per-kind phase disposition of a failed operation. *)
FailFrom(kind) ==
    CASE kind = "create" -> "provisioning"
      [] kind = "delete" -> "deleting"
      [] kind = "stop"   -> "parking"
      [] kind = "start"  -> "starting"

(* Mutants: a park operation fails the row instead of reverting it; the    *)
(* revert writes the machine's state for the row's phase.                  *)
FailToFailed(kind) == "failed"
FailToMachineState(kind) ==
    CASE kind = "stop"  -> "running"
      [] kind = "start" -> "stopped"
      [] OTHER          -> "failed"

FailTo(kind) ==
    CASE kind = "stop"  -> "ready"
      [] kind = "start" -> "parked"
      [] OTHER          -> "failed"

(* Mutant: fails the operation and forgets the row. *)
failOpJournalOnly(o, from) ==
    /\ Transition(o, from, "failed")
    /\ UNCHANGED <<resVars, opKind, opRes, opRef, attempt, elapsed>>

failOp(o, from) ==
    /\ Transition(o, from, "failed")
    /\ TryCASPhase(opRes[o], FailFrom(opKind[o]), FailTo(opKind[o]))
    /\ UNCHANGED <<ext, deleted, leased, opKind, opRes, opRef, attempt, elapsed>>

succeedDelete(o, from) ==
    /\ Transition(o, from, "succeeded")
    /\ opRes[o] \notin deleted
    /\ deleted' = deleted \cup {opRes[o]}
    /\ UNCHANGED <<phase, ext, leased, opKind, opRes, opRef, attempt, elapsed>>

(* succeedCreate, succeedStop, succeedStart: terminal state and phase in   *)
(* one transaction.                                                        *)
succeed(o, from, to) ==
    /\ Transition(o, "external_accepted", "succeeded")
    /\ CASPhase(opRes[o], from, to)
    /\ UNCHANGED <<ext, deleted, leased, opKind, opRes, opRef, attempt, elapsed>>

(* Any state change of the row that leaves the resource alone. *)
MoveOnly(o, from, to) ==
    /\ Transition(o, from, to)
    /\ UNCHANGED <<resVars, opKind, opRes, opRef, attempt, elapsed>>

-----------------------------------------------------------------------------
(* dispatch: TxB, then the provider call, then TxC *)

(* TxB: journaled -> in_flight, committed before the provider is called.   *)
TxB(o) ==
    /\ boot # "down" /\ pc = "idle"
    /\ isParkOp(opKind[o]) => attempt[o] < maxParkOpAttempts
    /\ Transition(o, "journaled", "in_flight")
    /\ attempt' = [attempt EXCEPT ![o] = @ + 1]
    /\ elapsed' = elapsed \ {o}
    /\ pc' = "apply" /\ cur' = o /\ seen' = NoReading
    /\ UNCHANGED <<resVars, opKind, opRes, opRef, cloud, recovery, faults>>

(* dispatch gives up on a stop or start at the attempt cap.                *)
GiveUp(o) ==
    /\ boot # "down" /\ pc = "idle"
    /\ isParkOp(opKind[o]) /\ attempt[o] >= maxParkOpAttempts
    /\ failOp(o, "journaled")
    /\ UNCHANGED <<cloud, goroutine, recovery, faults>>

(* What a list call by op label returns. *)
ByLabel(o) == {x \in listed : Exists(x) /\ label[x] = o}

(* driver.Apply of a create first looks for the op label, and returns the  *)
(* machine it finds.                                                       *)
ApplyDedup ==
    /\ pc = "apply" /\ opKind[cur] = "create"
    /\ \E x \in ByLabel(cur) : seen' = Reading("accepted", x, FALSE)
    /\ pc' = "called"
    /\ UNCHANGED <<resVars, opVars, cloud, cur, recovery, faults>>

(* Otherwise, or when that lookup fails or lags, it sends the request. *)
ApplyCall ==
    /\ pc = "apply"
    /\ wire' = wire \cup {cur}
    /\ pc' = "called"
    /\ UNCHANGED <<resVars, opVars, machine, label, listed, botched, cur, seen, recovery, faults>>

Returned(answers) == pc = "called" /\ seen.answer \in answers

(* Mutant: does not write external_id. *)
TxCWithoutRef ==
    /\ Returned({"accepted"})
    /\ Transition(cur, "in_flight", "external_accepted")
    /\ opRef' = [opRef EXCEPT ![cur] = seen.ref]
    /\ Return
    /\ UNCHANGED <<resVars, opKind, opRes, attempt, elapsed, cloud, recovery, faults>>

(* TxC: the accept-time ref is persisted with the state change. *)
TxC ==
    /\ Returned({"accepted"})
    /\ Transition(cur, "in_flight", "external_accepted")
    /\ opRef' = [opRef EXCEPT ![cur] = seen.ref]
    /\ ext' = IF opKind[cur] = "create"
              THEN [ext EXCEPT ![opRes[cur]] = seen.ref] ELSE ext
    /\ Return
    /\ UNCHANGED <<phase, deleted, leased, opKind, opRes, attempt, elapsed,
                   cloud, recovery, faults>>

(* handleApplyError, one action per outcome.                               *)
ApplyDeleteNotFound ==
    /\ Returned({"not_found"}) /\ opKind[cur] = "delete"
    /\ succeedDelete(cur, "in_flight")
    /\ Return
    /\ UNCHANGED <<cloud, recovery, faults>>

ApplyFailed ==
    /\ \/ Returned({"not_found"}) /\ isParkOp(opKind[cur])
       \/ Returned({"rejected"})
    /\ failOp(cur, "in_flight")
    /\ Return
    /\ UNCHANGED <<cloud, recovery, faults>>

(* Back to journaled: an idempotent stop or start after any retryable      *)
(* error, a create or delete only when the request provably never arrived. *)
ApplyRetry ==
    /\ \/ Returned({"effect_none"})
       \/ Returned({"effect_maybe"}) /\ isParkOp(opKind[cur])
    /\ MoveOnly(cur, "in_flight", "journaled")
    /\ Return
    /\ UNCHANGED <<cloud, recovery, faults>>

(* Mutant: retries a create whose outcome is unknown. *)
ApplyUncertainRetries ==
    /\ Returned({"effect_maybe"}) /\ ~isParkOp(opKind[cur])
    /\ MoveOnly(cur, "in_flight", "journaled")
    /\ Return
    /\ UNCHANGED <<cloud, recovery, faults>>

ApplyUncertain ==
    /\ Returned({"effect_maybe"}) /\ ~isParkOp(opKind[cur])
    /\ MoveOnly(cur, "in_flight", "verifying")
    /\ Return
    /\ UNCHANGED <<cloud, recovery, faults>>

(* Every transaction after Apply is a CAS from in_flight: when a running   *)
(* Resume has taken the operation, it conflicts and drive logs the error.  *)
ApplyRaced ==
    /\ pc = "called" /\ seen.answer # "pending"
    /\ opState[cur] # "in_flight"
    /\ Return
    /\ UNCHANGED <<resVars, opVars, cloud, recovery, faults>>

(* The transaction after a provider call fails to commit: drive logs it    *)
(* and moves on to the next operation.                                     *)
TxAborted ==
    /\ StoreMayFail
    /\ pc \in {"called", "observed", "looked"} /\ seen.answer # "pending"
    /\ faults < MaxFaults /\ faults' = faults + 1
    /\ Return
    /\ UNCHANGED <<resVars, opVars, cloud, recovery>>

(* The provider call of poll or verify fails: reschedule the operation as   *)
(* it is.                                                                  *)
CallFailed ==
    /\ pc \in {"observed", "discover", "looked"}
    /\ faults < MaxFaults /\ faults' = faults + 1
    /\ Return
    /\ UNCHANGED <<resVars, opVars, cloud, recovery>>

(* driverAndAction fails, as for an instance that the operator has removed *)
(* from the configuration: the operation fails wherever it stands.         *)
Unconfigured(o) ==
    /\ boot # "down" /\ pc = "idle"
    /\ opState[o] \in {"journaled", "external_accepted", "verifying"}
    /\ faults < MaxFaults /\ faults' = faults + 1
    /\ failOp(o, opState[o])
    /\ UNCHANGED <<cloud, goroutine, recovery>>

-----------------------------------------------------------------------------
(* poll: ObserveOperation, then TxD *)

(* ObserveOperation of a driver: an operation succeeds only on its own     *)
(* target state; a finished delete reads as success or not_found.  A call  *)
(* that fails only reschedules the poll.                                   *)
ObserveOperation(o) ==
    LET st == machine[opRef[o]] IN
    CASE o \in botched -> {"failed"}
      [] o \notin botched /\ ~Exists(opRef[o]) ->
           {"not_found"} \cup (IF opKind[o] = "delete" THEN {"succeeded"} ELSE {})
      [] OTHER ->
           {CASE opKind[o] = "stop" /\ st = "stopped" -> "succeeded"
              [] opKind[o] \in {"create", "start"} /\ st = "running" -> "succeeded"
              [] opKind[o] = "create" /\ st = "stopped" -> "failed"
              [] OTHER -> "running"}

PollObserve(o) ==
    /\ boot # "down" /\ pc = "idle"
    /\ opState[o] = "external_accepted"
    /\ pc' = "observed" /\ cur' = o
    /\ \E a \in ObserveOperation(o) : seen' = Reading(a, Null, FALSE)
    /\ UNCHANGED <<resVars, opVars, cloud, recovery, faults>>

Polled(answer) == pc = "observed" /\ seen.answer = answer

(* Mutant: takes an absent machine for a list that lags and polls again. *)
PollNotFoundAgain ==
    /\ Polled("not_found")
    /\ CASE opKind[cur] = "delete" -> succeedDelete(cur, "external_accepted")
         [] isParkOp(opKind[cur])  -> failOp(cur, "external_accepted")
         [] OTHER -> UNCHANGED <<resVars, opVars>>
    /\ Return
    /\ UNCHANGED <<cloud, recovery, faults>>

PollNotFound ==
    /\ Polled("not_found")
    /\ CASE opKind[cur] = "delete" -> succeedDelete(cur, "external_accepted")
         [] isParkOp(opKind[cur])  -> failOp(cur, "external_accepted")
         [] OTHER -> MoveOnly(cur, "external_accepted", "verifying")
    /\ Return
    /\ UNCHANGED <<cloud, recovery, faults>>

PollSucceeded ==
    /\ Polled("succeeded")
    /\ CASE opKind[cur] = "delete" -> succeedDelete(cur, "external_accepted")
         [] opKind[cur] = "stop"   -> succeed(cur, "parking", "parked")
         [] opKind[cur] = "start"  -> succeed(cur, "starting", "ready")
         [] OTHER -> succeed(cur, "provisioning", "ready")
    /\ Return
    /\ UNCHANGED <<cloud, recovery, faults>>

(* The phase CAS of succeedCreate, succeedStop or succeedStart misses: the *)
(* transaction rolls back and the operation stays as it was.               *)
PollRolledBack ==
    /\ Polled("succeeded")
    /\ LET r == opRes[cur] IN
          CASE opKind[cur] = "delete" -> r \in deleted
            [] OTHER -> r \in deleted \/ phase[r] # FailFrom(opKind[cur])
    /\ Return
    /\ UNCHANGED <<resVars, opVars, cloud, recovery, faults>>

(* readinessGate finds the probe budget exhausted: a started machine is    *)
(* running, so it fails instead of reverting to parked.                    *)
ReadinessExhausted ==
    /\ Polled("succeeded") /\ opKind[cur] \in {"create", "start"}
    /\ faults < MaxFaults /\ faults' = faults + 1
    /\ Transition(cur, "external_accepted", "failed")
    /\ TryCASPhase(opRes[cur], FailFrom(opKind[cur]), "failed")
    /\ Return
    /\ UNCHANGED <<ext, deleted, leased, opKind, opRes, opRef, attempt, elapsed,
                   cloud, recovery>>

PollFailed ==
    /\ Polled("failed")
    /\ failOp(cur, "external_accepted")
    /\ Return
    /\ UNCHANGED <<cloud, recovery, faults>>

(* reschedule: still running, or the probe does not pass yet.              *)
PollAgain ==
    /\ pc = "observed" /\ seen.answer \in {"running", "succeeded"}
    /\ seen.answer = "succeeded" =>
         /\ opKind[cur] \in {"create", "start"}
         /\ faults < MaxFaults
    /\ faults' = IF seen.answer = "succeeded" THEN faults + 1 ELSE faults
    /\ Return
    /\ UNCHANGED <<resVars, opVars, cloud, recovery>>

-----------------------------------------------------------------------------
(* verify: the resolution procedure for an unknown outcome *)

(* A stop or start goes straight back to journaled. *)
VerifyPark(o) ==
    /\ boot # "down" /\ pc = "idle"
    /\ isParkOp(opKind[o])
    /\ MoveOnly(o, "verifying", "journaled")
    /\ UNCHANGED <<cloud, goroutine, recovery, faults>>

(* A driver that cannot discover by label freezes the create. *)
FreezeUncertain(o) ==
    /\ boot # "down" /\ pc = "idle"
    /\ opKind[o] = "create" /\ o \notin LabelDiscovery
    /\ MoveOnly(o, "verifying", "uncertain")
    /\ UNCHANGED <<cloud, goroutine, recovery, faults>>

(* verify reads the clock before it asks the provider: late says whether   *)
(* the deadline had passed when Discover was still to be called.           *)
VerifyCreate(o) ==
    /\ boot # "down" /\ pc = "idle"
    /\ opState[o] = "verifying" /\ opKind[o] = "create"
    /\ o \in LabelDiscovery
    /\ pc' = "discover" /\ cur' = o
    /\ seen' = Reading("pending", Null, o \in elapsed)
    /\ UNCHANGED <<resVars, opVars, cloud, recovery, faults>>

Discover ==
    /\ pc = "discover"
    /\ pc' = "looked"
    /\ IF ByLabel(cur) = {}
       THEN seen' = Reading("not_found", Null, seen.late)
       ELSE \E x \in ByLabel(cur) :
              seen' = Reading("found", x, seen.late)
    /\ UNCHANGED <<resVars, opVars, cloud, cur, recovery, faults>>

Looked(answer) == pc = "looked" /\ seen.answer = answer

Adopt ==
    /\ Looked("found") /\ opKind[cur] = "create"
    /\ Transition(cur, "verifying", "external_accepted")
    /\ opRef' = [opRef EXCEPT ![cur] = seen.ref]
    /\ ext' = [ext EXCEPT ![opRes[cur]] = seen.ref]
    /\ Return
    /\ UNCHANGED <<phase, deleted, leased, opKind, opRes, attempt, elapsed,
                   cloud, recovery, faults>>

(* Mutant: trusts a single list call. *)
NotListedOnce ==
    /\ Looked("not_found") /\ opKind[cur] = "create"
    /\ MoveOnly(cur, "verifying", "journaled")
    /\ Return
    /\ UNCHANGED <<cloud, recovery, faults>>

(* Not listed: keep looking inside the window, re-dispatch past it. *)
NotListed ==
    /\ Looked("not_found") /\ opKind[cur] = "create"
    /\ IF seen.late THEN MoveOnly(cur, "verifying", "journaled")
       ELSE UNCHANGED <<resVars, opVars>>
    /\ Return
    /\ UNCHANGED <<cloud, recovery, faults>>

(* A delete is verified by Get on its ref. *)
VerifyDelete(o) ==
    /\ boot # "down" /\ pc = "idle"
    /\ opState[o] = "verifying" /\ opKind[o] = "delete"
    /\ pc' = "looked" /\ cur' = o
    /\ seen' = Reading(IF Exists(opRef[o]) THEN "present" ELSE "not_found",
                       Null, FALSE)
    /\ UNCHANGED <<resVars, opVars, cloud, recovery, faults>>

(* Mutant: takes any answer of Get for success. *)
DeleteVerifiedBlindly ==
    /\ pc = "looked" /\ opKind[cur] = "delete"
    /\ succeedDelete(cur, "verifying")
    /\ Return
    /\ UNCHANGED <<cloud, recovery, faults>>

DeleteVerified ==
    /\ pc = "looked" /\ opKind[cur] = "delete"
    /\ \/ Looked("not_found") /\ succeedDelete(cur, "verifying")
       \/ Looked("present") /\ MoveOnly(cur, "verifying", "journaled")
    /\ Return
    /\ UNCHANGED <<cloud, recovery, faults>>

-----------------------------------------------------------------------------
(* ResolveOperation: the operator's verdict on a frozen operation *)

ResolveRetryVerification(o) ==
    /\ boot = "ready"
    /\ Transition(o, "uncertain", "verifying")
    /\ elapsed' = elapsed \ {o}
    /\ UNCHANGED <<resVars, opKind, opRes, opRef, attempt, cloud, goroutine,
                   recovery, faults>>

ResolveMarkFailed(o) ==
    /\ boot = "ready"
    /\ Transition(o, "uncertain", "failed")
    /\ TryCASPhase(opRes[o],
                   IF opKind[o] = "delete" THEN "deleting" ELSE "provisioning",
                   "failed")
    /\ UNCHANGED <<ext, deleted, leased, opKind, opRes, opRef, attempt, elapsed,
                   cloud, goroutine, recovery, faults>>

-----------------------------------------------------------------------------
(* Boot: the engine goroutine is already running when Resume scans the     *)
(* journal and routes what it found in flight.                             *)

(* Mutant: finds nothing to route. *)
ResumeScanNothing ==
    /\ boot = "booting"
    /\ boot' = "resuming"
    /\ UNCHANGED <<resVars, opVars, cloud, goroutine, toResume, faults>>

ResumeScan ==
    /\ boot = "booting"
    /\ boot' = "resuming"
    /\ toResume' = {o \in Ops : opState[o] = "in_flight"}
    /\ UNCHANGED <<resVars, opVars, cloud, goroutine, faults>>

ResumeRoute(o) ==
    /\ boot = "resuming" /\ o \in toResume
    /\ MoveOnly(o, "in_flight", "verifying")
    /\ toResume' = toResume \ {o}
    /\ UNCHANGED <<boot, cloud, goroutine, faults>>

(* The row left in_flight since the scan: Resume returns the conflict and  *)
(* mutations stay gated.                                                   *)
ResumeConflict(o) ==
    /\ boot = "resuming" /\ o \in toResume
    /\ opState[o] # "in_flight"
    /\ boot' = "gated"
    /\ toResume' = {}
    /\ UNCHANGED <<resVars, opVars, cloud, goroutine, faults>>

(* A store error during the scan or a transition gates mutations as well.  *)
ResumeFails ==
    /\ StoreMayFail
    /\ boot \in {"booting", "resuming"}
    /\ faults < MaxFaults /\ faults' = faults + 1
    /\ boot' = "gated"
    /\ toResume' = {}
    /\ UNCHANGED <<resVars, opVars, cloud, goroutine>>

ResumeDone ==
    /\ boot = "resuming" /\ toResume = {}
    /\ boot' = "ready"
    /\ UNCHANGED <<resVars, opVars, cloud, goroutine, toResume, faults>>

Crash ==
    /\ boot # "down"
    /\ faults < MaxFaults /\ faults' = faults + 1
    /\ boot' = "down"
    /\ toResume' = {}
    /\ Return
    /\ UNCHANGED <<resVars, opVars, cloud>>

Restart ==
    /\ boot = "down"
    /\ boot' = "booting"
    /\ UNCHANGED <<resVars, opVars, cloud, goroutine, toResume, faults>>

-----------------------------------------------------------------------------
(* The cloud, seen through the driver contract *)

(* The engine is still waiting for the answer to the request of o. *)
Awaited(o) == pc = "called" /\ cur = o /\ seen.answer = "pending"

Answer(o, a, x) ==
    seen' = IF Awaited(o) THEN Reading(a, x, FALSE) ELSE seen

(* A create makes a machine that carries the op label and is not listed    *)
(* yet; the cloud itself does not deduplicate.                             *)
CloudCreate(o) ==
    /\ o \in wire /\ opKind[o] = "create"
    /\ \E x \in Machines :
         /\ machine[x] = "absent"
         /\ machine' = [machine EXCEPT ![x] = "creating"]
         /\ label' = [label EXCEPT ![x] = o]
         /\ Answer(o, "accepted", x)
    /\ wire' = wire \ {o}
    /\ UNCHANGED <<resVars, opVars, listed, botched, pc, cur, recovery, faults>>

(* What a delete, stop or start does to its machine: all are idempotent. *)
Effect(kind, st) ==
    CASE kind = "delete" -> "deleting"
      [] kind = "stop" /\ st \in {"creating", "running", "starting"} -> "stopping"
      [] kind = "start" /\ st \in {"stopping", "stopped"} -> "starting"
      [] OTHER -> st

CloudApply(o) ==
    /\ o \in wire /\ opKind[o] # "create"
    /\ LET x == opRef[o] IN
         IF Exists(x)
         THEN /\ machine' = [machine EXCEPT ![x] = Effect(opKind[o], @)]
              /\ Answer(o, "accepted", x)
         ELSE /\ UNCHANGED machine
              /\ \/ Answer(o, "not_found", Null)
                 \/ opKind[o] = "delete" /\ Answer(o, "accepted", x)
    /\ wire' = wire \ {o}
    /\ UNCHANGED <<resVars, opVars, label, listed, botched, pc, cur, recovery, faults>>

(* Refused as invalid or terminal: no effect. *)
CloudReject(o) ==
    /\ o \in wire
    /\ faults < MaxFaults /\ faults' = faults + 1
    /\ Answer(o, "rejected", Null)
    /\ wire' = wire \ {o}
    /\ UNCHANGED <<resVars, opVars, machine, label, listed, botched, pc, cur,
                   recovery>>

(* The request is lost before it reaches the cloud; the driver may know it *)
(* (rate limited, connection refused).                                     *)
RequestLost(o) ==
    /\ o \in wire
    /\ faults < MaxFaults /\ faults' = faults + 1
    /\ Answer(o, "effect_none", Null)
    /\ wire' = wire \ {o}
    /\ UNCHANGED <<resVars, opVars, machine, label, listed, botched, pc, cur,
                   recovery>>

(* The call times out or the response is lost, whatever the request did or *)
(* still will do.                                                          *)
ResponseLost ==
    /\ pc = "called" /\ seen.answer \in {"pending", "accepted"}
    /\ faults < MaxFaults /\ faults' = faults + 1
    /\ seen' = Reading("effect_maybe", Null, FALSE)
    /\ UNCHANGED <<resVars, opVars, cloud, pc, cur, recovery>>

Progress(x) ==
    /\ machine[x] \in {"creating", "starting", "stopping", "deleting"}
    /\ machine' = [machine EXCEPT ![x] =
                     CASE @ = "stopping" -> "stopped"
                       [] @ = "deleting" -> "gone"
                       [] OTHER -> "running"]
    /\ UNCHANGED <<resVars, opVars, label, listed, wire, botched, goroutine,
                   recovery, faults>>

(* The cloud gives up on an accepted operation and undoes it; polling by   *)
(* reference reports the failure from then on.                             *)
CloudGivesUp(o) ==
    /\ opState[o] = "external_accepted"
    /\ faults < MaxFaults /\ faults' = faults + 1
    /\ machine[opRef[o]] = CASE opKind[o] = "stop"   -> "stopping"
                             [] opKind[o] = "start"  -> "starting"
                             [] opKind[o] = "delete" -> "deleting"
                             [] OTHER -> "creating"
    /\ machine' = [machine EXCEPT ![opRef[o]] =
                     IF @ \in {"creating", "starting"} THEN "stopped" ELSE "running"]
    /\ botched' = botched \cup {o}
    /\ UNCHANGED <<resVars, opVars, label, listed, wire, goroutine, recovery>>

(* A starting machine dies before it runs: no operation reports it. *)
StartDies(x) ==
    /\ StartsMayDie
    /\ machine[x] = "starting"
    /\ faults < MaxFaults /\ faults' = faults + 1
    /\ machine' = [machine EXCEPT ![x] = "stopped"]
    /\ UNCHANGED <<resVars, opVars, label, listed, wire, botched, goroutine, recovery>>

BecomeListed(x) ==
    /\ Exists(x) /\ x \notin listed
    /\ listed' = listed \cup {x}
    /\ UNCHANGED <<resVars, opVars, machine, label, wire, botched, goroutine,
                   recovery, faults>>

(* A machine vanishes behind the control plane's back. *)
Vanish(x) ==
    /\ Exists(x)
    /\ faults < MaxFaults /\ faults' = faults + 1
    /\ machine' = [machine EXCEPT ![x] = "gone"]
    /\ UNCHANGED <<resVars, opVars, label, listed, wire, botched, goroutine, recovery>>

(* The deadline of o passes; only the verification of a create reads it.   *)
(* WindowCoversLag is the calibration the docs ask for: by then the        *)
(* request was handled and its machine is listed.                          *)
WindowElapses(o) ==
    /\ opState[o] = "verifying" /\ opKind[o] = "create" /\ o \notin elapsed
    /\ WindowCoversLag =>
         /\ o \notin wire
         /\ ~(pc = "apply" /\ cur = o)
         /\ \A x \in Machines : label[x] = o /\ Exists(x) => x \in listed
    /\ elapsed' = elapsed \cup {o}
    /\ UNCHANGED <<resVars, opState, opKind, opRes, opRef, attempt, cloud,
                   goroutine, recovery, faults>>

-----------------------------------------------------------------------------
Handlers ==
    \/ \E r \in Resources, o \in Ops :
          \/ Journal(r, o) \/ JournalDelete(r, o)
          \/ JournalStop(r, o) \/ JournalStart(r, o)
    \/ \E r \in Resources :
          TombstoneUnmaterialized(r) \/ Reserve(r) \/ EndLease(r)
    \/ \E o \in Ops : ResolveRetryVerification(o) \/ ResolveMarkFailed(o)

EngineStep ==
    \/ \E o \in Ops :
          \/ TxB(o) \/ GiveUp(o) \/ PollObserve(o) \/ VerifyPark(o)
          \/ FreezeUncertain(o) \/ VerifyCreate(o) \/ VerifyDelete(o)
    \/ ApplyCall \/ ApplyDedup \/ TxC \/ ApplyDeleteNotFound \/ ApplyFailed \/ ApplyRetry
    \/ ApplyUncertain \/ ApplyRaced
    \/ PollNotFound \/ PollSucceeded \/ PollRolledBack \/ PollFailed
    \/ PollAgain \/ ReadinessExhausted
    \/ Discover \/ Adopt \/ NotListed \/ DeleteVerified

Recovery ==
    \/ ResumeScan \/ ResumeDone \/ Restart
    \/ \E o \in Ops : ResumeRoute(o) \/ ResumeConflict(o)

CloudStep ==
    \/ \E o \in Ops : CloudCreate(o) \/ CloudApply(o)
    \/ \E x \in Machines : Progress(x) \/ BecomeListed(x)

Faults ==
    \/ Crash \/ ResponseLost \/ TxAborted \/ CallFailed \/ ResumeFails
    \/ \E o \in Ops :
          CloudReject(o) \/ RequestLost(o) \/ CloudGivesUp(o) \/ Unconfigured(o)
    \/ \E x \in Machines : Vanish(x) \/ StartDies(x)

Next ==
    \/ Handlers \/ EngineStep \/ Recovery \/ CloudStep \/ Faults
    \/ \E o \in Ops : WindowElapses(o)

Spec == Init /\ [][Next]_vars

(* Due orders by age and a rescheduled operation yields to the others, so  *)
(* an operation that stays due is driven; the goroutine then runs its      *)
(* handler to the end.  A crashed process is restarted by its supervisor.  *)
Drive(o) ==
    \/ TxB(o) \/ GiveUp(o) \/ PollObserve(o) \/ VerifyPark(o)
    \/ FreezeUncertain(o) \/ VerifyCreate(o) \/ VerifyDelete(o)

Fairness ==
    /\ \A o \in Ops :
         /\ SF_vars(Drive(o))
         /\ WF_vars(CloudCreate(o) \/ CloudApply(o))
         /\ WF_vars(WindowElapses(o))
    /\ \A x \in Machines : WF_vars(Progress(x)) /\ WF_vars(BecomeListed(x))
    /\ WF_vars(pc # "idle" /\ EngineStep)
    /\ WF_vars(Recovery)

FairSpec == Spec /\ Fairness

-----------------------------------------------------------------------------
(* Properties *)

(* A journaled create is safe to dispatch: none of its requests can still  *)
(* land and no machine carries its label.  This is the crash partition of  *)
(* the engine: journaled means that nothing is out there, also after a     *)
(* crash, a timeout, or a window of fruitless discovery.                   *)
SafeRedispatch ==
    WindowCoversLag =>
        \A o \in Ops : opState[o] = "journaled" /\ opKind[o] = "create" =>
            /\ o \notin wire
            /\ \A x \in Machines : label[x] = o => ~Exists(x)

(* A create intent never owns two machines at once, however often the      *)
(* engine crashes, times out and re-dispatches it (invariant 7).           *)
OneMachinePerCreate ==
    WindowCoversLag =>
        \A x, y \in Machines :
            Exists(x) /\ Exists(y) /\ label[x] = label[y] => x = y

(* The inductive invariant behind the two: what each state of the journal  *)
(* and of the goroutine says about requests and machines still out there.  *)
NoTrace(o) == o \notin wire /\ \A x \in Machines : label[x] = o => ~Exists(x)

WireInv ==
    \A o \in wire : opKind[o] = "create" =>
        /\ opState[o] \in {"in_flight", "verifying", "uncertain", "failed"}
        /\ \A x \in Machines : label[x] = o => ~Exists(x)

LabelInv ==
    \A x \in Machines :
        /\ Exists(x) => label[x] \in Ops
        /\ label[x] \in Ops => opState[label[x]] # "unborn" /\ machine[x] # "absent"

ElapsedInv ==
    \A o \in elapsed :
        /\ o \notin wire
        /\ ~(pc = "apply" /\ cur = o)
        /\ \A x \in Machines : label[x] = o /\ Exists(x) => x \in listed

HandlerInv ==
    /\ pc \in {"apply", "called"} => opState[cur] \in {"in_flight", "verifying"}
    /\ pc = "observed" => opState[cur] = "external_accepted"
    /\ pc \in {"discover", "looked"} =>
         opState[cur] = "verifying" /\ (seen.late => cur \in elapsed)
    /\ pc = "discover" => opKind[cur] = "create"
    /\ pc = "apply" /\ opKind[cur] = "create" => NoTrace(cur)
    /\ pc = "called" /\ seen.answer \notin {"pending", "effect_maybe"} => cur \notin wire
    /\ pc = "called" /\ seen.answer = "effect_none" /\ opKind[cur] = "create" => NoTrace(cur)
    /\ pc = "looked" /\ seen.answer = "found" => cur \notin wire
    /\ pc = "looked" /\ seen.answer = "not_found" /\ seen.late => NoTrace(cur)

RedispatchInv ==
    WindowCoversLag =>
        /\ SafeRedispatch /\ OneMachinePerCreate
        /\ WireInv /\ LabelInv /\ ElapsedInv /\ HandlerInv

(* No machine is forgotten: whatever runs at the cloud belongs to a live   *)
(* row, or to a create the verifier still works on, or to a failed create, *)
(* which the ghost sweep reclaims.  Without a calibrated window it may     *)
(* also be the double of a create that succeeded with another machine.     *)
MachineAccounted ==
    \A x \in Machines : Exists(x) =>
        LET o == label[x] IN
        \/ Open(o)
        \/ opState[o] = "failed"
        \/ \E r \in Resources : Live(r) /\ ext[r] = x
        \/ ~WindowCoversLag /\ opState[o] = "succeeded" /\ ext[opRes[o]] # x

(* The phases in which an operation works on the row. *)
Transient == {FailFrom(k) : k \in OpKinds}

(* A live row is in provisioning, deleting, parking or starting exactly    *)
(* while an open operation of the matching kind is there to move it on: no *)
(* row is wedged in a transient phase, and no operation works on a row     *)
(* that went elsewhere.                                                    *)
TransientHasOp ==
    \A r \in Resources : Live(r) =>
        /\ phase[r] \in Transient => OpenOpsOf(r) # {}
        /\ \A o \in OpenOpsOf(r) : phase[r] = FailFrom(opKind[o])

(* A leased row is live and allocated, and no delete request for its       *)
(* machine is under way, not even a delayed one (invariant 3).             *)
LeaseProtected ==
    \A r \in leased :
        /\ Live(r) /\ phase[r] = "allocated"
        /\ \A o \in wire : opKind[o] = "delete" => opRef[o] # ext[r]

(* Once boot has declared the process ready, the only operation in flight  *)
(* is the one the engine goroutine is dispatching: nothing in_flight is    *)
(* left behind, which Due would never pick up.                             *)
InFlightOwned ==
    boot = "ready" =>
        \A o \in Ops : opState[o] = "in_flight" =>
            cur = o /\ pc \in {"apply", "called"}

(* Phases only move along the table of phase.go, although the store's CAS  *)
(* never consults it.                                                      *)
PhaseStepsLegal ==
    [][\A r \in Resources :
         phase[r] \notin {"none", phase'[r]} => CanTransition(phase[r], phase'[r])]_phase

(* The three ways in which an operation stays open for ever.  It is left   *)
(* in flight, driven by nobody, by a boot that a conflict in Resume gated  *)
(* or by a transaction after Apply that failed to commit.                  *)
Stranded(o) ==
    /\ opState[o] = "in_flight" /\ cur # o
    /\ boot = "gated" \/ (StoreMayFail /\ boot = "ready")

(* It is a start whose machine stopped again, which no driver reports as a *)
(* failure and no deadline ends.                                           *)
PolledInVain(o) ==
    /\ opState[o] = "external_accepted" /\ opKind[o] = "start" /\ o \notin botched
    /\ machine[opRef[o]] = "stopped"

(* It is a create whose row was tombstoned before external_id was known:   *)
(* its machine runs and succeedCreate rolls back at every poll.            *)
RolledBack(o) ==
    /\ opState[o] = "external_accepted" /\ opRes[o] \in deleted
    /\ machine[opRef[o]] = "running"

(* Once the faults stop, a journaled operation succeeds, fails or is       *)
(* frozen for the operator, or it is in one of these three places.  This   *)
(* holds from every state in which it is open: an operation that a gated   *)
(* boot or a failed commit has stranded ends after the next restart.       *)
OpResolves ==
    \A o \in Ops :
        Open(o) ~> \/ opState[o] \in Terminal \cup {"uncertain"}
                   \/ Stranded(o) \/ PolledInVain(o) \/ RolledBack(o)

-----------------------------------------------------------------------------
(* What others see of the engine: the life of a row and the outcome of an  *)
(* operation, frozen ones counted as open.                                 *)
LifeOf == [r \in Resources |-> IF r \in deleted THEN "deleted" ELSE phase[r]]
OutcomeOf == [o \in Ops |-> IF opState[o] = "unborn" THEN "none"
                            ELSE IF Open(o) THEN "open" ELSE opState[o]]

Life == INSTANCE RowLife WITH
    Rows <- Resources, Tasks <- Ops, life <- LifeOf,
    kind <- opKind, row <- opRes, outcome <- OutcomeOf

(* A row is worked on by one operation at a time, which ends once and      *)
(* takes the row with it to a phase its outcome stands for, although each  *)
(* CAS of the engine names its phases itself, through crashes, lost        *)
(* answers, recovery and stale goroutines.  The scheduler and the          *)
(* reconciler rely on this when they read a phase.                         *)
RowContract == Life!Spec
=============================================================================
