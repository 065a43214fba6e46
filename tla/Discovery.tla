----------------------------- MODULE Discovery ------------------------------
(***************************************************************************)
(* The discovery sweep (internal/reconcile/discovery.go): machines listed  *)
(* by the provider are compared with the rows of the database.  Rows whose *)
(* machine vanished are orphaned and later tombstoned; owned machines      *)
(* without a row are readopted, or deleted as ghosts of a create that is   *)
(* bound to another machine; foreign machines are at most observed.        *)
(*                                                                         *)
(* A sweep reads the provider, then the rows, then the open operations,    *)
(* and acts on these three readings in transactions of its own, while      *)
(* operations, callers and people at the provider's console go on.         *)
(***************************************************************************)
EXTENDS Integers, FiniteSets, TLC, Phase

CONSTANTS
    Machines, Rows,
    None,            \* no machine, no row
    GhostDelete,     \* DiscoveryConfig.GhostPolicy is "delete"
    AdoptUnlabeled,  \* DiscoveryConfig.AdoptUnlabeled is "observed"
    ParkingSupported, \* the driver can stop machines
    DegradedAfter, UnavailableAfter, \* HealthConfig
    MaxCreates,      \* bound: create operations
    MaxEvents        \* bound: deletes, leases, console actions, outages, crashes

ASSUME DiscoveryAssumption ==
    /\ None \notin Machines \cup Rows
    /\ Rows \cap {"none", "foreign", "lost"} = {}
    /\ GhostDelete \in BOOLEAN /\ AdoptUnlabeled \in BOOLEAN /\ ParkingSupported \in BOOLEAN
    /\ DegradedAfter \in Nat \ {0} /\ UnavailableAfter \in Nat \ {0} /\ MaxCreates \in Nat /\ MaxEvents \in Nat

VARIABLES
    machine,  \* state of each machine: absent | running | stopped | gone
    origin,   \* its labels: the row it was created for, "foreign" without
              \* labels, "lost" when the database knows nothing of them
    young,    \* machines that a list of the provider may still miss
    row,      \* rows: phase ("none" unused, "gone" tombstoned), external id,
              \* managed (or observed)
    create,   \* state of the create operation of a row: none | open |
              \* succeeded | failed.  A delete is open while its row is deleting.
    leased,   \* rows with an active lease
    graced,   \* orphaned rows that were not updated for OrphanGrace
    up,       \* the provider answers
    fails,    \* HealthTracker: consecutive failures of the provider's health check
    sweep,    \* the sweep: its step, its three readings and what is left to do
    events    \* counts what callers, people, outages and crashes do

provVars == <<machine, origin, young>>
rowVars  == <<row, create, leased, graced>>
vars == <<provVars, rowVars, up, fails, sweep, events>>

NoRow == [phase |-> "none", ext |-> None, managed |-> TRUE]
Idle == [pc |-> "idle", list |-> [m \in Machines |-> "unseen"],
         rows |-> [r \in Rows |-> NoRow], open |-> {}, graced |-> {},
         todo |-> {}, at |-> None]

(* One machine may be there before the database knows of it.               *)
Init ==
    /\ \E o \in {"none", "foreign", "lost"} :
          origin = [[n \in Machines |-> "none"] EXCEPT ![CHOOSE m \in Machines : TRUE] = o]
    /\ machine = [m \in Machines |-> IF origin[m] = "none" THEN "absent" ELSE "running"]
    /\ young = {}
    /\ row = [r \in Rows |-> NoRow] /\ create = [r \in Rows |-> "none"]
    /\ leased = {} /\ graced = {}
    /\ up = TRUE /\ fails = 0
    /\ sweep = Idle /\ events = 0

Event == events < MaxEvents /\ events' = events + 1

Exists(m) == machine[m] \in {"running", "stopped"}
Owned(m) == origin[m] # "foreign"
Live(rec) == rec.phase \notin {"none", "gone"}
OpenOps == {r \in Rows : create[r] = "open" \/ row[r].phase = "deleting"}
Parked(state) == state = "stopped" /\ ParkingSupported

-----------------------------------------------------------------------------
(* The readings of sweepKind, in the order of the code.  Discover fails    *)
(* while the provider is down, and the sweep ends.                         *)

Discover ==
    /\ sweep.pc = "idle" /\ up
    /\ \E hidden \in SUBSET young :
          sweep' = [sweep EXCEPT !.pc = "rows",
             !.list = [m \in Machines |->
                IF Exists(m) /\ m \notin hidden /\ (Owned(m) \/ AdoptUnlabeled)
                THEN machine[m] ELSE "unseen"]]
    /\ UNCHANGED <<provVars, rowVars, up, fails, events>>

ListRows ==
    /\ sweep.pc = "rows"
    /\ sweep' = [sweep EXCEPT !.pc = "ops", !.rows = row, !.graced = graced]
    /\ UNCHANGED <<provVars, rowVars, up, fails, events>>

(* The open operations, and then the sweep's time.                         *)
ListOps ==
    /\ sweep.pc = "ops"
    /\ sweep' = [sweep EXCEPT !.pc = "observed", !.open = OpenOps,
                    !.graced = @ \cup graced,
                    !.todo = {m \in Machines : sweep.list[m] # "unseen"}]
    /\ UNCHANGED <<provVars, rowVars, up, fails, events>>

-----------------------------------------------------------------------------
(* Machines in the list *)

Matched(m) == {r \in Rows : Live(sweep.rows[r]) /\ sweep.rows[r].ext = m}

Observing(m) == sweep.pc = "observed" /\ m \in sweep.todo
Next_(m) == sweep' = [sweep EXCEPT !.todo = @ \ {m}]

(* CASPhase on a live row; a miss rolls the transaction back.              *)
CASPhase(r, from, to) ==
    row' = IF row[r].phase = from THEN [row EXCEPT ![r].phase = to] ELSE row

(* refreshObserved: an orphan that was listed again is revived.  Writing   *)
(* the facts of the machine updates the row.                               *)
RefreshObserved(m) ==
    /\ Observing(m) /\ Next_(m)
    /\ \E r \in Matched(m) :
          /\ IF sweep.rows[r].phase = "orphaned" /\ sweep.list[m] = "running"
             THEN CASPhase(r, "orphaned", "ready")
             ELSE IF sweep.rows[r].phase = "orphaned" /\ Parked(sweep.list[m])
             THEN CASPhase(r, "orphaned", "parked")
             ELSE row' = row
          /\ graced' = graced \ {r}
    /\ UNCHANGED <<provVars, create, leased, up, fails, events>>

(* Mutant: the table has no unique index on external ids.                  *)
ExternalIdTakenUnchecked(m) == FALSE

(* ux_res_ext: no two live rows of a provider with one external id.        *)
ExternalIdTaken(m) == \E r \in Rows : Live(row[r]) /\ row[r].ext = m

(* mintRecord: a row for a listed machine, in the phase it was listed in.  *)
MintRecord(r, m, managed) ==
    row' = [row EXCEPT ![r] =
              [phase |-> IF Parked(sweep.list[m]) THEN "parked" ELSE "ready",
               ext |-> m, managed |-> managed]]

(* A fresh id.  Ids are interchangeable, so one is chosen; that of a       *)
(* minted row which is gone, and which the sweep has not read, is used     *)
(* again.                                                                  *)
Unused(r) == /\ create[r] = "none" /\ ~Live(row[r]) /\ r \notin leased
             /\ ~Live(sweep.rows[r]) /\ r # sweep.at
Fresh == CHOOSE r \in Rows : Unused(r)
CanMint == \E r \in Rows : Unused(r)

(* The create operation of the machine, as far as the journal has it.      *)
CreateOf(m) == IF origin[m] \in Rows THEN create[origin[m]] ELSE "none"

(* Mutant: a machine of a create that is over is somebody else's business. *)
InFlightOrEnded(m) == CreateOf(m) # "none"

(* The verifier owns what a create in flight has made.                     *)
InFlight(m) ==
    \/ /\ origin[m] \in sweep.open
       /\ Live(sweep.rows[origin[m]]) /\ sweep.rows[origin[m]].ext = None
    \/ CreateOf(m) = "open"

BoundElsewhere(m) ==
    /\ CreateOf(m) = "succeeded" /\ Live(sweep.rows[origin[m]])
    /\ sweep.rows[origin[m]].ext \notin {None, m}
Ghost(m) == BoundElsewhere(m) \/ CreateOf(m) = "failed"

(* resolveOwnedUnmatched, the machines of an unfinished create: hands off. *)
LeaveToVerifier(m) ==
    /\ Observing(m) /\ Matched(m) = {} /\ Owned(m) /\ InFlight(m)
    /\ Next_(m)
    /\ UNCHANGED <<provVars, rowVars, up, fails, events>>

(* readopt and adoptObserved, and a mint the index refuses.                *)
Adopt(m) ==
    /\ Observing(m) /\ Matched(m) = {} /\ Next_(m)
    /\ IF Owned(m) THEN ~InFlight(m) /\ ~Ghost(m) ELSE AdoptUnlabeled
    /\ IF ExternalIdTaken(m) THEN row' = row
       ELSE CanMint /\ MintRecord(Fresh, m, Owned(m))
    /\ UNCHANGED <<provVars, create, leased, graced, up, fails, events>>

(* handleGhost: three transactions.                                        *)
HandleGhost(m) ==
    /\ Observing(m) /\ Matched(m) = {} /\ Owned(m) /\ ~InFlight(m) /\ Ghost(m)
    /\ IF ExternalIdTaken(m) THEN row' = row /\ Next_(m)
       ELSE /\ CanMint /\ MintRecord(Fresh, m, TRUE)
            /\ sweep' = [sweep EXCEPT !.todo = @ \ {m},
                   !.pc = IF GhostDelete THEN "drain ghost" ELSE @,
                   !.at = IF GhostDelete THEN Fresh ELSE @]
    /\ UNCHANGED <<provVars, create, leased, graced, up, fails, events>>

DrainGhost ==
    /\ sweep.pc = "drain ghost"
    /\ CASPhase(sweep.at, "ready", "draining")
    /\ sweep' = IF row[sweep.at].phase = "ready"
                THEN [sweep EXCEPT !.pc = "delete ghost"]
                ELSE [sweep EXCEPT !.pc = "observed", !.at = None]
    /\ UNCHANGED <<provVars, create, leased, graced, up, fails, events>>

(* Mutant: rows of any ownership are deleted.                              *)
DeleteGatesAnyOwner(r) == Live(row[r]) /\ r \notin leased

(* deleteGates, and the same gates of journalDeleteInTx.                   *)
DeleteGates(r) == Live(row[r]) /\ row[r].managed /\ r \notin leased

DeleteGhost ==
    /\ sweep.pc = "delete ghost"
    /\ row' = IF DeleteGates(sweep.at) /\ row[sweep.at].phase \in {"draining", "failed"}
              THEN [row EXCEPT ![sweep.at].phase = "deleting"] ELSE row
    /\ sweep' = [sweep EXCEPT !.pc = "observed", !.at = None]
    /\ UNCHANGED <<provVars, create, leased, graced, up, fails, events>>

-----------------------------------------------------------------------------
(* Rows that are not in the list; nothing else is remembered for them.     *)

(* The state HealthTracker.record derives from the failures; a provider    *)
(* that was never checked ("unknown") counts as healthy.                   *)
HealthState == IF fails >= UnavailableAfter THEN "unavailable"
               ELSE IF fails >= DegradedAfter THEN "degraded" ELSE "healthy"

CheckHealthy ==
    /\ sweep.pc = "observed" /\ sweep.todo = {}
    /\ LET absent == {r \in Rows \ sweep.open :
                        /\ Live(sweep.rows[r]) /\ sweep.rows[r].ext # None
                        /\ sweep.list[sweep.rows[r].ext] = "unseen"}
       IN  sweep' = IF HealthState = "healthy" /\ absent # {}
                    THEN [Idle EXCEPT !.pc = "absent", !.todo = absent,
                            !.rows = [r \in Rows |-> IF r \in absent THEN sweep.rows[r] ELSE NoRow],
                            !.graced = sweep.graced \cap absent]
                    ELSE Idle
    /\ UNCHANGED <<provVars, rowVars, up, fails, events>>

(* Mutant: a read that fails is taken for an absence.                      *)
NotFoundOrError(m) == ~up \/ ~Exists(m)

(* The answer of driver.Get is NotFound; it is an error during an outage.  *)
NotFound(m) == up /\ ~Exists(m)

Get(r) ==
    /\ sweep.pc = "absent" /\ r \in sweep.todo
    /\ sweep' = IF NotFound(sweep.rows[r].ext)
                THEN [sweep EXCEPT !.todo = @ \ {r}, !.pc = "confirm", !.at = r]
                ELSE [sweep EXCEPT !.todo = @ \ {r}]
    /\ UNCHANGED <<provVars, rowVars, up, fails, events>>

(* Mutant: only rows that are in use are worth the trouble.                *)
ConfirmOrphanAllocated(r) ==
    IF sweep.rows[r].phase = "allocated" THEN CASPhase(r, "allocated", "orphaned")
    ELSE row' = row

(* confirmOrphan, after its Get.                                           *)
ConfirmOrphan(r) ==
    IF sweep.rows[r].phase = "orphaned"
    THEN row' = IF r \in sweep.graced /\ r \notin leased /\ Live(row[r])
                THEN [row EXCEPT ![r].phase = "gone"] ELSE row
    ELSE IF CanTransition(sweep.rows[r].phase, "orphaned")
    THEN CASPhase(r, sweep.rows[r].phase, "orphaned")
    ELSE row' = row

Confirm ==
    /\ sweep.pc = "confirm" /\ ConfirmOrphan(sweep.at)
    /\ sweep' = [sweep EXCEPT !.pc = "absent", !.at = None]
    /\ UNCHANGED <<provVars, create, leased, graced, up, fails, events>>

EndSweep ==
    /\ sweep.pc = "absent" /\ sweep.todo = {} /\ sweep' = Idle
    /\ UNCHANGED <<provVars, rowVars, up, fails, events>>

SweepKind ==
    \/ Discover \/ ListRows \/ ListOps \/ DrainGhost \/ DeleteGhost
    \/ CheckHealthy \/ Confirm \/ EndSweep
    \/ \E m \in Machines : \/ RefreshObserved(m) \/ LeaveToVerifier(m)
                           \/ Adopt(m) \/ HandleGhost(m)
    \/ \E r \in Rows : Get(r)

-----------------------------------------------------------------------------
(* HealthTracker.record *)

(* The tracker's counter, as far as its thresholds tell it apart.          *)
CheckHealth ==
    /\ fails' = IF up THEN 0 ELSE IF fails < UnavailableAfter THEN fails + 1 ELSE fails
    /\ UNCHANGED <<provVars, rowVars, up, sweep, events>>

-----------------------------------------------------------------------------
(* The operations of the engine, as the sweep meets them.                  *)

JournalCreate(r) ==
    /\ Unused(r) /\ r = Fresh /\ UNCHANGED events
    /\ Cardinality({q \in Rows : create[q] # "none"}) < MaxCreates
    /\ row' = [row EXCEPT ![r] = [phase |-> "provisioning", ext |-> None, managed |-> TRUE]]
    /\ create' = [create EXCEPT ![r] = "open"]
    /\ UNCHANGED <<leased, graced, provVars>>

(* A create request takes effect, maybe a second one, maybe too late.      *)
Launch(r, m) ==
    /\ create[r] # "none" /\ machine[m] = "absent"
    /\ m = CHOOSE n \in Machines : machine[n] = "absent"
    /\ machine' = [machine EXCEPT ![m] = "running"]
    /\ origin' = [origin EXCEPT ![m] = r] /\ young' = young \cup {m}
    /\ UNCHANGED <<rowVars>>

(* The engine learns of the machine and binds the row to it.               *)
Bound(r, m) ==
    /\ create[r] = "open" /\ origin[m] = r /\ row[r].ext = None
    /\ row[r].phase = "provisioning" /\ ~ExternalIdTaken(m)
    /\ row' = [row EXCEPT ![r].ext = m]
    /\ UNCHANGED <<create, leased, graced, provVars>>

(* succeedCreate and failCreate.                                           *)
EndCreate(r) ==
    /\ create[r] = "open" /\ row[r].phase = "provisioning"
    /\ \/ /\ row[r].ext # None /\ create' = [create EXCEPT ![r] = "succeeded"]
          /\ row' = [row EXCEPT ![r].phase = "ready"]
       \/ /\ create' = [create EXCEPT ![r] = "failed"]
          /\ row' = [row EXCEPT ![r].phase = "failed"]
    /\ UNCHANGED <<leased, graced, provVars>>

(* DeleteResource: a row that has no machine is tombstoned at once.        *)
DeleteResource(r) ==
    /\ Event /\ DeleteGates(r)
    /\ \/ row[r].ext = None /\ row' = [row EXCEPT ![r].phase = "gone"]
       \/ /\ row[r].ext # None /\ CanTransition(row[r].phase, "deleting")
          /\ row' = [row EXCEPT ![r].phase = "deleting"]
    /\ UNCHANGED <<create, leased, graced, provVars>>

(* The driver deletes the machine; then the operation ends.                *)
Terminate(r) ==
    /\ row[r].phase = "deleting" /\ Exists(row[r].ext)
    /\ machine' = [machine EXCEPT ![row[r].ext] = "gone"]
    /\ UNCHANGED <<origin, young, rowVars>>

EndDelete(r) ==
    /\ row[r].phase = "deleting" /\ ~Exists(row[r].ext)
    /\ row' = [row EXCEPT ![r].phase = "gone"]
    /\ UNCHANGED <<create, leased, graced, provVars>>

(* Leases: only managed rows are scheduled.  Ending one updates the row.   *)
BindLease(r) ==
    /\ Event /\ row[r].phase = "ready" /\ row[r].managed
    /\ row' = [row EXCEPT ![r].phase = "allocated"] /\ leased' = leased \cup {r}
    /\ UNCHANGED <<create, graced, provVars>>

EndLease(r) ==
    /\ r \in leased /\ leased' = leased \ {r} /\ graced' = graced \ {r}
    /\ CASPhase(r, "allocated", "ready")
    /\ UNCHANGED <<create, provVars>>

(* Nobody updates an orphaned row for OrphanGrace.                         *)
GraceEnds(r) ==
    /\ row[r].phase = "orphaned" /\ r \notin graced /\ graced' = graced \cup {r}
    /\ UNCHANGED <<row, create, leased, provVars>>

Requests ==
    /\ \E r \in Rows : JournalCreate(r) \/ DeleteResource(r) \/ BindLease(r)
    /\ UNCHANGED <<up, fails, sweep>>

Operations ==
    /\ \E r \in Rows : \/ EndCreate(r) \/ Terminate(r) \/ EndDelete(r)
                       \/ EndLease(r) \/ GraceEnds(r)
                       \/ \E m \in Machines : Launch(r, m) \/ Bound(r, m)
    /\ UNCHANGED <<up, fails, sweep, events>>

-----------------------------------------------------------------------------
(* The provider: what was launched becomes visible; outages; and people    *)
(* who delete, stop and start machines.                                    *)

Settle(m) ==
    /\ m \in young /\ young' = young \ {m}
    /\ UNCHANGED <<machine, origin, rowVars, up, fails, sweep, events>>

Recover ==
    /\ ~up /\ up' = TRUE
    /\ UNCHANGED <<provVars, rowVars, fails, sweep, events>>

Meddle ==
    /\ Event
    /\ \/ up /\ up' = FALSE /\ UNCHANGED <<machine, fails, sweep>>
       \/ \E m \in Machines, to \in {"running", "stopped", "gone"} :
             /\ Exists(m) /\ machine[m] # to /\ machine' = [machine EXCEPT ![m] = to]
             /\ UNCHANGED <<up, fails, sweep>>
       \/ (* a crash of the server *)
          /\ sweep.pc # "idle" /\ sweep' = Idle
          /\ fails' = 0
          /\ UNCHANGED <<machine, up>>
    /\ UNCHANGED <<origin, young, rowVars>>

Provider == Recover \/ Meddle \/ \E m \in Machines : Settle(m)

Next == SweepKind \/ CheckHealth \/ Requests \/ Operations \/ Provider

Spec == Init /\ [][Next]_vars

(* Sweeps and health checks are periodic and their steps do not block;     *)
(* outages end, and lists of the provider catch up.                        *)
FairSpec ==
    /\ Spec
    /\ WF_vars(SweepKind) /\ WF_vars(CheckHealth) /\ WF_vars(Recover)
    /\ \A m \in Machines : WF_vars(Settle(m))

-----------------------------------------------------------------------------
(* No machine has two live rows, whatever the sweep read in which order:   *)
(* two rows would lease and delete the machine independently.              *)
OneLiveRowPerMachine ==
    \A r, q \in Rows :
       (Live(row[r]) /\ Live(row[q]) /\ row[r].ext = row[q].ext /\ row[r].ext # None)
       => r = q

(* A machine without Fleetplane's labels is never deleted by Fleetplane.   *)
ForeignUntouched ==
    [][\A m \in Machines, r \in Rows :
          (origin[m] = "foreign" /\ row[r].ext = m) => row'[r].phase # "deleting"]_vars

(* The sweep orphans or writes off the row of a machine only if there is   *)
(* no such machine any more, and writes off no row that is leased: an      *)
(* outage takes nothing away.                                              *)
OutageLosesNothing ==
    [][\A r \in Rows :
          /\ (row[r].phase # "orphaned" /\ row'[r].phase = "orphaned") => ~Exists(row[r].ext)
          /\ (row[r].phase = "orphaned" /\ row'[r].phase = "gone")
             => (~Exists(row[r].ext) /\ r \notin leased)]_vars

(* A machine with Fleetplane's labels whose create is over gets a row, or  *)
(* is gone: nothing that costs money is forgotten.                         *)
MachinesTracked ==
    \A m \in Machines :
       (Exists(m) /\ Owned(m) /\ CreateOf(m) # "open")
       ~> (~Exists(m) \/ ExternalIdTaken(m))

(* A row that offers a machine that is gone does not do so for ever, even  *)
(* if the sweep itself has minted it from a stale list.                    *)
Phantom(m) == machine[m] = "gone" /\ \E r \in Rows : row[r].ext = m /\ row[r].phase = "ready"
PhantomsCleared == \A m \in Machines : Phantom(m) ~> ~Phantom(m)
=============================================================================
