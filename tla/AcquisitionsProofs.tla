------------------------- MODULE AcquisitionsProofs -------------------------
(***************************************************************************)
(* Proofs about Acquisitions for any number of machines, acquisitions and  *)
(* leases, any capacity vectors and requests, and any number of crashes.   *)
(***************************************************************************)
EXTENDS Acquisitions, FiniteSetTheorems, WellFoundedInduction, TLAPS

(* A worker that is busy works for an acquisition, one that is to settle   *)
(* has a row, and the callback resolves acquisitions for a row.            *)
WorkInv ==
    /\ \A w \in Workers :
         /\ work[w].pc # "idle" => work[w].acq \in Acqs
         /\ work[w].pc = "settle" => work[w].row \in Resources
    /\ waiting # {} => ended.res \in Resources

TypeInv == TypeOK /\ WorkInv

(* The two directions of BoundIffLeased, lease by lease and acquisition by *)
(* acquisition.                                                            *)
Agree ==
    /\ \A l \in Leases : leaseState[l] = "active" =>
         /\ holder[l] \in Acqs /\ on[l] \in Resources
         /\ acqState[holder[l]] = "bound"
         /\ leaseID[holder[l]] = l
    /\ \A a \in Acqs : acqState[a] = "bound" =>
         /\ leaseID[a] \in Leases
         /\ leaseState[leaseID[a]] = "active"
         /\ holder[leaseID[a]] = a

Safe == Agree /\ AllocatedHasLease /\ LeasedKept /\ ExclusiveAlone

-----------------------------------------------------------------------------
(* Types *)

(* The empty store has its types.                                          *)
LEMMA InitTypeInv == Init => TypeInv
  BY DEF Init, TypeInv, TypeOK, WorkInv, Idle, Busy, NoOp, AcqStates, OpenAcq, Points, Verdicts

(* The reservation keeps all types. *)
LEMMA ReserveType ==
    ASSUME TypeOK, NEW a \in Acqs, NEW r \in Resources, reserve(a, r)
    PROVE  /\ phase' \in [Resources -> Phases \cup {"none"}]
           /\ acqState' \in [Acqs -> AcqStates]
           /\ pending' \in [Acqs -> Resources \cup {Null}]
           /\ leaseID' \in [Acqs -> Leases \cup {Null}]
           /\ leaseState' \in [Leases -> {"none", "active", "released", "expired"}]
           /\ holder' \in [Leases -> Acqs \cup {Null}]
           /\ on' \in [Leases -> Resources \cup {Null}]
           /\ UNCHANGED <<deleted, request>>
  BY DEF TypeOK, reserve, AcqStates, OpenAcq, Phases

(* Resolve keeps them too, whatever the verdict. *)
LEMMA ResolveType ==
    ASSUME TypeOK, NEW a \in Acqs, NEW r \in Resources, NEW v, Resolve(a, r, v)
    PROVE  /\ phase' \in [Resources -> Phases \cup {"none"}]
           /\ acqState' \in [Acqs -> AcqStates]
           /\ pending' \in [Acqs -> Resources \cup {Null}]
           /\ leaseID' \in [Acqs -> Leases \cup {Null}]
           /\ leaseState' \in [Leases -> {"none", "active", "released", "expired"}]
           /\ holder' \in [Leases -> Acqs \cup {Null}]
           /\ on' \in [Leases -> Resources \cup {Null}]
           /\ UNCHANGED <<deleted, request>>
  <1>1. CASE reserve(a, r)
    BY <1>1, ReserveType
  <1>2. CASE UNCHANGED <<rowVars, acqVars, leaseVars>>
    BY <1>2 DEF TypeOK, rowVars, acqVars, leaseVars
  <1>3. CASE FailPending(a) \/ rePend(a)
    BY <1>3 DEF FailPending, rePend, TypeOK, AcqStates, OpenAcq, rowVars, leaseVars
  <1> QED
    BY <1>1, <1>2, <1>3 DEF Resolve, BindPending

(* A record of a worker, and the ways workers change theirs. *)
WorkTypes == [pc : Points, acq : Acqs \cup {Null}, rows : SUBSET Resources,
              row : Resources \cup {Null}, verdict : Verdicts \cup {"none"}]

(* The records of a worker.                                                *)
LEMMA BusyType ==
    ASSUME NEW p \in Points, NEW a \in Acqs \cup {Null}, NEW r \in Resources \cup {Null}
    PROVE  /\ Busy(p, a, r) \in WorkTypes
           /\ Busy(p, a, r).pc = p /\ Busy(p, a, r).acq = a /\ Busy(p, a, r).row = r
  BY DEF Busy, WorkTypes

(* An idle worker.                                                         *)
LEMMA IdleType == Idle \in WorkTypes /\ Idle.pc = "idle"
  BY BusyType DEF Idle, Points

(* What the workers hold, the part of TypeInv about work alone. *)
WorkOK(wk) ==
    /\ wk \in [Workers -> WorkTypes]
    /\ \A v \in Workers :
         /\ wk[v].pc # "idle" => wk[v].acq \in Acqs
         /\ wk[v].pc = "settle" => wk[v].row \in Resources

(* The type invariant speaks of what workers do.                           *)
LEMMA WorkOKType == TypeInv => WorkOK(work)
  BY DEF TypeInv, TypeOK, WorkInv, WorkOK, WorkTypes

(* One worker goes to another point.                                       *)
LEMMA SetWork ==
    ASSUME TypeInv, NEW w \in Workers, NEW rec \in WorkTypes,
           rec.pc # "idle" => rec.acq \in Acqs,
           rec.pc = "settle" => rec.row \in Resources
    PROVE  WorkOK([work EXCEPT ![w] = rec])
  BY WorkOKType DEF WorkOK

(* Satisfy returns.                                                        *)
LEMMA ReturnType ==
    ASSUME TypeInv, NEW w \in Workers, work[w].pc # "idle", Return(w)
    PROVE  WorkOK(work')
  <1>1. /\ [work[w] EXCEPT !.pc = "expire", !.rows = {}] \in WorkTypes
        /\ [work[w] EXCEPT !.pc = "expire", !.rows = {}].acq \in Acqs
        /\ [work[w] EXCEPT !.pc = "expire", !.rows = {}].pc = "expire"
    BY DEF TypeInv, TypeOK, WorkInv, WorkTypes, Points
  <1> QED
    BY <1>1, IdleType, SetWork DEF Return

(* A worker goes on with some rows.                                        *)
LEMMA GoOnType ==
    ASSUME TypeInv, NEW w \in Workers, work[w].pc # "idle",
           NEW p \in {"reserve", "start", "decide"}, NEW S \in SUBSET Resources, GoOn(w, p, S)
    PROVE  WorkOK(work')
  <1> DEFINE rec == [work[w] EXCEPT !.pc = p, !.rows = S]
  <1>1. work[w] \in WorkTypes /\ work[w].acq \in Acqs
    BY DEF TypeInv, TypeOK, WorkInv, WorkTypes
  <1>2. rec \in WorkTypes /\ rec.pc = p /\ rec.acq \in Acqs
    BY <1>1 DEF WorkTypes, Points
  <1>3. work' = [work EXCEPT ![w] = rec]
    BY DEF GoOn
  <1> HIDE DEF rec
  <1> QED
    BY <1>2, <1>3, SetWork

(* The steps of Satisfy keep the types.                                    *)
LEMMA ProgressTypeInv ==
    ASSUME TypeInv, NEW w \in Workers, Progress(w) PROVE TypeInv'
  <1> USE DEF TypeInv, TypeOK, WorkInv, rowVars, acqVars, leaseVars, callback, Stands, WorkTypes, WorkOK
  <1>1. CASE Satisfy(w)
    <2>1. CASE Return(w)
      BY <1>1, <2>1, ReturnType DEF Satisfy
    <2>2. CASE \E S \in SUBSET Resources : GoOn(w, "reserve", S)
      BY <1>1, <2>2, GoOnType DEF Satisfy
    <2> QED
      BY <1>1, <2>1, <2>2 DEF Satisfy, TopRanked, rankedCandidates
  <1>2. CASE ReserveCandidate(w)
    <2>1. PICK r \in Resources : reserve(work[w].acq, r)
      BY <1>2 DEF ReserveCandidate
    <2>2. work[w].acq \in Acqs
      BY <1>2 DEF ReserveCandidate
    <2> QED
      BY <1>2, <2>1, <2>2, ReserveType, ReturnType DEF ReserveCandidate
  <1>3. CASE CandidateLost(w)
    BY <1>3, GoOnType DEF CandidateLost
  <1>4. CASE ListParked(w)
    BY <1>4, GoOnType DEF ListParked, Start
  <1>5. CASE startParked(w)
    <2>1. work[w].acq \in Acqs
      BY <1>5 DEF startParked
    <2> QED
      BY <1>5, <2>1, ReturnType DEF startParked, AcqTransition, AcqStates, OpenAcq, Phases
  <1>6. CASE StartLost(w)
    BY <1>6, GoOnType DEF StartLost, Start
  <1>7. CASE Queue(w)
    BY <1>7, ReturnType DEF Queue
  <1>8. CASE scaleOnDemand(w)
    <2>1. work[w].acq \in Acqs
      BY <1>8 DEF scaleOnDemand
    <2> QED
      BY <1>8, <2>1, ReturnType DEF scaleOnDemand, AcqTransition, AcqStates, OpenAcq, Phases
  <1>9. CASE ScaleFails(w)
    BY <1>9, ReturnType DEF ScaleFails
  <1>10. CASE NoCapacity(w)
    BY <1>10, IdleType DEF NoCapacity, AcqStates, OpenAcq
  <1> QED
    BY <1>1, <1>2, <1>3, <1>4, <1>5, <1>6, <1>7, <1>8, <1>9, <1>10 DEF Progress

(* The sweeper is a worker.                                                *)
LEMMA SweeperType == Sweeper \in Workers
  BY DEF Workers

(* So do all steps of the scheduler.                                       *)
LEMMA SchedulerTypeInv == TypeInv /\ Scheduler => TypeInv'
  <1> SUFFICES ASSUME TypeInv, Scheduler PROVE TypeInv'
    OBVIOUS
  <1> USE AcquisitionsAssumption, IdleType, SweeperType
      DEF TypeInv, TypeOK, WorkInv, rowVars, acqVars, leaseVars, callback, Stands, WorkTypes, WorkOK
  <1>0. "satisfy" \in Points /\ "sweep" \in Points
    BY DEF Points
  <1>1. ASSUME NEW a \in Acqs, NEW q \in Requests, Acquire(a, q) PROVE TypeInv'
    <2>1. a \in Workers
      BY DEF Workers
    <2>2. WorkOK(work')
      BY <1>0, <1>1, <2>1, BusyType, SetWork DEF Acquire
    <2> QED
      BY <1>1, <2>2 DEF Acquire, AcqStates, OpenAcq
  <1>2. ASSUME NEW a \in Acqs, Resume(a) PROVE TypeInv'
    <2>1. WorkOK(work')
      BY <1>0, <1>2, BusyType, SetWork DEF Resume
    <2> QED
      BY <1>2, <2>1 DEF Resume
  <1>3. CASE ExpirePending
    BY <1>3 DEF ExpirePending, AcqTransition, AcqStates
  <1>4. CASE NotExpired
    BY <1>4 DEF NotExpired
  <1>5. CASE ExpireProvisioning
    BY <1>5 DEF ExpireProvisioning, AcqStates
  <1>6. CASE ReadRow
    <2>1. CASE work' = [work EXCEPT ![Sweeper] = Idle]
      BY <1>6, <2>1 DEF ReadRow
    <2>2. CASE work[Sweeper].row # Null /\ \E v \in Verdicts :
                 work' = [work EXCEPT ![Sweeper] = [@ EXCEPT !.pc = "settle", !.verdict = v]]
      <3>1. PICK v \in Verdicts :
                 work' = [work EXCEPT ![Sweeper] = [@ EXCEPT !.pc = "settle", !.verdict = v]]
        BY <2>2
      <3> DEFINE rec == [work[Sweeper] EXCEPT !.pc = "settle", !.verdict = v]
      <3>2. /\ work[Sweeper] \in WorkTypes
            /\ work[Sweeper].acq \in Acqs /\ work[Sweeper].row \in Resources
        BY <1>6, <2>2 DEF ReadRow
      <3>4. rec \in WorkTypes /\ rec.acq \in Acqs /\ rec.row \in Resources
        BY <3>2 DEF Points
      <3>3. work' = [work EXCEPT ![Sweeper] = rec]
        BY <3>1
      <3>5. WorkOK(work')
        <4> HIDE DEF rec
        <4> QED
          BY <3>3, <3>4, SetWork
      <3> QED
        BY <1>6, <3>5 DEF ReadRow
    <2> QED
      BY <1>6, <2>1, <2>2 DEF ReadRow, VerdictOf, Verdicts
  <1>7. CASE Settle
    <2>1. work[Sweeper].acq \in Acqs /\ work[Sweeper].row \in Resources
      BY <1>7 DEF Settle
    <2> QED
      BY <1>7, <2>1, ResolveType DEF Settle
  <1>8. CASE HandleOpTerminal
    BY <1>8 DEF HandleOpTerminal
  <1>9. ASSUME NEW a \in Acqs, resolvePending(a) PROVE TypeInv'
    <2>1. ended.res \in Resources
      BY <1>9 DEF resolvePending
    <2> QED
      BY <1>9, <2>1, ResolveType DEF resolvePending
  <1>10. CASE CallbackDone
    BY <1>10 DEF CallbackDone, NoOp
  <1> QED
    BY <1>1, <1>2, <1>3, <1>4, <1>5, <1>6, <1>7, <1>8, <1>9, <1>10, ProgressTypeInv
       DEF Scheduler

(* The end of a lease keeps them.                                          *)
LEMMA EndLeaseTypeInv ==
    ASSUME TypeInv, NEW l \in Leases, NEW to \in {"released", "expired"}, endLease(l, to)
    PROVE  TypeInv'
  BY DEF TypeInv, TypeOK, WorkInv, endLease, AcqStates, Phases, callback

(* So does a row that changes its phase.                                   *)
LEMMA RowTypeInv ==
    ASSUME TypeInv, NEW r \in Resources, NEW from, NEW p \in Phases, Row(r, from, p)
    PROVE  /\ phase' \in [Resources -> Phases \cup {"none"}]
           /\ UNCHANGED <<acqVars, leaseVars, work>>
  BY DEF TypeInv, TypeOK, Row

(* And every other step on rows.                                           *)
LEMMA RowStepsTypeInv == TypeInv /\ RowSteps => TypeInv'
  <1> SUFFICES ASSUME TypeInv, NEW r \in Resources,
                      \/ CreateRow(r) \/ mintRecord(r) \/ Park(r) \/ StartRow(r) \/ Delete(r) \/ Tombstone(r)
                      \/ Drain(r) \/ Undrain(r) \/ Orphan(r) \/ Reappear(r)
                      \/ TombstoneOrphan(r) \/ OpSucceeds(r) \/ OpFails(r)
               PROVE  TypeInv'
    BY DEF RowSteps
  <1>1. /\ phase' \in [Resources -> Phases \cup {"none"}]
        /\ UNCHANGED <<acqVars, leaseVars, work>>
    BY RowTypeInv DEF TypeInv, TypeOK, CreateRow, mintRecord, Park, StartRow, Delete, Tombstone, Drain,
       Undrain, Orphan, Reappear, TombstoneOrphan, OpSucceeds, OpFails, Phases
  <1>2. deleted' \in SUBSET Resources /\ UNCHANGED waiting
    BY DEF TypeInv, TypeOK, CreateRow, mintRecord, Park, StartRow, Delete, Tombstone, Drain,
       Undrain, Orphan, Reappear, TombstoneOrphan, OpSucceeds, OpFails, Ends, callback
  <1>3. \/ UNCHANGED ended
        \/ \E v \in Verdicts : ended' = [res |-> r, verdict |-> v, listed |-> FALSE]
    BY DEF CreateRow, mintRecord, Park, StartRow, Delete, Tombstone, Drain, Undrain, Orphan, Reappear,
       TombstoneOrphan, OpSucceeds, OpFails, Ends, callback, Verdicts
  <1>4. /\ ended' \in [res : Resources \cup {Null}, verdict : Verdicts \cup {"none"},
                       listed : BOOLEAN]
        /\ waiting' # {} => ended'.res \in Resources
    <2>1. CASE UNCHANGED ended
      BY <1>2, <2>1 DEF TypeInv, TypeOK, WorkInv
    <2>2. ASSUME NEW v \in Verdicts, ended' = [res |-> r, verdict |-> v, listed |-> FALSE]
          PROVE  /\ ended' \in [res : Resources \cup {Null}, verdict : Verdicts \cup {"none"},
                                listed : BOOLEAN]
                 /\ ended'.res \in Resources
      BY <2>2
    <2> QED
      BY <1>3, <2>1, <2>2
  <1> QED
    BY <1>1, <1>2, <1>4 DEF TypeInv, TypeOK, WorkInv, acqVars, leaseVars

(* The type invariant is inductive.                                        *)
LEMMA NextTypeInv == TypeInv /\ [Next]_vars => TypeInv'
  <1> SUFFICES ASSUME TypeInv, [Next]_vars PROVE TypeInv'
    OBVIOUS
  <1>1. ASSUME NEW a \in Acqs, Release(a) PROVE TypeInv'
    <2>1. CASE leaseID[a] \in Leases
      BY <1>1, <2>1, EndLeaseTypeInv DEF Release
    <2>2. CASE leaseID[a] = Null
      BY <1>1, <2>2 DEF Release, endLease, TypeInv, TypeOK, WorkInv, AcqStates, Phases, callback
    <2> QED
      BY <2>1, <2>2 DEF TypeInv, TypeOK
  <1>2. ASSUME NEW a \in Acqs, Withdraw(a) PROVE TypeInv'
    BY <1>2 DEF Withdraw, TypeInv, TypeOK, WorkInv, AcqStates, rowVars, leaseVars, callback
  <1>3. ASSUME NEW l \in Leases, SweepExpired(l) PROVE TypeInv'
    BY <1>3, EndLeaseTypeInv DEF SweepExpired
  <1>4. CASE Crash
    BY <1>4, IdleType DEF Crash, NoOp, TypeInv, TypeOK, WorkInv, WorkTypes, rowVars,
       acqVars, leaseVars
  <1>5. CASE UNCHANGED vars
    BY <1>5 DEF vars, TypeInv, TypeOK, WorkInv, rowVars, acqVars, leaseVars, callback
  <1> QED
    BY <1>1, <1>2, <1>3, <1>4, <1>5, SchedulerTypeInv, RowStepsTypeInv DEF Next, LeaseManager

(* Every variable of the scheduler and the lease manager keeps its type.   *)
THEOREM TypeCorrect == Spec => []TypeOK
  <1>1. Spec => []TypeInv
    BY InitTypeInv, NextTypeInv, PTL DEF Spec
  <1> QED
    BY <1>1, PTL DEF TypeInv

-----------------------------------------------------------------------------
(* Safety *)

(* Nothing is leased at first.                                             *)
LEMMA InitSafe == Init => Safe
  BY DEF Init, Safe, Agree, AllocatedHasLease, LeasedKept, ExclusiveAlone, Active

(* Acquisitions that are not bound, and are not bound now, change at will. *)
LEMMA AcqFrame ==
    ASSUME TypeOK, Safe, UNCHANGED <<phase, deleted, leaseID, leaseState, holder, on>>,
           \A a \in Acqs : \/ acqState'[a] = acqState[a] /\ request'[a] = request[a]
                           \/ acqState[a] # "bound" /\ acqState'[a] # "bound"
    PROVE  Safe'
  <1>1. Agree'
    BY DEF Safe, Agree
  <1>2. AllocatedHasLease' /\ LeasedKept'
    BY DEF Safe, AllocatedHasLease, LeasedKept, Active, Live
  <1>3. ExclusiveAlone'
    BY DEF Safe, Agree, ExclusiveAlone, Active, Exclusive
  <1> QED
    BY <1>1, <1>2, <1>3 DEF Safe

(* A row that is moved keeps the promises if it is not moved to allocated, *)
(* nor to a phase that ends the machine while it has leases.               *)
LEMMA RowFrame ==
    ASSUME TypeOK, Safe, NEW r \in Resources, NEW p \in Phases \ {"allocated"},
           phase' = [phase EXCEPT ![r] = p],
           p \in {"parking", "deleting"} => Active(r) = {},
           UNCHANGED <<deleted, leaseID, leaseState, holder, on>>,
           \A a \in Acqs : \/ acqState'[a] = acqState[a] /\ request'[a] = request[a]
                           \/ acqState[a] # "bound" /\ acqState'[a] # "bound"
    PROVE  Safe'
  <1>1. Agree'
    BY DEF Safe, Agree
  <1>2. AllocatedHasLease'
    BY DEF TypeOK, Safe, AllocatedHasLease, Active
  <1>3. LeasedKept'
    BY DEF TypeOK, Safe, LeasedKept, Active, Live, Phases
  <1>4. ExclusiveAlone'
    BY DEF Safe, Agree, ExclusiveAlone, Active, Exclusive
  <1> QED
    BY <1>1, <1>2, <1>3, <1>4 DEF Safe

(* A row that nobody leases may be tombstoned. *)
LEMMA TombstoneFrame ==
    ASSUME TypeOK, Safe, NEW r \in Resources, Active(r) = {}, deleted' = deleted \cup {r},
           UNCHANGED <<phase, acqVars, leaseVars>>
    PROVE  Safe'
  <1> USE DEF acqVars, leaseVars
  <1>1. Agree'
    BY DEF Safe, Agree
  <1>2. AllocatedHasLease' /\ ExclusiveAlone'
    BY DEF Safe, AllocatedHasLease, ExclusiveAlone, Active, Exclusive
  <1>3. LeasedKept'
    BY DEF Safe, LeasedKept, Active, Live
  <1> QED
    BY <1>1, <1>2, <1>3 DEF Safe

(* The reservation transaction of the scheduler. *)
LEMMA ReserveSafe ==
    ASSUME TypeOK, Safe, NEW a \in Acqs, NEW r \in Resources, reserve(a, r)
    PROVE  Safe'
  <1> PICK l \in Leases :
         /\ leaseState[l] = "none"
         /\ leaseState' = [leaseState EXCEPT ![l] = "active"]
         /\ holder' = [holder EXCEPT ![l] = a]
         /\ on' = [on EXCEPT ![l] = r]
         /\ leaseID' = [leaseID EXCEPT ![a] = l]
    BY DEF reserve
  <1>1. /\ acqState[a] # "bound"
        /\ acqState' = [acqState EXCEPT ![a] = "bound"]
        /\ phase' = [phase EXCEPT ![r] = "allocated"]
        /\ r \notin deleted
        /\ UNCHANGED <<deleted, request>>
        /\ Exclusive(a) => Active(r) = {}
        /\ \A m \in Active(r) : ~Exclusive(holder[m])
    BY DEF reserve, Reservable, Room, OpenAcq, Live
  <1>2. Agree'
    BY <1>1 DEF TypeOK, Safe, Agree
  <1>3. AllocatedHasLease'
    BY <1>1 DEF TypeOK, Safe, AllocatedHasLease, Active
  <1>4. LeasedKept'
    BY <1>1 DEF TypeOK, Safe, LeasedKept, Live
  <1>5. \A x \in Resources : \A m \in Active(x)' :
            (m = l /\ x = r) \/ (m # l /\ m \in Active(x))
    <2> SUFFICES ASSUME NEW x \in Resources, NEW m \in Leases,
                        leaseState'[m] = "active", on'[m] = x
                 PROVE  (m = l /\ x = r) \/ (m # l /\ leaseState[m] = "active" /\ on[m] = x)
      BY DEF Active
    <2> QED
      BY DEF TypeOK
  <1>6. \A m \in Leases : m # l => holder'[m] = holder[m]
    BY DEF TypeOK
  <1>7. \A b : Exclusive(b)' = Exclusive(b)
    BY <1>1 DEF Exclusive
  <1>8. ExclusiveAlone'
    <2> SUFFICES ASSUME NEW x \in Resources, NEW m \in Active(x)', NEW n \in Active(x)',
                        Exclusive(holder'[m])
                 PROVE  m = n
      BY <1>7 DEF ExclusiveAlone
    <2>1. m \in Leases /\ n \in Leases /\ holder'[l] = a
      BY DEF Active, TypeOK
    <2>2. CASE m # l /\ n # l
      BY <1>5, <1>6, <2>1, <2>2 DEF Safe, ExclusiveAlone
    <2>3. CASE m = l /\ n # l
      BY <1>1, <1>5, <2>1, <2>3
    <2>4. CASE m # l /\ n = l
      BY <1>1, <1>5, <1>6, <2>1, <2>4
    <2> QED
      BY <2>2, <2>3, <2>4
  <1> QED
    BY <1>2, <1>3, <1>4, <1>8 DEF Safe

(* The end of a lease, released or expired. *)
LEMMA EndLeaseSafe ==
    ASSUME TypeOK, Safe, NEW l \in Leases, NEW to \in {"released", "expired"}, endLease(l, to)
    PROVE  Safe'
  <1>1. /\ holder[l] \in Acqs /\ on[l] \in Resources
        /\ acqState' = [acqState EXCEPT ![holder[l]] = to]
        /\ leaseState[l] = "active" /\ leaseState' = [leaseState EXCEPT ![l] = to]
        /\ UNCHANGED <<deleted, request, leaseID, holder, on>>
    BY DEF endLease, Safe, Agree
  <1>2. Agree'
    BY <1>1 DEF TypeOK, Safe, Agree
  <1>3. \A x \in Resources : Active(x)' = Active(x) \ {l}
    BY <1>1 DEF TypeOK, Active
  <1>4. AllocatedHasLease'
    <2> SUFFICES ASSUME NEW x \in Resources, phase'[x] = "allocated" PROVE Active(x)' # {}
      BY DEF AllocatedHasLease
    <2>1. phase[x] = "allocated" /\ (x = on[l] => Active(x) # {l})
      BY <1>1 DEF endLease, TypeOK
    <2>2. Active(x) # {}
      BY <2>1 DEF Safe, AllocatedHasLease
    <2>3. x # on[l] => l \notin Active(x)
      BY DEF Active
    <2> QED
      BY <1>3, <2>1, <2>2, <2>3
  <1>5. LeasedKept'
    BY <1>1 DEF endLease, TypeOK, Safe, LeasedKept, Live
  <1>6. ExclusiveAlone'
    BY <1>1, <1>3 DEF Safe, ExclusiveAlone, Exclusive
  <1> QED
    BY <1>2, <1>4, <1>5, <1>6 DEF Safe

(* The verdict on a pre-bound row, of the sweeper or the callback. *)
LEMMA ResolveSafe ==
    ASSUME TypeOK, Safe, NEW a \in Acqs, NEW r \in Resources, NEW v, Resolve(a, r, v)
    PROVE  Safe'
  <1>1. CASE reserve(a, r)
    BY <1>1, ReserveSafe
  <1>2. CASE UNCHANGED <<rowVars, acqVars, leaseVars>>
    BY <1>2, AcqFrame DEF rowVars, acqVars, leaseVars
  <1>3. CASE FailPending(a) \/ rePend(a)
    BY <1>3, AcqFrame DEF FailPending, rePend, TypeOK, rowVars, leaseVars
  <1> QED
    BY <1>1, <1>2, <1>3 DEF Resolve, BindPending

(* The steps of Satisfy.                                                   *)
LEMMA ProgressSafe ==
    ASSUME TypeInv, Safe, NEW w \in Workers, Progress(w) PROVE Safe'
  <1> USE DEF TypeInv, Stands, rowVars, acqVars, leaseVars
  <1>1. work[w].acq \in Acqs /\ work[w].rows \subseteq Resources
    BY DEF TypeOK, WorkInv, Progress, Satisfy, ReserveCandidate, CandidateLost, ListParked,
       startParked, StartLost, Queue, scaleOnDemand, ScaleFails, NoCapacity
  <1>2. CASE ReserveCandidate(w)
    BY <1>1, <1>2, ReserveSafe DEF ReserveCandidate
  <1>3. CASE startParked(w)
    <2>1. PICK r \in Resources : phase' = [phase EXCEPT ![r] = "starting"]
      BY <1>1, <1>3 DEF startParked
    <2>2. \A a \in Acqs : \/ acqState'[a] = acqState[a]
                          \/ acqState[a] # "bound" /\ acqState'[a] # "bound"
      BY <1>1, <1>3 DEF startParked, AcqTransition, TypeOK
    <2>3. UNCHANGED <<deleted, request, leaseID, leaseState, holder, on>>
      BY <1>3 DEF startParked
    <2>4. "starting" \in Phases \ {"allocated"}
      BY DEF Phases
    <2> QED
      BY <2>1, <2>2, <2>3, <2>4, RowFrame
  <1>4. CASE scaleOnDemand(w)
    <2>1. PICK r \in Resources : phase' = [phase EXCEPT ![r] = "provisioning"]
      BY <1>4 DEF scaleOnDemand
    <2>2. \A a \in Acqs : \/ acqState'[a] = acqState[a]
                          \/ acqState[a] # "bound" /\ acqState'[a] # "bound"
      BY <1>1, <1>4 DEF scaleOnDemand, AcqTransition, TypeOK
    <2>3. UNCHANGED <<deleted, request, leaseID, leaseState, holder, on>>
      BY <1>4 DEF scaleOnDemand
    <2>4. "provisioning" \in Phases \ {"allocated"}
      BY DEF Phases
    <2> QED
      BY <2>1, <2>2, <2>3, <2>4, RowFrame
  <1>5. CASE NoCapacity(w)
    BY <1>1, <1>5, AcqFrame DEF NoCapacity, TypeOK
  <1>6. CASE \/ Satisfy(w) \/ CandidateLost(w) \/ ListParked(w) \/ StartLost(w)
             \/ Queue(w) \/ ScaleFails(w)
    BY <1>6, AcqFrame DEF Satisfy, CandidateLost, ListParked, StartLost, Queue, ScaleFails
  <1> QED
    BY <1>2, <1>3, <1>4, <1>5, <1>6 DEF Progress

(* The steps of the scheduler.                                             *)
LEMMA SchedulerSafe == TypeInv /\ Safe /\ Scheduler => Safe'
  <1> SUFFICES ASSUME TypeInv, Safe, Scheduler PROVE Safe'
    OBVIOUS
  <1> USE SweeperType DEF TypeInv, Stands, rowVars, acqVars, leaseVars
  <1>1. ASSUME NEW a \in Acqs, NEW q \in Requests, Acquire(a, q) PROVE Safe'
    BY <1>1, AcqFrame DEF Acquire, TypeOK
  <1>2. CASE ExpirePending
    BY <1>2, AcqFrame DEF ExpirePending, AcqTransition, TypeOK
  <1>3. CASE ExpireProvisioning
    BY <1>3, AcqFrame DEF ExpireProvisioning, TypeOK
  <1>4. CASE Settle
    BY <1>4, ResolveSafe DEF Settle, WorkInv
  <1>5. ASSUME NEW a \in Acqs, resolvePending(a) PROVE Safe'
    BY <1>5, ResolveSafe DEF resolvePending, WorkInv
  <1>6. CASE \/ NotExpired \/ ReadRow \/ HandleOpTerminal \/ CallbackDone
             \/ \E a \in Acqs : Resume(a)
    BY <1>6, AcqFrame DEF NotExpired, ReadRow, HandleOpTerminal, CallbackDone, Resume
  <1> QED
    BY <1>1, <1>2, <1>3, <1>4, <1>5, <1>6, ProgressSafe DEF Scheduler

(* The steps of everyone else who moves rows.                              *)
LEMMA RowStepsSafe == TypeInv /\ Safe /\ RowSteps => Safe'
  <1> SUFFICES ASSUME TypeOK, Safe, RowSteps PROVE Safe'
    BY DEF TypeInv
  <1> PICK r \in Resources :
         \/ CreateRow(r) \/ mintRecord(r) \/ Park(r) \/ StartRow(r) \/ Delete(r) \/ Tombstone(r)
         \/ Drain(r) \/ Undrain(r) \/ Orphan(r) \/ Reappear(r)
         \/ TombstoneOrphan(r) \/ OpSucceeds(r) \/ OpFails(r)
    BY DEF RowSteps
  <1> USE DEF acqVars, leaseVars
  <1>1. CASE CreateRow(r) \/ mintRecord(r)
    BY <1>1, RowFrame DEF CreateRow, mintRecord, Phases
  <1>2. CASE Park(r) \/ Delete(r)
    BY <1>2, RowFrame DEF Park, Delete, Row, Phases
  <1>3. CASE StartRow(r) \/ Drain(r) \/ Undrain(r) \/ Orphan(r) \/ Reappear(r)
    BY <1>3, RowFrame DEF StartRow, Drain, Undrain, Orphan, Reappear, Row, Phases
  <1>4. CASE Tombstone(r) \/ TombstoneOrphan(r)
    BY <1>4, TombstoneFrame DEF Tombstone, TombstoneOrphan
  <1>5. CASE OpSucceeds(r)
    <2>1. CASE phase[r] = "deleting" /\ deleted' = deleted \cup {r}
               /\ UNCHANGED <<phase, acqVars, leaseVars>>
      <3>1. Active(r) = {}
        BY <2>1 DEF Active, Safe, LeasedKept
      <3> QED
        BY <2>1, <3>1, TombstoneFrame
    <2>2. CASE \E p \in {"ready", "parked"} :
                 /\ phase' = [phase EXCEPT ![r] = p]
                 /\ UNCHANGED <<deleted, acqVars, leaseVars>>
      BY <2>2, RowFrame DEF Phases
    <2> QED
      BY <1>5, <2>1, <2>2 DEF OpSucceeds, Row, Ends
  <1>6. CASE OpFails(r)
    BY <1>6, RowFrame DEF OpFails, Row, Ends, Phases
  <1> QED
    BY <1>1, <1>2, <1>3, <1>4, <1>5, <1>6

(* Safe is inductive.                                                      *)
LEMMA NextSafe == TypeInv /\ Safe /\ [Next]_vars => Safe'
  <1> SUFFICES ASSUME TypeInv, Safe, [Next]_vars PROVE Safe'
    OBVIOUS
  <1> USE DEF TypeInv
  <1>1. ASSUME NEW a \in Acqs, Release(a) PROVE Safe'
    BY <1>1, EndLeaseSafe DEF Release, Safe, Agree
  <1>2. ASSUME NEW a \in Acqs, Withdraw(a) PROVE Safe'
    BY <1>2, AcqFrame DEF Withdraw, OpenAcq, TypeOK, rowVars, leaseVars
  <1>3. ASSUME NEW l \in Leases, SweepExpired(l) PROVE Safe'
    BY <1>3, EndLeaseSafe DEF SweepExpired
  <1>4. CASE Crash \/ UNCHANGED vars
    BY <1>4, AcqFrame DEF Crash, vars, rowVars, acqVars, leaseVars
  <1> QED
    BY <1>1, <1>2, <1>3, <1>4, SchedulerSafe, RowStepsSafe DEF Next, LeaseManager

(* So it is an invariant.                                                  *)
LEMMA SafeInvariant == Spec => [](TypeInv /\ Safe)
  BY InitTypeInv, NextTypeInv, InitSafe, NextSafe, PTL DEF Spec

(* Agree says what BoundIffLeased says of sets of leases.                  *)
LEMMA AgreeBound == Safe => BoundIffLeased
  <1> SUFFICES ASSUME Safe, NEW a \in Acqs
               PROVE  {l \in Leases : leaseState[l] = "active" /\ holder[l] = a}
                        = IF acqState[a] = "bound" THEN {leaseID[a]} ELSE {}
    BY DEF BoundIffLeased
  <1>1. CASE acqState[a] = "bound"
    BY <1>1 DEF Safe, Agree
  <1>2. CASE acqState[a] # "bound"
    BY <1>2 DEF Safe, Agree
  <1> QED
    BY <1>1, <1>2

(* The lease and acquisition rows written by reserve, Release and          *)
(* SweepExpired agree in every state.                                      *)
THEOREM LeasesAgree == Spec => []BoundIffLeased
  BY SafeInvariant, AgreeBound, PTL

(* endLeaseLocked never leaves an allocated row behind without a lease.    *)
THEOREM AllocatedIsLeased == Spec => []AllocatedHasLease
  BY SafeInvariant, PTL DEF Safe

(* The gates of JournalStop, journalDelete and confirmOrphan, taken in     *)
(* their own transactions, protect every leased machine.                   *)
THEOREM LeasedIsKept == Spec => []LeasedKept
  BY SafeInvariant, PTL DEF Safe

(* reserve keeps exclusive leases alone, however many requests race.       *)
THEOREM ExclusiveIsAlone == Spec => []ExclusiveAlone
  BY SafeInvariant, PTL DEF Safe

-----------------------------------------------------------------------------
(* Sums, as SumFunction computes them *)

(* A non-empty set of naturals has a least element.                        *)
LEMMA LeastNatural ==
    ASSUME NEW T \in SUBSET Nat, T # {}
    PROVE  \E x \in T : \A y \in T : x <= y
  <1> DEFINE R == OpToRel(<, Nat)
  <1>1. IsWellFoundedOn(R, Nat)
    BY NatLessThanWellFounded
  <1> HIDE DEF R
  <1>2. PICK x \in T : \A y \in T : ~(<<y, x>> \in R)
    BY <1>1, WFMin
  <1>3. \A y \in T : ~(y < x)
    BY <1>2 DEF R, OpToRel
  <1> QED
    BY <1>3

(* The element that a fold takes next.                                     *)
Pick(s) == CHOOSE x \in s : TRUE

(* G is the fold's table of sums of f over a set D of subsets.             *)
Sums(f, D, G) ==
    G = [s \in D |-> IF s = {} THEN 0 ELSE f[Pick(s)] + G[s \ {Pick(s)}]]

(* The subsets of S with at most n elements.                               *)
UpTo(S, n) == {s \in SUBSET S : Cardinality(s) <= n}

(* Taking the next element leaves a smaller finite set.                    *)
LEMMA PickSmaller ==
    ASSUME NEW S, IsFiniteSet(S), NEW s \in SUBSET S, s # {}
    PROVE  /\ Pick(s) \in s /\ s \ {Pick(s)} \in SUBSET S
           /\ Cardinality(s) \in Nat /\ Cardinality(s \ {Pick(s)}) = Cardinality(s) - 1
  <1>1. Pick(s) \in s
    BY DEF Pick
  <1>2. IsFiniteSet(s)
    BY FS_Subset
  <1> QED
    BY <1>1, <1>2, FS_RemoveElement, FS_CardinalityType

(* A table for sets of up to n elements extends to one element more.       *)
LEMMA SumsGrow ==
    ASSUME NEW f, NEW S, IsFiniteSet(S), NEW n \in Nat, NEW G, Sums(f, UpTo(S, n), G)
    PROVE  \E H : Sums(f, UpTo(S, n + 1), H)
  <1> DEFINE H == [s \in UpTo(S, n + 1) |->
                     IF s = {} THEN 0 ELSE f[Pick(s)] + G[s \ {Pick(s)}]]
  <1>1. \A s \in UpTo(S, n) : G[s] = IF s = {} THEN 0 ELSE f[Pick(s)] + G[s \ {Pick(s)}]
    BY DEF Sums
  <1>2. \A s \in UpTo(S, n) : s \in UpTo(S, n + 1)
    <2> TAKE s \in UpTo(S, n)
    <2>1. s \in SUBSET S /\ Cardinality(s) <= n
      BY DEF UpTo
    <2>2. Cardinality(s) \in Nat
      BY <2>1, FS_Subset, FS_CardinalityType
    <2> QED
      BY <2>1, <2>2 DEF UpTo
  <1>3. \A s \in UpTo(S, n) : H[s] = G[s]
    BY <1>1, <1>2
  <1>4. ASSUME NEW s \in UpTo(S, n + 1), s # {}
        PROVE  H[s \ {Pick(s)}] = G[s \ {Pick(s)}]
    <2>1. s \in SUBSET S /\ Cardinality(s) <= n + 1
      BY DEF UpTo
    <2>2. /\ s \ {Pick(s)} \in SUBSET S
          /\ Cardinality(s) \in Nat /\ Cardinality(s \ {Pick(s)}) = Cardinality(s) - 1
      BY <1>4, <2>1, PickSmaller
    <2>3. s \ {Pick(s)} \in UpTo(S, n)
      BY <2>1, <2>2 DEF UpTo
    <2> QED
      BY <1>3, <2>3
  <1>5. H = [s \in UpTo(S, n + 1) |->
               IF s = {} THEN 0 ELSE f[Pick(s)] + H[s \ {Pick(s)}]]
    BY <1>4
  <1> QED
    BY <1>5 DEF Sums

(* There is a table for all subsets of a finite set.                       *)
LEMMA SumsExist ==
    ASSUME NEW f, NEW S, IsFiniteSet(S)
    PROVE  \E G : Sums(f, SUBSET S, G)
  <1> DEFINE Bad == {n \in Nat : ~ \E G : Sums(f, UpTo(S, n), G)}
  <1>1. Bad = {}
    <2>1. SUFFICES ASSUME Bad # {} PROVE FALSE
      OBVIOUS
    <2>2. PICK m \in Bad : \A k \in Bad : m <= k
      BY <2>1, LeastNatural
    <2>3. m \in Nat /\ ~ \E G : Sums(f, UpTo(S, m), G)
      BY <2>2
    <2>4. m # 0
      <3>1. \A s \in UpTo(S, 0) : s = {}
        <4> TAKE s \in UpTo(S, 0)
        <4>1. s \in SUBSET S /\ Cardinality(s) <= 0
          BY DEF UpTo
        <4>2. IsFiniteSet(s) /\ Cardinality(s) \in Nat
          BY <4>1, FS_Subset, FS_CardinalityType
        <4> QED
          BY <4>1, <4>2, FS_EmptySet
      <3> DEFINE G == [s \in UpTo(S, 0) |-> 0]
      <3>2. G = [s \in UpTo(S, 0) |-> IF s = {} THEN 0 ELSE f[Pick(s)] + G[s \ {Pick(s)}]]
        BY <3>1
      <3>3. Sums(f, UpTo(S, 0), G)
        BY <3>2 DEF Sums
      <3> QED
        BY <2>3, <3>3
    <2>5. m - 1 \in Nat /\ m - 1 \notin Bad
      BY <2>2, <2>3, <2>4
    <2>6. PICK G : Sums(f, UpTo(S, m - 1), G)
      BY <2>5
    <2>7. \E H : Sums(f, UpTo(S, (m - 1) + 1), H)
      BY <2>5, <2>6, SumsGrow
    <2>8. (m - 1) + 1 = m
      BY <2>3
    <2> QED
      BY <2>3, <2>7, <2>8
  <1>2. Cardinality(S) \in Nat
    BY FS_CardinalityType
  <1>3. UpTo(S, Cardinality(S)) = SUBSET S
    BY FS_Subset DEF UpTo
  <1>4. \E G : Sums(f, UpTo(S, Cardinality(S)), G)
    BY <1>1, <1>2
  <1> QED
    BY <1>3, <1>4

(* The table of sums over all subsets of S, as a fact about each of them.  *)
Table(f, S, G) ==
    \A s \in SUBSET S : /\ s = {} => G[s] = 0
                        /\ s # {} => G[s] = f[Pick(s)] + G[s \ {Pick(s)}]

(* SumFunction is the entry for the whole domain of such a table.          *)
LEMMA SumTable ==
    ASSUME NEW f, NEW S, S = DOMAIN f, IsFiniteSet(S)
    PROVE  \E G : Table(f, S, G) /\ SumFunction(f) = G[S]
  <1> DEFINE G0 == CHOOSE G : Sums(f, SUBSET (DOMAIN f), G)
  <1>1. Sums(f, SUBSET (DOMAIN f), G0)
    BY SumsExist
  <1>2. SumFunction(f) = G0[DOMAIN f]
    BY DEF SumFunction, SumFunctionOnSet, FoldFunctionOnSet, MapThenFoldSet, Sums, Pick
  <1>3. G0 = [s \in SUBSET S |-> IF s = {} THEN 0 ELSE f[Pick(s)] + G0[s \ {Pick(s)}]]
    BY <1>1, Zenon DEF Sums
  <1> HIDE DEF G0
  <1>4. Table(f, S, G0)
    BY <1>3 DEF Table
  <1> QED
    BY <1>2, <1>4

(* To show something of all subsets of a finite set: the smallest for      *)
(* which it fails is not there.                                            *)
LEMMA SmallestSet ==
    ASSUME NEW S, IsFiniteSet(S), NEW Bad \in SUBSET (SUBSET S), Bad # {}
    PROVE  \E s \in Bad : \A t \in SUBSET S :
              (Cardinality(t) = Cardinality(s) - 1) => t \notin Bad
  <1> DEFINE Sizes == {Cardinality(s) : s \in Bad}
  <1>1. \A s \in SUBSET S : Cardinality(s) \in Nat
    BY FS_Subset, FS_CardinalityType
  <1>2. Sizes \in SUBSET Nat /\ Sizes # {}
    BY <1>1
  <1>3. PICK m \in Sizes : \A k \in Sizes : m <= k
    <2> HIDE DEF Sizes
    <2> QED
      BY <1>2, LeastNatural
  <1>4. PICK s \in Bad : Cardinality(s) = m
    BY <1>3
  <1>5. ASSUME NEW t \in SUBSET S, Cardinality(t) = Cardinality(s) - 1, t \in Bad PROVE FALSE
    <2>1. m <= Cardinality(t) /\ Cardinality(t) \in Nat /\ m \in Nat
      BY <1>1, <1>3, <1>4, <1>5
    <2> QED
      BY <1>4, <1>5, <2>1
  <1> QED
    BY <1>4, <1>5

(* Sums of naturals are naturals.                                          *)
LEMMA SumsType ==
    ASSUME NEW S, IsFiniteSet(S), NEW f, \A x \in S : f[x] \in Nat,
           NEW G, Table(f, S, G)
    PROVE  \A s \in SUBSET S : G[s] \in Nat
  <1> DEFINE Bad == {s \in SUBSET S : G[s] \notin Nat}
  <1>1. SUFFICES ASSUME Bad # {} PROVE FALSE
    OBVIOUS
  <1>2. PICK s \in Bad : \A t \in SUBSET S :
           (Cardinality(t) = Cardinality(s) - 1) => t \notin Bad
    <2>1. Bad \in SUBSET (SUBSET S)
      OBVIOUS
    <2> HIDE DEF Bad
    <2> QED
      BY <1>1, <2>1, SmallestSet
  <1>3. s \in SUBSET S /\ G[s] \notin Nat
    BY <1>2
  <1>4. CASE s = {}
    <2>1. G[s] = 0
      BY <1>3, <1>4 DEF Table
    <2> QED
      BY <1>3, <2>1
  <1>5. CASE s # {}
    <2>1. /\ Pick(s) \in s /\ s \ {Pick(s)} \in SUBSET S
          /\ Cardinality(s \ {Pick(s)}) = Cardinality(s) - 1
      BY <1>3, <1>5, PickSmaller
    <2>2. G[s \ {Pick(s)}] \in Nat
      BY <1>2, <2>1
    <2>3. G[s] = f[Pick(s)] + G[s \ {Pick(s)}]
      BY <1>3, <1>5 DEF Table
    <2>4. f[Pick(s)] \in Nat
      BY <1>3, <2>1
    <2> QED
      BY <1>3, <2>2, <2>3, <2>4
  <1> QED
    BY <1>4, <1>5

(* Whatever order the fold takes: any element may be taken out first.      *)
LEMMA SumsAny ==
    ASSUME NEW S, IsFiniteSet(S), NEW f, \A x \in S : f[x] \in Nat,
           NEW G, Table(f, S, G)
    PROVE  \A s \in SUBSET S : \A y \in s : G[s] = f[y] + G[s \ {y}]
  <1> DEFINE Good(s) == \A y \in s : G[s] = f[y] + G[s \ {y}]
             Bad == {s \in SUBSET S : ~Good(s)}
  <1>1. SUFFICES ASSUME Bad # {} PROVE FALSE
    OBVIOUS
  <1>2. PICK s \in Bad : \A t \in SUBSET S :
           (Cardinality(t) = Cardinality(s) - 1) => t \notin Bad
    <2>1. Bad \in SUBSET (SUBSET S)
      OBVIOUS
    <2> HIDE DEF Bad
    <2> QED
      BY <1>1, <2>1, SmallestSet
  <1>3. s \in SUBSET S /\ ~Good(s)
    BY <1>2
  <1>4. PICK y \in s : G[s] # f[y] + G[s \ {y}]
    BY <1>3
  <1>5. PICK x : x = Pick(s)
    OBVIOUS
  <1>6. x \in s /\ G[s] = f[x] + G[s \ {x}]
    <2>1. s # {}
      BY <1>4
    <2> QED
      BY <1>3, <1>5, <2>1, PickSmaller DEF Table
  <1>7. x # y
    BY <1>4, <1>6
  <1>8. \A z \in s : s \ {z} \in SUBSET S /\ Good(s \ {z})
    <2> TAKE z \in s
    <2>1. IsFiniteSet(s)
      BY <1>3, FS_Subset
    <2>2. s \ {z} \in SUBSET S /\ Cardinality(s \ {z}) = Cardinality(s) - 1
      BY <1>3, <2>1, FS_RemoveElement
    <2> QED
      BY <1>2, <2>2
  <1>9. y \in s \ {x} /\ x \in s \ {y}
    BY <1>4, <1>6, <1>7
  <1>10. G[s \ {x}] = f[y] + G[(s \ {x}) \ {y}]
    BY <1>6, <1>8, <1>9
  <1>11. G[s \ {y}] = f[x] + G[(s \ {y}) \ {x}]
    BY <1>4, <1>8, <1>9
  <1>12. (s \ {y}) \ {x} = (s \ {x}) \ {y} /\ (s \ {x}) \ {y} \in SUBSET S
    BY <1>3
  <1>13. PICK g : g = G[(s \ {x}) \ {y}]
    OBVIOUS
  <1>14. g \in Nat /\ f[x] \in Nat /\ f[y] \in Nat
    <2>1. g \in Nat
      BY <1>12, <1>13, SumsType
    <2> QED
      BY <1>3, <1>4, <1>6, <2>1
  <1>15. G[s] = f[x] + (f[y] + g) /\ G[s \ {y}] = f[x] + g
    BY <1>6, <1>10, <1>11, <1>12, <1>13
  <1> QED
    BY <1>4, <1>14, <1>15

(* Sums depend on what is summed alone.                                    *)
LEMMA SumsAgree ==
    ASSUME NEW S, IsFiniteSet(S), NEW f, NEW G, Table(f, S, G),
           NEW T, IsFiniteSet(T), NEW h, NEW H, Table(h, T, H),
           S \subseteq T, \A x \in S : f[x] = h[x]
    PROVE  \A s \in SUBSET S : G[s] = H[s]
  <1> DEFINE Bad == {s \in SUBSET S : G[s] # H[s]}
  <1>1. SUFFICES ASSUME Bad # {} PROVE FALSE
    OBVIOUS
  <1>2. PICK s \in Bad : \A t \in SUBSET S :
           (Cardinality(t) = Cardinality(s) - 1) => t \notin Bad
    <2>1. Bad \in SUBSET (SUBSET S)
      OBVIOUS
    <2> HIDE DEF Bad
    <2> QED
      BY <1>1, <2>1, SmallestSet
  <1>3. s \in SUBSET S /\ s \in SUBSET T /\ G[s] # H[s]
    BY <1>2
  <1>4. CASE s = {}
    <2>1. G[s] = 0
      BY <1>3, <1>4 DEF Table
    <2>2. H[s] = 0
      BY <1>3, <1>4 DEF Table
    <2> QED
      BY <1>3, <2>1, <2>2
  <1>5. CASE s # {}
    <2>1. /\ Pick(s) \in s /\ s \ {Pick(s)} \in SUBSET S
          /\ Cardinality(s \ {Pick(s)}) = Cardinality(s) - 1
      BY <1>3, <1>5, PickSmaller
    <2>2. G[s \ {Pick(s)}] = H[s \ {Pick(s)}]
      BY <1>2, <2>1
    <2>3. G[s] = f[Pick(s)] + G[s \ {Pick(s)}]
      BY <1>3, <1>5 DEF Table
    <2>4. H[s] = h[Pick(s)] + H[s \ {Pick(s)}]
      BY <1>3, <1>5 DEF Table
    <2>5. f[Pick(s)] = h[Pick(s)]
      BY <1>3, <2>1
    <2> QED
      BY <1>3, <2>2, <2>3, <2>4, <2>5, Zenon
  <1> QED
    BY <1>4, <1>5

(* SumFunction of naturals over a finite set is a natural.                 *)
LEMMA SumType ==
    ASSUME NEW S, IsFiniteSet(S), NEW f \in [S -> Nat]
    PROVE  SumFunction(f) \in Nat
  <1>1. DOMAIN f = S /\ \A x \in S : f[x] \in Nat
    OBVIOUS
  <1>2. PICK G : Table(f, S, G) /\ SumFunction(f) = G[S]
    BY <1>1, SumTable
  <1> QED
    BY <1>1, <1>2, SumsType

(* One more summand.                                                       *)
LEMMA SumAdd ==
    ASSUME NEW S, IsFiniteSet(S), NEW f \in [S -> Nat], NEW x, x \notin S,
           NEW h \in [S \cup {x} -> Nat], \A y \in S : h[y] = f[y]
    PROVE  SumFunction(h) = h[x] + SumFunction(f)
  <1> DEFINE T == S \cup {x}
  <1>1. IsFiniteSet(T)
    BY FS_AddElement
  <1>2. DOMAIN f = S /\ DOMAIN h = T /\ \A y \in T : h[y] \in Nat
    OBVIOUS
  <1>3. S \subseteq T /\ T \ {x} = S /\ x \in T
    OBVIOUS
  <1> HIDE DEF T
  <1>4. PICK G : Table(f, S, G) /\ SumFunction(f) = G[S]
    BY <1>2, SumTable
  <1>5. PICK H : Table(h, T, H) /\ SumFunction(h) = H[T]
    BY <1>1, <1>2, SumTable
  <1>6. H[T] = h[x] + H[T \ {x}]
    BY <1>1, <1>2, <1>3, <1>5, SumsAny
  <1>7. G[S] = H[S]
    BY <1>1, <1>3, <1>4, <1>5, SumsAgree
  <1> QED
    BY <1>3, <1>4, <1>5, <1>6, <1>7

(* Nothing but zeros.                                                      *)
LEMMA SumZero ==
    ASSUME NEW S, IsFiniteSet(S), NEW f \in [S -> Nat], \A x \in S : f[x] = 0
    PROVE  SumFunction(f) = 0
  <1>1. DOMAIN f = S
    OBVIOUS
  <1>2. PICK G : Table(f, S, G) /\ SumFunction(f) = G[S]
    BY <1>1, SumTable
  <1> DEFINE Bad == {s \in SUBSET S : G[s] # 0}
  <1>3. Bad = {}
    <2>1. SUFFICES ASSUME Bad # {} PROVE FALSE
      OBVIOUS
    <2>2. PICK s \in Bad : \A t \in SUBSET S :
             (Cardinality(t) = Cardinality(s) - 1) => t \notin Bad
      <3>1. Bad \in SUBSET (SUBSET S)
        OBVIOUS
      <3> HIDE DEF Bad
      <3> QED
        BY <2>1, <3>1, SmallestSet
    <2>3. s \in SUBSET S /\ G[s] # 0
      BY <2>2
    <2>4. s # {}
      BY <1>2, <2>3 DEF Table
    <2>5. /\ Pick(s) \in s /\ s \ {Pick(s)} \in SUBSET S
          /\ Cardinality(s \ {Pick(s)}) = Cardinality(s) - 1
      BY <2>3, <2>4, PickSmaller
    <2>6. G[s \ {Pick(s)}] = 0 /\ f[Pick(s)] = 0
      BY <2>2, <2>5
    <2>7. G[s] = f[Pick(s)] + G[s \ {Pick(s)}]
      BY <1>2, <2>3, <2>4 DEF Table
    <2> QED
      BY <2>3, <2>6, <2>7
  <1> QED
    BY <1>2, <1>3

(* Any summand may be taken off first.                                     *)
LEMMA SumsAt ==
    ASSUME NEW T, IsFiniteSet(T), NEW h \in [T -> Nat], NEW H, Table(h, T, H),
           NEW i \in SUBSET T, NEW y \in i
    PROVE  H[i] = h[y] + H[i \ {y}]
  <1>1. \A x \in T : h[x] \in Nat
    OBVIOUS
  <1> QED
    BY <1>1, SumsAny

(* The same sum over other names: a one-to-one renaming of the summands.   *)
LEMMA SumRename ==
    ASSUME NEW S, IsFiniteSet(S), NEW f \in [S -> Nat],
           NEW T, IsFiniteSet(T), NEW h \in [T -> Nat],
           NEW g \in [S -> T],
           \A x, y \in S : g[x] = g[y] => x = y,
           \A y \in T : \E x \in S : g[x] = y,
           \A x \in S : f[x] = h[g[x]]
    PROVE  SumFunction(f) = SumFunction(h)
  <1>1. /\ DOMAIN f = S /\ DOMAIN h = T
        /\ \A x \in S : f[x] \in Nat
        /\ \A y \in T : h[y] \in Nat
    OBVIOUS
  <1>2. PICK G : Table(f, S, G) /\ SumFunction(f) = G[S]
    BY <1>1, SumTable
  <1>3. PICK H : Table(h, T, H) /\ SumFunction(h) = H[T]
    BY <1>1, SumTable
  <1> DEFINE Image(s) == {g[x] : x \in s}
             Bad == {s \in SUBSET S : G[s] # H[Image(s)]}
  <1>4. CASE Bad = {}
    <2>1. Image(S) = T
      OBVIOUS
    <2> QED
      BY <1>2, <1>3, <1>4, <2>1
  <1>5. CASE Bad # {}
    <2>1. PICK s \in Bad : \A t \in SUBSET S :
             (Cardinality(t) = Cardinality(s) - 1) => t \notin Bad
      <3>1. Bad \in SUBSET (SUBSET S)
        OBVIOUS
      <3> HIDE DEF Bad
      <3> QED
        BY <1>5, <3>1, SmallestSet
    <2>2. s \in SUBSET S /\ G[s] # H[Image(s)]
      BY <2>1
    <2>3. s # {}
      <3>1. Image({}) = {}
        OBVIOUS
      <3>2. G[{}] = 0 /\ H[{}] = 0
        BY <1>2, <1>3 DEF Table
      <3> QED
        BY <2>2, <3>1, <3>2
    <2>4. PICK x : x = Pick(s)
      OBVIOUS
    <2>5. PICK u : u = s \ {x}
      OBVIOUS
    <2>6. x \in s /\ u \in SUBSET S /\ Cardinality(u) = Cardinality(s) - 1
      BY <2>2, <2>3, <2>4, <2>5, PickSmaller
    <2>7. G[u] = H[Image(u)]
      BY <2>1, <2>6
    <2>8. G[s] = f[x] + G[u]
      BY <1>2, <2>2, <2>3, <2>4, <2>5 DEF Table
    <2>9. Image(u) = Image(s) \ {g[x]} /\ Image(s) \in SUBSET T /\ g[x] \in Image(s)
      BY <2>2, <2>5, <2>6
    <2>10. H[Image(s)] = h[g[x]] + H[Image(u)]
      <3>1. PICK i, y : i = Image(s) /\ y = g[x]
        OBVIOUS
      <3>2. i \in SUBSET T /\ y \in i /\ Image(u) = i \ {y}
        BY <2>9, <3>1
      <3> HIDE DEF Image, Bad
      <3>3. H[i] = h[y] + H[i \ {y}]
        BY <1>3, <3>2, SumsAt
      <3> QED
        BY <3>1, <3>2, <3>3
    <2>11. f[x] = h[g[x]]
      BY <2>2, <2>6
    <2> QED
      BY <2>2, <2>7, <2>8, <2>10, <2>11
  <1> QED
    BY <1>4, <1>5

-----------------------------------------------------------------------------
(* Capacity *)

(* An acquisition that was made keeps the request it was made with.        *)
RequestInv == \A a \in Acqs : acqState[a] # "none" => request[a] \in Requests

(* What the active leases of a machine claim in one dimension.             *)
Claims(r, dim) == [l \in Active(r) |-> At(Want(holder[l]), dim)]

(* Finitely many leases are active on a machine at any time.               *)
FiniteInv == \A r \in Resources : IsFiniteSet(Active(r))

(* The inductive invariant of the capacity rule, on top of Safe.           *)
CapacityInv == RequestInv /\ FiniteInv /\ CapacityRespected

(* The leases are left alone, and so are the requests of the bound.        *)
LeaseQuiet ==
    /\ UNCHANGED leaseVars
    /\ \A a \in Acqs : acqState[a] = "bound" => request'[a] = request[a]

(* A step leaves the leases alone, reserves, or ends one lease.            *)
LeaseStep ==
    \/ LeaseQuiet
    \/ \E a \in Acqs, r \in Resources : reserve(a, r)
    \/ \E l \in Leases : endLease(l, "released") \/ endLease(l, "expired")

(* Resolve reserves or leaves the leases alone.                            *)
LEMMA ResolveLease ==
    ASSUME NEW a \in Acqs, NEW r \in Resources, NEW v, Resolve(a, r, v)
    PROVE  LeaseStep
  BY DEF Resolve, BindPending, FailPending, rePend, LeaseStep, LeaseQuiet, acqVars

(* So does everybody else, but for the lease manager.                      *)
LEMMA NextLease ==
    ASSUME TypeInv, Safe, [Next]_vars
    PROVE  LeaseStep
  <1> USE SweeperType DEF TypeInv, Stands, acqVars
  <1>1. ASSUME NEW w \in Workers, Progress(w) PROVE LeaseStep
    <2>1. work[w].acq \in Acqs /\ work[w].rows \subseteq Resources
      BY <1>1 DEF TypeOK, WorkInv, Progress, Satisfy, ReserveCandidate, CandidateLost,
         ListParked, startParked, StartLost, Queue, scaleOnDemand, ScaleFails, NoCapacity
    <2>2. CASE ReserveCandidate(w)
      BY <2>1, <2>2 DEF ReserveCandidate, LeaseStep
    <2>3. CASE ~ReserveCandidate(w)
      BY <1>1, <2>3 DEF Progress, Satisfy, CandidateLost, ListParked, startParked, StartLost,
         Queue, scaleOnDemand, ScaleFails, NoCapacity, LeaseStep, LeaseQuiet
    <2> QED
      BY <2>2, <2>3
  <1>2. ASSUME NEW a \in Acqs, NEW q \in Requests, Acquire(a, q) PROVE LeaseStep
    BY <1>2 DEF Acquire, TypeOK, LeaseStep, LeaseQuiet
  <1>3. CASE Settle
    BY <1>3, ResolveLease DEF Settle, WorkInv
  <1>4. ASSUME NEW a \in Acqs, resolvePending(a) PROVE LeaseStep
    BY <1>4, ResolveLease DEF resolvePending, WorkInv
  <1>5. CASE \/ ExpirePending \/ NotExpired \/ ExpireProvisioning \/ ReadRow
             \/ HandleOpTerminal \/ CallbackDone \/ \E a \in Acqs : Resume(a)
    BY <1>5 DEF ExpirePending, NotExpired, ExpireProvisioning, ReadRow, HandleOpTerminal,
       CallbackDone, Resume, LeaseStep, LeaseQuiet
  <1>6. CASE LeaseManager
    <2>1. ASSUME NEW a \in Acqs, Release(a) PROVE LeaseStep
      BY <2>1 DEF Release, Safe, Agree, LeaseStep
    <2> QED
      BY <1>6, <2>1 DEF LeaseManager, Withdraw, SweepExpired, LeaseStep, LeaseQuiet
  <1>7. CASE RowSteps
    BY <1>7 DEF RowSteps, CreateRow, mintRecord, Park, StartRow, Delete, Tombstone, Drain,
       Undrain, Orphan, Reappear, TombstoneOrphan, OpSucceeds, OpFails, Row, LeaseStep,
       LeaseQuiet
  <1>8. CASE Crash \/ UNCHANGED vars
    BY <1>8 DEF Crash, vars, LeaseStep, LeaseQuiet
  <1> QED
    BY <1>1, <1>2, <1>3, <1>4, <1>5, <1>6, <1>7, <1>8 DEF Next, Scheduler

(* Requests come with Acquire, and only with it.                           *)
LEMMA NextRequest ==
    ASSUME TypeInv, RequestInv, [Next]_vars
    PROVE  RequestInv'
  <1> USE SweeperType DEF TypeInv, TypeOK, OpenAcq, acqVars, RequestInv
  <1> DEFINE SameRequests == /\ request' = request
                             /\ \A a \in Acqs : acqState[a] = "none" => acqState'[a] = "none"
  <1>1. ASSUME SameRequests PROVE RequestInv'
    BY <1>1
  <1>2. ASSUME NEW b, NEW r, reserve(b, r) PROVE SameRequests
    BY <1>2 DEF reserve, Reservable
  <1>3. ASSUME NEW b, NEW r, NEW v, Resolve(b, r, v) PROVE SameRequests
    BY <1>2, <1>3 DEF Resolve, BindPending, FailPending, rePend
  <1>4. ASSUME NEW w \in Workers, Progress(w) PROVE SameRequests
    BY <1>2, <1>4 DEF Progress, Satisfy, ReserveCandidate, CandidateLost, ListParked,
       startParked, StartLost, Queue, scaleOnDemand, ScaleFails, NoCapacity, AcqTransition
  <1>5. ASSUME NEW a \in Acqs, NEW q \in Requests, Acquire(a, q) PROVE RequestInv'
    BY <1>5 DEF Acquire
  <1>6. CASE \/ ExpirePending \/ NotExpired \/ ExpireProvisioning \/ ReadRow \/ Settle
             \/ HandleOpTerminal \/ CallbackDone
             \/ \E a \in Acqs : Resume(a) \/ resolvePending(a)
    <2>1. SameRequests
      BY <1>3, <1>6 DEF ExpirePending, NotExpired, ExpireProvisioning, ReadRow, Settle,
         HandleOpTerminal, CallbackDone, Resume, resolvePending, AcqTransition
    <2> QED
      BY <1>1, <2>1
  <1>7. CASE LeaseManager \/ Crash \/ UNCHANGED vars
    <2>1. SameRequests
      BY <1>7 DEF LeaseManager, Release, SweepExpired, endLease, Withdraw, Crash, vars
    <2> QED
      BY <1>1, <2>1
  <1>8. CASE RowSteps
    <2>1. SameRequests
      BY <1>8 DEF RowSteps, CreateRow, mintRecord, Park, StartRow, Delete, Tombstone, Drain,
         Undrain, Orphan, Reappear, TombstoneOrphan, OpSucceeds, OpFails, Row
    <2> QED
      BY <1>1, <2>1
  <1> QED
    BY <1>1, <1>4, <1>5, <1>6, <1>7, <1>8 DEF Next, Scheduler

(* A request claims a natural number in every dimension.                   *)
LEMMA WantType ==
    ASSUME NEW a, request[a] \in Requests, NEW dim
    PROVE  At(Want(a), dim) \in Nat
  <1>1. PICK c : c = request[a].constraints
    OBVIOUS
  <1>2. \A k \in DOMAIN c : c[k] \in Int
    BY <1>1, VectorsAssumption
  <1>3. Want(a) = [k \in {x \in DOMAIN c : c[x] > 0} |-> c[k]]
    BY <1>1, Zenon DEF Want, WantFromConstraints
  <1> QED
    BY <1>2, <1>3 DEF At

(* The claims on a machine are finitely many natural numbers.              *)
LEMMA ClaimsType ==
    ASSUME TypeInv, Safe, CapacityInv, NEW r \in Resources, NEW dim
    PROVE  Claims(r, dim) \in [Active(r) -> Nat] /\ IsFiniteSet(Active(r))
  <1>1. ASSUME NEW l \in Active(r) PROVE At(Want(holder[l]), dim) \in Nat
    <2>1. request[holder[l]] \in Requests
      BY DEF Active, Safe, Agree, CapacityInv, RequestInv
    <2> QED
      BY <2>1, WantType
  <1> QED
    BY <1>1 DEF Claims, CapacityInv, FiniteInv

(* SumActive, which reserve compares with the machine, is that sum.        *)
LEMMA UsedIsSum ==
    ASSUME TypeInv, Safe, CapacityInv, NEW r \in Resources, NEW dim
    PROVE  At(Used(r), dim) = SumFunction(Claims(r, dim))
  <1> DEFINE cap == [l \in Active(r) |-> Want(holder[l])]
             dims == UNION {DOMAIN cap[l] : l \in DOMAIN cap}
  <1>1. Used(r) = [d \in dims |-> SumFunction([l \in DOMAIN cap |-> At(cap[l], d)])]
    BY Zenon DEF Used, SumActive
  <1>2. [l \in DOMAIN cap |-> At(cap[l], dim)] = Claims(r, dim)
    BY DEF Claims
  <1>3. CASE dim \in dims
    <2>1. Used(r)[dim] = SumFunction([l \in DOMAIN cap |-> At(cap[l], dim)])
      <3> HIDE DEF cap, dims
      <3> QED
        BY <1>1, <1>3, Zenon
    <2>2. dim \in DOMAIN Used(r)
      <3> HIDE DEF cap, dims
      <3> QED
        BY <1>1, <1>3, Zenon
    <2> QED
      BY <1>2, <2>1, <2>2, Zenon DEF At
  <1>4. CASE dim \notin dims
    <2>1. dim \notin DOMAIN Used(r)
      <3> HIDE DEF cap, dims
      <3> QED
        BY <1>1, <1>4, Zenon
    <2>2. \A l \in Active(r) : dim \notin DOMAIN Want(holder[l])
      BY <1>4
    <2>3. \A l \in Active(r) : Claims(r, dim)[l] = 0
      BY <2>2 DEF Claims, At
    <2>4. SumFunction(Claims(r, dim)) = 0
      BY <2>3, ClaimsType, SumZero
    <2> QED
      BY <2>1, <2>4 DEF At
  <1> QED
    BY <1>3, <1>4

(* A step that leaves the claims of a machine alone.                       *)
LEMMA ClaimsQuiet ==
    ASSUME TypeInv, Safe, LeaseQuiet, NEW r \in Resources
    PROVE  /\ Active(r)' = Active(r)
           /\ \A dim : Claims(r, dim)' = Claims(r, dim)
  <1>1. Active(r)' = Active(r)
    BY DEF LeaseQuiet, leaseVars, Active
  <1>2. \A l \in Active(r) : request'[holder'[l]] = request[holder[l]]
    BY DEF LeaseQuiet, leaseVars, Active, Safe, Agree
  <1>3. \A l \in Active(r) : Want(holder[l])' = Want(holder[l])
    BY <1>2, Zenon DEF Want
  <1>4. ASSUME NEW dim PROVE Claims(r, dim)' = Claims(r, dim)
    <2>1. \A l \in Active(r) : At(Want(holder[l]), dim)' = At(Want(holder[l]), dim)
      BY <1>3, Zenon DEF At
    <2> QED
      BY <1>1, <2>1 DEF Claims
  <1> QED
    BY <1>1, <1>4

(* What the claims of a state say about the invariant in it.               *)
LEMMA CapacityFromClaims ==
    ASSUME NEW r \in Resources
    PROVE  CapacityRespected => \A dim \in DOMAIN Total :
                                   SumFunction(Claims(r, dim)) <= Total[dim]
  BY Zenon DEF CapacityRespected, Claims

(* The reservation adds one lease to one machine, and has asked for room.  *)
LEMMA ReserveCapacity ==
    ASSUME TypeInv, Safe, CapacityInv, NEW a \in Acqs, NEW r \in Resources, reserve(a, r)
    PROVE  FiniteInv' /\ CapacityRespected'
  <1>1. PICK l \in Leases :
          /\ leaseState[l] = "none"
          /\ leaseState' = [leaseState EXCEPT ![l] = "active"]
          /\ holder' = [holder EXCEPT ![l] = a]
          /\ on' = [on EXCEPT ![l] = r]
    BY DEF reserve
  <1>2. /\ request' = request /\ acqState[a] \in OpenAcq
        /\ \A dim \in DOMAIN Total : At(Used(r), dim) + At(Want(a), dim) <= Total[dim]
    BY DEF reserve, Reservable
  <1>3. request[a] \in Requests
    BY <1>2 DEF OpenAcq, CapacityInv, RequestInv
  <1>4. \A x \in Resources : Active(x)' = IF x = r THEN Active(x) \cup {l} ELSE Active(x)
    <2> TAKE x \in Resources
    <2>1. \A m \in Leases : (leaseState'[m] = "active" /\ on'[m] = x)
                              <=> IF m = l THEN x = r ELSE leaseState[m] = "active" /\ on[m] = x
      BY <1>1 DEF TypeInv, TypeOK
    <2>2. l \notin Active(x)
      BY <1>1 DEF Active
    <2> QED
      BY <2>1, <2>2 DEF Active
  <1>5. /\ Want(holder[l])' = Want(a)
        /\ \A m \in Leases \ {l} : Want(holder[m])' = Want(holder[m])
    <2>1. holder'[l] = a /\ \A m \in Leases \ {l} : holder'[m] = holder[m]
      BY <1>1 DEF TypeInv, TypeOK
    <2> QED
      BY <1>2, <2>1, Zenon DEF Want
  <1>6. \A x \in Resources : IsFiniteSet(Active(x)) /\ l \notin Active(x)
    BY <1>1 DEF CapacityInv, FiniteInv, Active
  <1>7. FiniteInv'
    <2>1. ASSUME NEW x \in Resources PROVE IsFiniteSet(Active(x)')
      BY <1>4, <1>6, FS_AddElement
    <2> QED
      BY <2>1 DEF FiniteInv
  <1>8. ASSUME NEW x \in Resources, NEW dim \in DOMAIN Total
        PROVE  SumFunction(Claims(x, dim)') <= Total[dim]
    <2>1. PICK f, h : f = Claims(x, dim) /\ h = Claims(x, dim)'
      OBVIOUS
    <2>2. f \in [Active(x) -> Nat] /\ IsFiniteSet(Active(x))
      BY <2>1, ClaimsType
    <2>3. \A m \in Active(x) : h[m] = f[m]
      <3> TAKE m \in Active(x)
      <3>1. m \in Active(x)' /\ m \in Leases \ {l}
        BY <1>4, <1>6 DEF Active
      <3>2. h[m] = At(Want(holder[m])', dim)
        BY <2>1, <3>1 DEF Claims, At
      <3>3. f[m] = At(Want(holder[m]), dim)
        BY <2>1 DEF Claims
      <3> QED
        BY <1>5, <3>1, <3>2, <3>3, Zenon
    <2>4. CASE x # r
      <3>1. DOMAIN h = Active(x) /\ DOMAIN f = Active(x)
        BY <1>4, <2>1, <2>4 DEF Claims
      <3>2. h = f
        <4>1. h = [m \in Active(x) |-> h[m]]
          BY <1>4, <2>1, <2>4 DEF Claims
        <4>2. f = [m \in Active(x) |-> f[m]]
          BY <2>1 DEF Claims
        <4> QED
          BY <2>3, <4>1, <4>2
      <3> QED
        BY <2>1, <3>2, CapacityFromClaims DEF CapacityInv
    <2>5. CASE x = r
      <3>1. DOMAIN h = Active(r) \cup {l}
        BY <1>4, <2>1, <2>5 DEF Claims
      <3>2. h[l] = At(Want(a), dim)
        <4>1. l \in Active(r)'
          BY <1>4
        <4>2. h[l] = At(Want(holder[l])', dim)
          BY <2>1, <2>5, <4>1 DEF Claims, At
        <4> QED
          BY <1>5, <4>2, Zenon
      <3>3. At(Want(a), dim) \in Nat
        BY <1>3, WantType
      <3>4. h \in [Active(r) \cup {l} -> Nat]
        <4>1. h = [m \in Active(r) \cup {l} |-> h[m]]
          BY <1>4, <2>1, <2>5 DEF Claims
        <4>2. \A m \in Active(r) \cup {l} : h[m] \in Nat
          BY <2>2, <2>3, <2>5, <3>2, <3>3
        <4> QED
          BY <4>1, <4>2
      <3>5. SumFunction(h) = h[l] + SumFunction(f)
        BY <1>6, <2>2, <2>3, <2>5, <3>4, SumAdd
      <3>6. At(Used(r), dim) = SumFunction(f)
        BY <2>1, <2>5, UsedIsSum
      <3>7. SumFunction(f) \in Nat
        BY <2>2, SumType
      <3>8. SumFunction(f) + At(Want(a), dim) <= Total[dim]
        BY <1>2, <3>6
      <3> QED
        BY <2>1, <3>2, <3>3, <3>5, <3>7, <3>8
    <2> QED
      BY <2>4, <2>5
  <1>9. CapacityRespected'
    BY <1>8, Zenon DEF CapacityRespected, Claims
  <1> QED
    BY <1>7, <1>9

(* The end of a lease takes one claim away.                                *)
LEMMA EndLeaseCapacity ==
    ASSUME TypeInv, Safe, CapacityInv, NEW l \in Leases, NEW to \in {"released", "expired"},
           endLease(l, to)
    PROVE  FiniteInv' /\ CapacityRespected'
  <1>1. /\ leaseState[l] = "active" /\ leaseState' = [leaseState EXCEPT ![l] = to]
        /\ request' = request /\ holder' = holder /\ on' = on
    BY DEF endLease
  <1>2. \A x \in Resources : Active(x)' = Active(x) \ {l}
    BY <1>1 DEF TypeInv, TypeOK, Active
  <1>3. FiniteInv'
    <2>1. ASSUME NEW x \in Resources PROVE IsFiniteSet(Active(x)')
      BY <1>2, FS_RemoveElement DEF CapacityInv, FiniteInv
    <2> QED
      BY <2>1 DEF FiniteInv
  <1>4. ASSUME NEW x \in Resources, NEW dim \in DOMAIN Total
        PROVE  SumFunction(Claims(x, dim)') <= Total[dim]
    <2>1. PICK f, h : f = Claims(x, dim) /\ h = Claims(x, dim)'
      OBVIOUS
    <2>2. f \in [Active(x) -> Nat] /\ IsFiniteSet(Active(x)) /\ SumFunction(f) <= Total[dim]
      BY <2>1, ClaimsType, CapacityFromClaims DEF CapacityInv
    <2>3. h = [m \in Active(x) \ {l} |-> f[m]]
      <3>1. \A m : At(Want(holder[m]), dim)' = At(Want(holder[m]), dim)
        BY <1>1, Zenon DEF At, Want
      <3>2. h = [m \in Active(x) \ {l} |-> At(Want(holder[m]), dim)]
        BY <1>2, <2>1, <3>1 DEF Claims
      <3>3. \A m \in Active(x) \ {l} : f[m] = At(Want(holder[m]), dim)
        BY <2>1 DEF Claims
      <3> QED
        BY <3>2, <3>3
    <2>4. CASE l \notin Active(x)
      <3>1. h = f
        BY <2>2, <2>3, <2>4
      <3> QED
        BY <2>1, <2>2, <3>1
    <2>5. CASE l \in Active(x)
      <3> DEFINE S == Active(x) \ {l}
      <3>1. IsFiniteSet(S) /\ l \notin S /\ S \cup {l} = Active(x)
        BY <2>2, <2>5, FS_RemoveElement
      <3>2. h \in [S -> Nat] /\ f \in [S \cup {l} -> Nat] /\ \A m \in S : f[m] = h[m]
        BY <2>2, <2>3, <3>1
      <3>3. f[l] \in Nat
        BY <2>2, <2>5
      <3> HIDE DEF S
      <3>4. SumFunction(f) = f[l] + SumFunction(h) /\ SumFunction(h) \in Nat
        BY <3>1, <3>2, SumAdd, SumType
      <3>5. Total[dim] \in Nat
        BY VectorsAssumption
      <3> QED
        BY <2>1, <2>2, <3>3, <3>4, <3>5
    <2> QED
      BY <2>4, <2>5
  <1>5. CapacityRespected'
    BY <1>4, Zenon DEF CapacityRespected, Claims
  <1> QED
    BY <1>3, <1>5

(* The capacity rule is inductive.                                         *)
LEMMA NextCapacity ==
    ASSUME TypeInv, Safe, CapacityInv, [Next]_vars
    PROVE  CapacityInv'
  <1>1. RequestInv'
    BY NextRequest DEF CapacityInv
  <1>2. CASE LeaseQuiet
    <2>1. FiniteInv'
      BY <1>2, ClaimsQuiet DEF CapacityInv, FiniteInv
    <2>2. ASSUME NEW x \in Resources, NEW dim \in DOMAIN Total
          PROVE  SumFunction(Claims(x, dim)') <= Total[dim]
      <3>1. Claims(x, dim)' = Claims(x, dim)
        BY <1>2, ClaimsQuiet
      <3>2. SumFunction(Claims(x, dim)) <= Total[dim]
        BY CapacityFromClaims DEF CapacityInv
      <3> QED
        BY <3>1, <3>2, Zenon
    <2>3. CapacityRespected'
      BY <2>2, Zenon DEF CapacityRespected, Claims
    <2> QED
      BY <1>1, <2>1, <2>3 DEF CapacityInv
  <1>3. ASSUME NEW a \in Acqs, NEW r \in Resources, reserve(a, r) PROVE CapacityInv'
    BY <1>1, <1>3, ReserveCapacity DEF CapacityInv
  <1>4. ASSUME NEW l \in Leases, endLease(l, "released") \/ endLease(l, "expired")
        PROVE  CapacityInv'
    BY <1>1, <1>4, EndLeaseCapacity DEF CapacityInv
  <1> QED
    BY <1>2, <1>3, <1>4, NextLease DEF LeaseStep

(* Nothing is leased at first.                                             *)
LEMMA InitCapacity ==
    ASSUME Init
    PROVE  CapacityInv
  <1>1. \A r \in Resources : Active(r) = {}
    BY DEF Init, Active
  <1>2. RequestInv
    BY DEF Init, RequestInv
  <1>3. FiniteInv
    BY <1>1, FS_EmptySet DEF FiniteInv
  <1>4. ASSUME NEW r \in Resources, NEW dim \in DOMAIN Total
        PROVE  SumFunction(Claims(r, dim)) <= Total[dim]
    <2>1. PICK S, f : S = Active(r) /\ f = Claims(r, dim)
      OBVIOUS
    <2>2. S = {} /\ f \in [S -> Nat] /\ IsFiniteSet(S)
      BY <1>1, <2>1, FS_EmptySet DEF Claims
    <2>3. SumFunction(f) = 0
      BY <2>2, SumZero
    <2>4. Total[dim] \in Nat
      BY VectorsAssumption
    <2> QED
      BY <2>1, <2>3, <2>4
  <1>5. CapacityRespected
    BY <1>4, Zenon DEF CapacityRespected, Claims
  <1> QED
    BY <1>2, <1>3, <1>5 DEF CapacityInv

(* No machine is over-allocated in any dimension, however many callers     *)
(* filtered on the same snapshot, for any machine, any requests and any    *)
(* supply of leases: reserve compares the sum it reads in its transaction, *)
(* and nobody else adds to it or changes what a bound caller asked for.    *)
THEOREM CapacityIsRespected == Spec => []CapacityRespected
  <1>1. Spec => []CapacityInv
    BY SafeInvariant, InitCapacity, NextCapacity, PTL DEF Spec
  <1> QED
    BY <1>1, PTL DEF CapacityInv

-----------------------------------------------------------------------------
(* Terminal states *)

(* Every write of an acquisition's state compares the state it leaves.     *)
THEOREM TerminalIsFinal == Spec => NoResurrection
  <1> DEFINE Final == \A a \in Acqs : acqState[a] \in {"released", "expired", "failed"}
                                        => acqState'[a] = acqState[a]
  <1>1. TypeInv /\ [Next]_vars => [Final]_vars
    <2> SUFFICES ASSUME TypeInv, Next PROVE Final
      OBVIOUS
    <2> USE SweeperType DEF TypeInv, TypeOK, OpenAcq
    <2>1. ASSUME NEW b, NEW r, reserve(b, r) PROVE Final
      BY <2>1 DEF reserve, Reservable
    <2>2. ASSUME NEW b, NEW r, NEW v, Resolve(b, r, v) PROVE Final
      BY <2>1, <2>2 DEF Resolve, BindPending, FailPending, rePend, acqVars
    <2>3. ASSUME NEW l, NEW to, endLease(l, to) PROVE Final
      BY <2>3 DEF endLease
    <2>4. CASE Scheduler
      <3>1. ASSUME NEW w \in Workers, Progress(w) PROVE Final
        BY <2>1, <3>1 DEF Progress, Satisfy, ReserveCandidate, CandidateLost, ListParked,
           startParked, StartLost, Queue, scaleOnDemand, ScaleFails, NoCapacity,
           AcqTransition, acqVars
      <3> QED
        BY <2>2, <2>4, <3>1 DEF Scheduler, Acquire, Resume, resolvePending, ExpirePending,
           NotExpired, ExpireProvisioning, ReadRow, Settle, HandleOpTerminal, CallbackDone,
           AcqTransition, acqVars
    <2>5. CASE LeaseManager
      BY <2>3, <2>5 DEF LeaseManager, Release, Withdraw, SweepExpired
    <2>6. CASE RowSteps
      BY <2>6 DEF RowSteps, CreateRow, mintRecord, Park, StartRow, Delete, Tombstone, Drain, Undrain,
         Orphan, Reappear, TombstoneOrphan, OpSucceeds, OpFails, Row, acqVars
    <2>7. CASE Crash
      BY <2>7 DEF Crash, acqVars
    <2> QED
      BY <2>4, <2>5, <2>6, <2>7 DEF Next
  <1>2. Spec => []TypeInv
    BY InitTypeInv, NextTypeInv, PTL DEF Spec
  <1> QED
    BY <1>1, <1>2, PTL DEF Spec, NoResurrection
-----------------------------------------------------------------------------
(* The promise to callers *)

(* Callers hold a machine through its active leases, one each.             *)
LEMMA HoldersAreLeased ==
    ASSUME TypeInv, Safe, NEW m \in Resources
    PROVE  /\ \A l \in Active(m) : holder[l] \in Alloc!Holders(m) /\ leaseID[holder[l]] = l
           /\ \A a \in Alloc!Holders(m) : leaseID[a] \in Active(m) /\ holder[leaseID[a]] = a
           /\ Alloc!Holders(m) \subseteq Acqs
           /\ Active(m) = {} => Alloc!Holders(m) = {}
  <1>1. \A a \in Acqs : CallerState[a] = "held" <=> acqState[a] = "bound"
    BY DEF CallerState, TypeInv, TypeOK, AcqStates, OpenAcq
  <1>2. \A a \in Acqs : acqState[a] = "bound" => HeldMachine[a] = on[leaseID[a]]
    BY DEF HeldMachine
  <1>3. \A a : a \in Alloc!Holders(m)
                 <=> a \in Acqs /\ acqState[a] = "bound" /\ on[leaseID[a]] = m
    BY <1>1, <1>2 DEF Alloc!Holders
  <1>4. ASSUME NEW l \in Active(m)
        PROVE  holder[l] \in Alloc!Holders(m) /\ leaseID[holder[l]] = l
    BY <1>3 DEF Active, Safe, Agree
  <1>5. ASSUME NEW a \in Alloc!Holders(m)
        PROVE  leaseID[a] \in Active(m) /\ holder[leaseID[a]] = a
    BY <1>3 DEF Active, Safe, Agree
  <1> QED
    BY <1>3, <1>4, <1>5

(* So what they claim of it is what its leases claim.                      *)
LEMMA ClaimedIsUsed ==
    ASSUME TypeInv, Safe, CapacityInv, NEW m \in Resources, NEW dim
    PROVE  Alloc!Claimed(m, dim) = At(Used(m), dim)
  <1> DEFINE S == Active(m)
             T == Alloc!Holders(m)
             g == [l \in S |-> holder[l]]
             h == [a \in T |-> Alloc!Wanted(a, dim)]
             f == Claims(m, dim)
  <1>1. f \in [S -> Nat] /\ IsFiniteSet(S)
    BY ClaimsType
  <1>2. /\ \A l \in S : holder[l] \in T /\ leaseID[holder[l]] = l
        /\ \A a \in T : leaseID[a] \in S /\ holder[leaseID[a]] = a
    BY HoldersAreLeased
  <1>3. \A a : Alloc!Wanted(a, dim) = At(Want(a), dim)
    BY DEF Alloc!Wanted, Want, Alloc!At, At, Alloc!WantFromConstraints, WantFromConstraints
  <1>4. \A l \in S : f[l] = At(Want(holder[l]), dim)
    BY DEF Claims
  <1>5. \A l \in S : f[l] = h[g[l]] /\ g[l] \in T
    BY <1>2, <1>3, <1>4
  <1>6. /\ g \in [S -> T]
        /\ \A x, y \in S : g[x] = g[y] => x = y
        /\ \A y \in T : \E x \in S : g[x] = y
    <2>1. \A l \in S : g[l] = holder[l]
      OBVIOUS
    <2>2. g \in [S -> T]
      BY <1>2
    <2> HIDE DEF g
    <2>3. ASSUME NEW x \in S, NEW y \in S, g[x] = g[y] PROVE x = y
      BY <1>2, <2>1, <2>3
    <2>4. ASSUME NEW y \in T PROVE \E x \in S : g[x] = y
      BY <1>2, <2>1
    <2> QED
      BY <2>2, <2>3, <2>4
  <1>7. IsFiniteSet(T)
    <2>1. g \in Surjection(S, T)
      BY <1>6 DEF Surjection
    <2> HIDE DEF g, S, T
    <2> QED
      BY <1>1, <2>1, FS_Surjection
  <1>8. h \in [T -> Nat]
    <2>1. ASSUME NEW a \in T PROVE h[a] \in Nat
      <3>1. PICK l \in S : g[l] = a
        BY <1>6
      <3> QED
        BY <1>1, <1>5, <3>1
    <2>2. h = [a \in T |-> h[a]]
      OBVIOUS
    <2> QED
      BY <2>1, <2>2
  <1>9. Alloc!Claimed(m, dim) = SumFunction(h)
    <2>1. Alloc!Claimed(m, dim) = Alloc!SumFunction(h)
      BY DEF Alloc!Claimed
    <2> HIDE DEF h
    <2> QED
      BY <2>1 DEF SumFunction, SumFunctionOnSet, FoldFunctionOnSet, MapThenFoldSet,
         Alloc!SumFunction, Alloc!SumFunctionOnSet, Alloc!FoldFunctionOnSet,
         Alloc!MapThenFoldSet
  <1>10. At(Used(m), dim) = SumFunction(f)
    BY UsedIsSum
  <1> HIDE DEF S, T, f, g, h
  <1>11. SumFunction(f) = SumFunction(h)
    BY <1>1, <1>5, <1>6, <1>7, <1>8, SumRename
  <1> QED
    BY <1>9, <1>10, <1>11

(* A row that moves comes, stays or goes for callers; one that goes is not *)
(* held.                                                                   *)
LEMMA KeptMoves ==
    ASSUME TypeInv, NEW r \in Resources, r \notin deleted, deleted' = deleted,
           NEW p \in Phases, phase' = [phase EXCEPT ![r] = p]
    PROVE  Kept' = IF p \in {"parking", "deleting"} THEN Kept \ {r} ELSE Kept \cup {r}
  <1>1. \A x \in Resources : phase'[x] = IF x = r THEN p ELSE phase[x]
    BY DEF TypeInv, TypeOK
  <1>2. p # "none"
    BY DEF Phases
  <1> QED
    BY <1>1, <1>2 DEF Kept, Live

(* A tombstone takes a row away.                                           *)
LEMMA KeptBuries ==
    ASSUME NEW r \in Resources, deleted' = deleted \cup {r}, phase' = phase
    PROVE  Kept' = Kept \ {r}
  BY DEF Kept, Live

(* What callers see of an acquisition depends on nothing else.             *)
LEMMA CallersStay ==
    ASSUME UNCHANGED <<acqState, leaseID, on>>
    PROVE  UNCHANGED <<CallerState, HeldMachine>>
  BY DEF CallerState, HeldMachine

(* A change among open states is not visible, one to a final state is.     *)
LEMMA CallerMoves ==
    ASSUME TypeInv, NEW a \in Acqs, acqState[a] \in OpenAcq, NEW x \in AcqStates \ {"bound"},
           acqState' = [acqState EXCEPT ![a] = x], UNCHANGED <<leaseID, on>>
    PROVE  /\ UNCHANGED HeldMachine
           /\ CallerState' = IF x \in OpenAcq THEN CallerState
                             ELSE [CallerState EXCEPT ![a] = x]
           /\ CallerState[a] = "waiting"
  <1>1. \A b \in Acqs : acqState'[b] = IF b = a THEN x ELSE acqState[b]
    BY DEF TypeInv, TypeOK
  <1>2. UNCHANGED HeldMachine
    <2>1. \A b \in Acqs : acqState'[b] = "bound" <=> acqState[b] = "bound"
      BY <1>1 DEF OpenAcq
    <2> QED
      BY <2>1 DEF HeldMachine
  <1>3. CallerState[a] = "waiting"
    BY DEF CallerState
  <1>4. CASE x \in OpenAcq
    <2>1. CallerState' = CallerState
      BY <1>1, <1>4 DEF CallerState
    <2> QED
      BY <1>2, <1>3, <1>4, <2>1
  <1>5. CASE x \notin OpenAcq
    <2>1. CallerState' = [CallerState EXCEPT ![a] = x]
      <3>1. \A b \in Acqs : CallerState'[b] = IF b = a THEN x ELSE CallerState[b]
        BY <1>1, <1>5 DEF CallerState
      <3>2. DOMAIN CallerState = Acqs /\ CallerState' = [b \in Acqs |-> CallerState'[b]]
        BY DEF CallerState
      <3> HIDE DEF CallerState
      <3> QED
        BY <3>1, <3>2
    <2> QED
      BY <1>2, <1>3, <1>5, <2>1
  <1> QED
    BY <1>4, <1>5
(* The reservation is a grant: the acquisition waited, the machine is      *)
(* there, and the terms that reserve checks in its transaction are the     *)
(* promise's.                                                              *)
LEMMA ReserveGrants ==
    ASSUME TypeInv, Safe, CapacityInv, NEW a \in Acqs, NEW r \in Resources, reserve(a, r)
    PROVE  Alloc!Grant(a, r)
  <1>1. PICK l \in Leases :
          /\ leaseState[l] = "none"
          /\ on' = [on EXCEPT ![l] = r]
          /\ leaseID' = [leaseID EXCEPT ![a] = l]
    BY DEF reserve
  <1>2. /\ Live(r) /\ phase[r] \in {"ready", "allocated"} /\ acqState[a] \in OpenAcq
        /\ Exclusive(a) => Active(r) = {}
        /\ \A k \in Active(r) : ~Exclusive(holder[k])
        /\ Fits(Total, Used(r), Want(a))
        /\ \A dim \in DOMAIN Total : At(Used(r), dim) + At(Want(a), dim) <= Total[dim]
    BY Zenon DEF reserve, Reservable, Room
  <1>3. /\ acqState' = [acqState EXCEPT ![a] = "bound"] /\ request' = request
        /\ phase' = [phase EXCEPT ![r] = "allocated"] /\ deleted' = deleted
    BY Zenon DEF reserve
  <1>4. \A b \in Acqs : acqState'[b] = IF b = a THEN "bound" ELSE acqState[b]
    BY <1>3 DEF TypeInv, TypeOK
  <1>5. CallerState[a] = "waiting" /\ CallerState' = [CallerState EXCEPT ![a] = "held"]
    <2>1. CallerState[a] = "waiting"
      BY <1>2 DEF CallerState
    <2>2. \A b \in Acqs : CallerState'[b] = IF b = a THEN "held" ELSE CallerState[b]
      BY <1>4 DEF CallerState, OpenAcq
    <2>3. DOMAIN CallerState = Acqs /\ CallerState' = [b \in Acqs |-> CallerState'[b]]
      BY DEF CallerState
    <2> HIDE DEF CallerState
    <2> QED
      BY <2>1, <2>2, <2>3
  <1>6. HeldMachine' = [HeldMachine EXCEPT ![a] = r]
    <2>1. /\ leaseID'[a] = l /\ on'[l] = r
          /\ \A b \in Acqs \ {a} : leaseID'[b] = leaseID[b]
          /\ \A k \in Leases \ {l} : on'[k] = on[k]
      BY <1>1 DEF TypeInv, TypeOK
    <2>2. \A b \in Acqs : acqState[b] = "bound" => leaseID[b] \in Leases \ {l}
      BY <1>1 DEF Safe, Agree
    <2>3. \A b \in Acqs : HeldMachine'[b] = IF b = a THEN r ELSE HeldMachine[b]
      BY <1>4, <2>1, <2>2 DEF HeldMachine
    <2>4. DOMAIN HeldMachine = Acqs /\ HeldMachine' = [b \in Acqs |-> HeldMachine'[b]]
      BY DEF HeldMachine
    <2> HIDE DEF HeldMachine
    <2> QED
      BY <2>3, <2>4
  <1>7. r \in Kept /\ Kept' = Kept
    <2>1. r \in Kept
      BY <1>2 DEF Kept
    <2>2. Kept' = Kept \cup {r}
      BY <1>2, <1>3, KeptMoves DEF Live, Phases
    <2> QED
      BY <2>1, <2>2
  <1>8. Alloc!Room(a, r)
    <2>1. \A b : /\ Alloc!exclusive(request[b]) <=> Exclusive(b)
                 /\ Alloc!WantFromConstraints(request[b].constraints) = Want(b)
      BY DEF Exclusive, exclusive, Alloc!exclusive, Want, WantFromConstraints,
         Alloc!WantFromConstraints
    <2>2. \A dim : Alloc!Wanted(a, dim) = At(Want(a), dim)
      BY DEF Alloc!Wanted, Want, Alloc!At, At, Alloc!WantFromConstraints, WantFromConstraints
    <2>3. Alloc!exclusive(request[a]) => Alloc!Holders(r) = {}
      BY <1>2, <2>1, HoldersAreLeased
    <2>4. \A b \in Alloc!Holders(r) : ~Alloc!exclusive(request[b])
      BY <1>2, <2>1, HoldersAreLeased
    <2>5. \A dim \in DOMAIN Total : Alloc!Claimed(r, dim) + Alloc!Wanted(a, dim) <= Total[dim]
      BY <1>2, <2>2, ClaimedIsUsed
    <2>6. DOMAIN Want(a) \subseteq DOMAIN Total
      BY <1>2 DEF Fits
    <2> QED
      BY <2>1, <2>3, <2>4, <2>5, <2>6 DEF Alloc!Room
  <1> QED
    BY <1>3, <1>5, <1>6, <1>7, <1>8 DEF Alloc!Grant

(* The end of a lease ends the share of the acquisition that holds it.     *)
LEMMA EndLeaseEnds ==
    ASSUME TypeInv, Safe, NEW l \in Leases, NEW to \in {"released", "expired"}, endLease(l, to)
    PROVE  Alloc!End(holder[l])
  <1> DEFINE a == holder[l]
  <1>1. /\ leaseState[l] = "active" /\ a \in Acqs /\ on[l] \in Resources
        /\ acqState[a] = "bound" /\ UNCHANGED <<deleted, request, leaseID, holder, on>>
    BY DEF endLease, Safe, Agree
  <1>2. /\ acqState' = [acqState EXCEPT ![a] = to]
        /\ phase' = [phase EXCEPT ![on[l]] =
                       IF Active(on[l]) = {l} /\ @ = "allocated" THEN "ready" ELSE @]
    BY <1>1 DEF endLease, TypeInv, TypeOK
  <1> HIDE DEF a
  <1>3. \A b \in Acqs : acqState'[b] = IF b = a THEN to ELSE acqState[b]
    BY <1>1, <1>2 DEF TypeInv, TypeOK
  <1>4. CallerState[a] = "held" /\ CallerState' = [CallerState EXCEPT ![a] = to]
    <2>1. CallerState[a] = "held"
      BY <1>1 DEF CallerState, OpenAcq
    <2>2. \A b \in Acqs : CallerState'[b] = IF b = a THEN to ELSE CallerState[b]
      BY <1>3 DEF CallerState, OpenAcq
    <2>3. DOMAIN CallerState = Acqs /\ CallerState' = [b \in Acqs |-> CallerState'[b]]
      BY DEF CallerState
    <2> HIDE DEF CallerState
    <2> QED
      BY <2>1, <2>2, <2>3
  <1>5. HeldMachine' = [HeldMachine EXCEPT ![a] = Null]
    <2>1. \A b \in Acqs : HeldMachine'[b] = IF b = a THEN Null ELSE HeldMachine[b]
      BY <1>1, <1>3 DEF HeldMachine
    <2>2. DOMAIN HeldMachine = Acqs /\ HeldMachine' = [b \in Acqs |-> HeldMachine'[b]]
      BY DEF HeldMachine
    <2> HIDE DEF HeldMachine
    <2> QED
      BY <2>1, <2>2
  <1>6. Kept' = Kept
    <2>1. PICK m \in Resources : m = on[l]
      BY <1>1
    <2>2. PICK p : p = IF Active(m) = {l} /\ phase[m] = "allocated" THEN "ready" ELSE phase[m]
      OBVIOUS
    <2>3. phase' = [phase EXCEPT ![m] = p]
      BY <1>2, <2>1, <2>2
    <2>4. m \in Kept /\ m \notin deleted /\ phase[m] \in Phases
      BY <1>1, <2>1 DEF Safe, LeasedKept, Kept, Live, TypeInv, TypeOK
    <2>5. p \in Phases /\ p \notin {"parking", "deleting"}
      BY <2>2, <2>4 DEF Kept, Phases
    <2>6. Kept' = Kept \cup {m}
      BY <1>1, <2>3, <2>4, <2>5, KeptMoves
    <2> QED
      BY <2>4, <2>6
  <1>7. Alloc!End(a)
    BY <1>1, <1>4, <1>5, <1>6 DEF Alloc!End
  <1> QED
    BY <1>7 DEF a

(* A step of the promise, or one that callers do not see.                  *)
Promised == Alloc!Next \/ UNCHANGED <<CallerState, request, HeldMachine, Kept>>

(* An acquisition moves on, machines stay as they are.                     *)
LEMMA AcqPromised ==
    ASSUME TypeInv, NEW a \in Acqs,
           \/ acqState' = acqState
           \/ /\ acqState[a] \in OpenAcq
              /\ \E x \in {"pending", "provisioning", "released", "expired", "failed"} :
                    acqState' = [acqState EXCEPT ![a] = x],
           UNCHANGED <<phase, deleted, request, leaseID, on>>
    PROVE  Promised
  <1>1. UNCHANGED Kept
    BY DEF Kept, Live
  <1>2. CASE acqState' = acqState
    BY <1>1, <1>2, CallersStay DEF Promised
  <1>3. CASE acqState' # acqState
    <2>1. PICK x \in {"pending", "provisioning", "released", "expired", "failed"} :
             acqState[a] \in OpenAcq /\ acqState' = [acqState EXCEPT ![a] = x]
      BY <1>3
    <2>2. x \in AcqStates \ {"bound"}
      BY DEF AcqStates, OpenAcq
    <2>3. /\ UNCHANGED HeldMachine /\ CallerState[a] = "waiting"
          /\ CallerState' = IF x \in OpenAcq THEN CallerState ELSE [CallerState EXCEPT ![a] = x]
      BY <2>1, <2>2, CallerMoves
    <2>4. CASE x \in OpenAcq
      BY <1>1, <2>3, <2>4 DEF Promised
    <2>5. CASE x \notin OpenAcq
      <3>1. x \in {"released", "expired", "failed"}
        BY <2>5 DEF OpenAcq
      <3>2. Alloc!GiveUp(a)
        BY <1>1, <2>3, <2>5, <3>1 DEF Alloc!GiveUp
      <3> QED
        BY <3>2 DEF Promised, Alloc!Next
    <2> QED
      BY <2>4, <2>5
  <1> QED
    BY <1>2, <1>3

(* A row moves, and perhaps an acquisition between open states.            *)
LEMMA RowPromised ==
    ASSUME TypeInv, Safe, NEW r \in Resources, deleted' = deleted,
           NEW p \in Phases, phase' = [phase EXCEPT ![r] = p],
           p \in {"parking", "deleting"} => Active(r) = {},
           UNCHANGED <<CallerState, request, HeldMachine>>
    PROVE  Promised
  <1>0. CASE r \in deleted
    <2>1. Kept' = Kept
      BY <1>0 DEF TypeInv, TypeOK, Kept, Live
    <2> QED
      BY <2>1 DEF Promised
  <1>1. CASE r \notin deleted
    <2>1. Kept' = IF p \in {"parking", "deleting"} THEN Kept \ {r} ELSE Kept \cup {r}
      BY <1>1, KeptMoves
    <2>2. CASE p \in {"parking", "deleting"}
      <3>1. Alloc!Holders(r) = {}
        BY <2>2, HoldersAreLeased
      <3>2. Alloc!Leave(r)
        BY <2>1, <2>2, <3>1 DEF Alloc!Leave
      <3> QED
        BY <3>2 DEF Promised, Alloc!Next
    <2>3. CASE p \notin {"parking", "deleting"}
      <3>1. Alloc!Arrive(r)
        BY <2>1, <2>3 DEF Alloc!Arrive
      <3> QED
        BY <3>1 DEF Promised, Alloc!Next
    <2> QED
      BY <2>2, <2>3
  <1> QED
    BY <1>0, <1>1

(* A row that nobody holds is buried.                                      *)
LEMMA BurialPromised ==
    ASSUME TypeInv, Safe, NEW r \in Resources, Active(r) = {}, deleted' = deleted \cup {r},
           UNCHANGED <<phase, acqVars, leaseVars>>
    PROVE  Promised
  <1>1. Kept' = Kept \ {r} /\ Alloc!Holders(r) = {}
    BY KeptBuries, HoldersAreLeased
  <1>2. UNCHANGED <<CallerState, request, HeldMachine>>
    BY CallersStay DEF acqVars, leaseVars
  <1>3. Alloc!Leave(r)
    BY <1>1, <1>2 DEF Alloc!Leave
  <1> QED
    BY <1>3 DEF Promised, Alloc!Next

(* What the sweeper and the callback do with a settled row.                *)
LEMMA ResolvePromised ==
    ASSUME TypeInv, Safe, CapacityInv, NEW a \in Acqs, NEW r \in Resources, NEW v,
           Resolve(a, r, v)
    PROVE  Promised
  <1>1. CASE reserve(a, r)
    BY <1>1, ReserveGrants DEF Promised, Alloc!Next
  <1>2. CASE UNCHANGED <<rowVars, acqVars, leaseVars>>
    BY <1>2, AcqPromised DEF rowVars, acqVars, leaseVars
  <1>3. CASE FailPending(a) \/ rePend(a)
    <2>1. UNCHANGED <<phase, deleted, request, leaseID, on>>
      BY <1>3 DEF FailPending, rePend, rowVars, leaseVars
    <2>2. \/ acqState' = acqState
          \/ /\ acqState[a] = "provisioning"
             /\ \E x \in {"pending", "failed"} : acqState' = [acqState EXCEPT ![a] = x]
      BY <1>3 DEF FailPending, rePend, TypeInv, TypeOK
    <2> QED
      BY <2>1, <2>2, AcqPromised DEF OpenAcq
  <1> QED
    BY <1>1, <1>2, <1>3 DEF Resolve, BindPending

(* The steps of Satisfy.                                                   *)
LEMMA ProgressPromised ==
    ASSUME TypeInv, Safe, CapacityInv, NEW w \in Workers, Progress(w)
    PROVE  Promised
  <1> USE DEF TypeInv, Stands, rowVars, acqVars, leaseVars
  <1>1. work[w].acq \in Acqs /\ work[w].rows \subseteq Resources
    BY DEF TypeOK, WorkInv, Progress, Satisfy, ReserveCandidate, CandidateLost, ListParked,
       startParked, StartLost, Queue, scaleOnDemand, ScaleFails, NoCapacity
  <1>2. CASE ReserveCandidate(w)
    BY <1>1, <1>2, ReserveGrants DEF ReserveCandidate, Promised, Alloc!Next
  <1>3. CASE \/ Satisfy(w) \/ CandidateLost(w) \/ ListParked(w) \/ StartLost(w) \/ Queue(w)
             \/ ScaleFails(w)
    <2>1. UNCHANGED <<rowVars, acqVars, leaseVars>>
      BY <1>3, Zenon DEF Satisfy, CandidateLost, ListParked, StartLost, Queue, ScaleFails
    <2> QED
      BY <1>1, <2>1, AcqPromised
  <1>4. CASE NoCapacity(w)
    <2>1. UNCHANGED <<phase, deleted, request, leaseID, on>>
      BY <1>4 DEF NoCapacity
    <2>2. \/ acqState' = acqState
          \/ /\ acqState[work[w].acq] = "pending"
             /\ acqState' = [acqState EXCEPT ![work[w].acq] = "failed"]
      BY <1>1, <1>4 DEF NoCapacity, TypeOK
    <2> QED
      BY <1>1, <2>1, <2>2, AcqPromised DEF OpenAcq
  <1>5. CASE startParked(w) \/ scaleOnDemand(w)
    <2> DEFINE a == work[w].acq
    <2>1. PICK r \in Resources, p \in {"starting", "provisioning"} :
             phase' = [phase EXCEPT ![r] = p]
      BY <1>1, <1>5 DEF startParked, scaleOnDemand
    <2>2. /\ acqState[a] = "pending" /\ acqState' = [acqState EXCEPT ![a] = "provisioning"]
          /\ UNCHANGED <<deleted, request, leaseID, on>>
      BY <1>5 DEF startParked, scaleOnDemand, AcqTransition
    <2>3. UNCHANGED <<CallerState, HeldMachine>>
      <3>1. acqState[a] \in OpenAcq /\ "provisioning" \in OpenAcq
            /\ "provisioning" \in AcqStates \ {"bound"}
        BY <2>2 DEF OpenAcq, AcqStates
      <3> HIDE DEF a
      <3> QED
        BY <1>1, <2>2, <3>1, CallerMoves DEF a
    <2>4. p \in Phases /\ p \notin {"parking", "deleting"}
      BY DEF Phases
    <2> QED
      BY <2>1, <2>2, <2>3, <2>4, RowPromised
  <1> QED
    BY <1>2, <1>3, <1>4, <1>5, Zenon DEF Progress

(* Every step of the scheduler.                                            *)
LEMMA SchedulerPromised ==
    ASSUME TypeInv, Safe, CapacityInv, Scheduler
    PROVE  Promised
  <1> USE SweeperType DEF TypeInv, Stands, rowVars, acqVars, leaseVars
  <1>1. ASSUME NEW a \in Acqs, NEW q \in Requests, Acquire(a, q) PROVE Promised
    <2>1. acqState[a] = "none" /\ acqState' = [acqState EXCEPT ![a] = "pending"]
          /\ request' = [request EXCEPT ![a] = q]
          /\ UNCHANGED <<phase, deleted, leaseID, on>>
      BY <1>1, Zenon DEF Acquire
    <2>2. \A b \in Acqs : acqState'[b] = IF b = a THEN "pending" ELSE acqState[b]
      BY <2>1 DEF TypeOK
    <2>3. CallerState[a] = "none" /\ CallerState' = [CallerState EXCEPT ![a] = "waiting"]
      <3>1. CallerState[a] = "none"
        BY <2>1 DEF CallerState, OpenAcq
      <3>2. \A b \in Acqs : CallerState'[b] = IF b = a THEN "waiting" ELSE CallerState[b]
        BY <2>2 DEF CallerState, OpenAcq
      <3>3. DOMAIN CallerState = Acqs /\ CallerState' = [b \in Acqs |-> CallerState'[b]]
        BY DEF CallerState
      <3> HIDE DEF CallerState
      <3> QED
        BY <3>1, <3>2, <3>3
    <2>4. UNCHANGED <<HeldMachine, Kept>>
      BY <2>1, <2>2 DEF HeldMachine, Kept, Live
    <2>5. Alloc!Ask(a, q)
      BY <2>1, <2>3, <2>4 DEF Alloc!Ask
    <2> QED
      BY <2>5 DEF Promised, Alloc!Next
  <1>2. CASE Settle
    BY <1>2, ResolvePromised DEF Settle, WorkInv
  <1>3. ASSUME NEW a \in Acqs, resolvePending(a) PROVE Promised
    BY <1>3, ResolvePromised DEF resolvePending, WorkInv
  <1>4. CASE ExpirePending \/ ExpireProvisioning
    <2>1. work[Sweeper].acq \in Acqs
      BY <1>4 DEF ExpirePending, ExpireProvisioning, WorkInv
    <2>2. UNCHANGED <<phase, deleted, request, leaseID, on>>
      BY <1>4 DEF ExpirePending, ExpireProvisioning
    <2>3. \/ acqState' = acqState
          \/ /\ acqState[work[Sweeper].acq] \in OpenAcq
             /\ acqState' = [acqState EXCEPT ![work[Sweeper].acq] = "expired"]
      BY <1>4, <2>1 DEF ExpirePending, ExpireProvisioning, AcqTransition, OpenAcq, TypeOK
    <2> QED
      BY <2>1, <2>2, <2>3, AcqPromised
  <1>5. CASE \/ NotExpired \/ ReadRow \/ HandleOpTerminal \/ CallbackDone
             \/ \E a \in Acqs : Resume(a)
    <2>1. UNCHANGED <<rowVars, acqVars, leaseVars>>
      BY <1>5, Zenon DEF NotExpired, ReadRow, HandleOpTerminal, CallbackDone, Resume
    <2> QED
      BY <2>1, CallersStay DEF Promised, Kept, Live
  <1> QED
    BY <1>1, <1>2, <1>3, <1>4, <1>5, ProgressPromised, Zenon DEF Scheduler

(* Every step of somebody else on a row.                                   *)
LEMMA RowStepsPromised ==
    ASSUME TypeInv, Safe, RowSteps
    PROVE  Promised
  <1> PICK r \in Resources :
         \/ CreateRow(r) \/ mintRecord(r) \/ Park(r) \/ StartRow(r) \/ Delete(r) \/ Tombstone(r)
         \/ Drain(r) \/ Undrain(r) \/ Orphan(r) \/ Reappear(r)
         \/ TombstoneOrphan(r) \/ OpSucceeds(r) \/ OpFails(r)
    BY Zenon DEF RowSteps
  <1>1. ASSUME NEW p \in Phases, phase' = [phase EXCEPT ![r] = p], deleted' = deleted,
               p \in {"parking", "deleting"} => Active(r) = {},
               UNCHANGED <<acqVars, leaseVars>>
        PROVE  Promised
    <2>1. UNCHANGED <<CallerState, request, HeldMachine>>
      BY <1>1, CallersStay DEF acqVars, leaseVars
    <2> QED
      BY <1>1, <2>1, RowPromised
  <1>2. CASE CreateRow(r) \/ mintRecord(r)
    BY <1>1, <1>2 DEF CreateRow, mintRecord, Phases
  <1>3. CASE Park(r) \/ StartRow(r) \/ Delete(r) \/ Drain(r) \/ Undrain(r) \/ Orphan(r)
             \/ Reappear(r)
    BY <1>1, <1>3 DEF Park, StartRow, Delete, Drain, Undrain, Orphan, Reappear, Row, Phases
  <1>4. CASE Tombstone(r) \/ TombstoneOrphan(r)
    BY <1>4, BurialPromised DEF Tombstone, TombstoneOrphan
  <1>5. CASE OpSucceeds(r) \/ OpFails(r)
    <2>1. CASE \E from, p : p \in Phases \ {"parking", "deleting"} /\ Row(r, from, p)
                            /\ deleted' = deleted
      BY <1>1, <2>1 DEF Row
    <2>2. CASE /\ Live(r) /\ phase[r] = "deleting" /\ deleted' = deleted \cup {r}
               /\ UNCHANGED <<phase, acqVars, leaseVars>>
      <3>1. Active(r) = {}
        BY <2>2 DEF Safe, LeasedKept, Active
      <3> QED
        BY <2>2, <3>1, BurialPromised
    <2>3. \A p \in {"ready", "parked", "failed"} : p \in Phases \ {"parking", "deleting"}
      BY DEF Phases
    <2> QED
      BY <1>5, <2>1, <2>2, <2>3, Zenon DEF OpSucceeds, OpFails, Ends
  <1> QED
    BY <1>2, <1>3, <1>4, <1>5

(* Every step is one of the promise, or callers do not see it.             *)
LEMMA NextPromised ==
    ASSUME TypeInv, Safe, CapacityInv, [Next]_vars
    PROVE  Promised
  <1>1. CASE Scheduler
    BY <1>1, SchedulerPromised
  <1>2. CASE LeaseManager
    <2>1. ASSUME NEW l \in Leases, NEW to \in {"released", "expired"}, endLease(l, to)
          PROVE  Promised
      <3>1. holder[l] \in Acqs
        BY <2>1 DEF endLease, Safe, Agree
      <3> QED
        BY <2>1, <3>1, EndLeaseEnds DEF Promised, Alloc!Next
    <2>2. ASSUME NEW a \in Acqs, Release(a) PROVE Promised
      BY <2>1, <2>2 DEF Release, Safe, Agree
    <2>3. ASSUME NEW a \in Acqs, Withdraw(a) PROVE Promised
      BY <2>3, AcqPromised DEF Withdraw, rowVars, leaseVars
    <2> QED
      BY <1>2, <2>1, <2>2, <2>3 DEF LeaseManager, SweepExpired
  <1>3. CASE RowSteps
    BY <1>3, RowStepsPromised
  <1>4. CASE Crash \/ UNCHANGED vars
    <2>1. UNCHANGED <<rowVars, acqVars, leaseVars>>
      BY <1>4, Zenon DEF Crash, vars
    <2> QED
      BY <2>1, CallersStay DEF Promised, Kept, Live, rowVars, acqVars, leaseVars
  <1> QED
    BY <1>1, <1>2, <1>3, <1>4, Zenon DEF Next

(* The scheduler, the lease manager and everybody who works on their rows  *)
(* keep the promise to callers: Acquisitions implements Allocation, for    *)
(* any machines, callers, requests and capacities, and through crashes.    *)
THEOREM PromiseIsKept == Spec => SharesAreGranted
  <1>1. Init => Alloc!Init
    <2> SUFFICES ASSUME Init PROVE Alloc!Init
      OBVIOUS
    <2>1. CallerState = [a \in Acqs |-> "none"] /\ HeldMachine = [a \in Acqs |-> Null]
      BY DEF Init, CallerState, HeldMachine, OpenAcq
    <2>2. Kept = {} /\ request = [a \in Acqs |-> Null]
      BY DEF Init, Kept, Live
    <2> QED
      BY <2>1, <2>2 DEF Alloc!Init
  <1>2. TypeInv /\ Safe /\ CapacityInv /\ [Next]_vars
          => [Alloc!Next]_<<CallerState, request, HeldMachine, Kept>>
    BY NextPromised DEF Promised
  <1>3. Spec => []CapacityInv
    BY SafeInvariant, InitCapacity, NextCapacity, PTL DEF Spec
  <1> QED
    BY <1>1, <1>2, <1>3, SafeInvariant, PTL DEF Spec, SharesAreGranted, Alloc!Spec, Alloc!vars
=============================================================================
