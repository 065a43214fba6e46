--------------------------- MODULE DiscoveryProofs ---------------------------
(***************************************************************************)
(* Proofs about Discovery for any sets of machines and rows, any policies  *)
(* and any number of creates and events.                                   *)
(***************************************************************************)
EXTENDS Discovery, TLAPS

PhaseValues == Phases \cup {"none", "gone"}

RowRecs == [phase : PhaseValues, ext : Machines \cup {None}, managed : BOOLEAN]

Sweeps == [pc : {"idle", "rows", "ops", "observed", "drain ghost", "delete ghost",
                 "absent", "confirm"},
           list : [Machines -> {"running", "stopped", "unseen"}],
           rows : [Rows -> RowRecs],
           open : SUBSET Rows,
           graced : SUBSET Rows,
           todo : SUBSET (Machines \cup Rows),
           at : Rows \cup {None}]

TypeInv ==
    /\ machine \in [Machines -> {"absent", "running", "stopped", "gone"}]
    /\ origin \in [Machines -> Rows \cup {"none", "foreign", "lost"}]
    /\ young \subseteq Machines
    /\ row \in [Rows -> RowRecs]
    /\ create \in [Rows -> {"none", "open", "succeeded", "failed"}]
    /\ leased \subseteq Rows
    /\ graced \subseteq Rows
    /\ fails \in Nat
    /\ events \in Nat
    /\ sweep \in Sweeps
    /\ sweep.pc \in {"observed", "drain ghost", "delete ghost"} => sweep.todo \subseteq Machines
    /\ sweep.pc \in {"absent", "confirm"} => sweep.todo \subseteq Rows
    /\ sweep.pc \in {"drain ghost", "delete ghost", "confirm"} => sweep.at \in Rows

(* What the sweep has read stays true of the rows it read as live: their   *)
(* ids are not used again and their machines do not change; and what it    *)
(* has confirmed to be gone stays gone.                                    *)
ReadInv ==
    /\ \A r \in Rows : Live(sweep.rows[r]) /\ sweep.rows[r].ext # None =>
          row[r].ext = sweep.rows[r].ext
    /\ \A m \in Machines : sweep.list[m] # "unseen" => machine[m] # "absent"
    /\ sweep.pc \in {"observed", "drain ghost", "delete ghost"} =>
          \A m \in sweep.todo : sweep.list[m] # "unseen"
    /\ sweep.pc \in {"absent", "confirm"} =>
          \A r \in sweep.todo : Live(sweep.rows[r]) /\ sweep.rows[r].ext # None
    /\ sweep.pc = "confirm" =>
          /\ Live(sweep.rows[sweep.at]) /\ sweep.rows[sweep.at].ext # None
          /\ machine[sweep.rows[sweep.at].ext] = "gone"

(* A row points at a machine that was once there; an orphan has one, and a *)
(* row of a foreign machine is observed, not managed.                      *)
RowInv ==
    /\ \A m \in Machines : origin[m] \in Rows => machine[m] # "absent"
    /\ \A r \in Rows : row[r].ext # None => machine[row[r].ext] # "absent"
    /\ \A r \in Rows : row[r].phase = "orphaned" => row[r].ext # None
    /\ \A r \in Rows : row[r].ext # None /\ origin[row[r].ext] = "foreign" =>
          row[r].managed = FALSE /\ row[r].phase # "deleting"

DiscoveryInv == TypeInv /\ ReadInv /\ RowInv /\ OneLiveRowPerMachine

(* The phases that the model writes are phases, and an unused id has no    *)
(* row.                                                                    *)
LEMMA PhaseNames ==
    /\ {"none", "gone", "provisioning", "ready", "allocated", "draining", "deleting", "failed",
        "orphaned", "parked"} \subseteq PhaseValues
    /\ NoRow \in RowRecs /\ ~Live(NoRow) /\ NoRow.ext = None
  BY DEF PhaseValues, Phases, NoRow, RowRecs, Live

(* An idle sweep has read nothing.                                         *)
LEMMA IdleType ==
    /\ Idle \in Sweeps /\ Idle.pc = "idle"
    /\ \A r \in Rows : ~Live(Idle.rows[r])
    /\ \A m \in Machines : Idle.list[m] = "unseen"
  BY PhaseNames DEF Idle, Sweeps, Live

(* A minted row takes an id that is not in use. *)
LEMMA FreshUnused == CanMint => Fresh \in Rows /\ Unused(Fresh)
  BY DEF CanMint, Fresh

-----------------------------------------------------------------------------
(* What a transaction does to the rows, field by field. *)

Others(r) == row' \in [Rows -> RowRecs] /\ \A q \in Rows : q # r => row'[q] = row[q]

WritesPhase(r, p) ==
    /\ Others(r)
    /\ row'[r].phase = p /\ row'[r].ext = row[r].ext /\ row'[r].managed = row[r].managed

WritesExt(r, m) ==
    /\ Others(r)
    /\ row'[r].phase = row[r].phase /\ row'[r].ext = m /\ row'[r].managed = row[r].managed

WritesRow(r, p, m) == Others(r) /\ row'[r].phase = p /\ row'[r].ext = m

(* A phase update writes the phase of one row and nothing else.            *)
LEMMA PhaseWrite ==
    ASSUME TypeInv, NEW r \in Rows, NEW p \in PhaseValues, row' = [row EXCEPT ![r].phase = p]
    PROVE  WritesPhase(r, p)
  BY DEF TypeInv, RowRecs, WritesPhase, Others

(* Binding writes the external id of one row and nothing else.             *)
LEMMA ExtWrite ==
    ASSUME TypeInv, NEW r \in Rows, NEW m \in Machines, row' = [row EXCEPT ![r].ext = m]
    PROVE  WritesExt(r, m)
  BY DEF TypeInv, RowRecs, WritesExt, Others

(* An insert writes one row.                                               *)
LEMMA RowWrite ==
    ASSUME TypeInv, NEW r \in Rows, NEW p \in PhaseValues, NEW m \in Machines \cup {None},
           NEW b \in BOOLEAN, row' = [row EXCEPT ![r] = [phase |-> p, ext |-> m, managed |-> b]]
    PROVE  WritesRow(r, p, m) /\ row'[r].managed = b
  BY DEF TypeInv, RowRecs, WritesRow, Others

(* A CAS misses, or moves one row on from the phase it names.              *)
LEMMA CASWrite ==
    ASSUME TypeInv, NEW r \in Rows, NEW from, NEW to \in PhaseValues, CASPhase(r, from, to)
    PROVE  UNCHANGED row \/ (row[r].phase = from /\ WritesPhase(r, to))
  BY PhaseWrite DEF CASPhase

(* mintRecord inserts a ready or parked row, managed only if the machine   *)
(* is ours.                                                                *)
LEMMA MintWrite ==
    ASSUME TypeInv, NEW m \in Machines, CanMint, MintRecord(Fresh, m, Owned(m))
    PROVE  /\ \E p \in {"ready", "parked"} : WritesRow(Fresh, p, m)
           /\ origin[m] = "foreign" => row'[Fresh].managed = FALSE
  <1>1. PICK p \in {"ready", "parked"} :
          row' = [row EXCEPT ![Fresh] = [phase |-> p, ext |-> m, managed |-> Owned(m)]]
    BY Zenon DEF MintRecord
  <1>2. Fresh \in Rows /\ p \in PhaseValues /\ Owned(m) \in BOOLEAN
    BY FreshUnused, PhaseNames DEF Owned
  <1>3. WritesRow(Fresh, p, m) /\ row'[Fresh].managed = Owned(m)
    BY <1>1, <1>2, RowWrite
  <1> QED
    BY <1>3, Zenon DEF Owned

(* The transactions of the sweep. *)
DrainStep ==
    \/ UNCHANGED row
    \/ row[sweep.at].phase = "ready" /\ WritesPhase(sweep.at, "draining")

DeleteStep(r) == UNCHANGED row \/ (DeleteGates(r) /\ WritesPhase(r, "deleting"))

ReviveStep(r) ==
    \/ UNCHANGED row
    \/ row[r].phase = "orphaned" /\ (WritesPhase(r, "ready") \/ WritesPhase(r, "parked"))

MintStep(m) ==
    \/ UNCHANGED row
    \/ /\ ~ExternalIdTaken(m) /\ Fresh \in Rows /\ Unused(Fresh)
       /\ \E p \in {"ready", "parked"} : WritesRow(Fresh, p, m)
       /\ origin[m] = "foreign" => row'[Fresh].managed = FALSE

ConfirmStep(r) ==
    \/ UNCHANGED row
    \/ /\ sweep.rows[r].phase = "orphaned" /\ r \notin leased /\ Live(row[r])
       /\ WritesPhase(r, "gone")
    \/ /\ row[r].phase = sweep.rows[r].phase /\ row[r].phase # "orphaned"
       /\ WritesPhase(r, "orphaned")

(* Each transaction of the sweep is one of the row steps above.            *)
LEMMA SweepEffects ==
    ASSUME TypeInv
    PROVE  /\ DrainGhost => DrainStep
           /\ DeleteGhost => DeleteStep(sweep.at)
           /\ \A m \in Machines : RefreshObserved(m) => \E r \in Rows : ReviveStep(r)
           /\ \A m \in Machines : Adopt(m) \/ HandleGhost(m) => MintStep(m)
           /\ Confirm => ConfirmStep(sweep.at)
  <1> USE PhaseNames
  <1>1. ASSUME DrainGhost PROVE DrainStep
    <2>1. sweep.at \in Rows /\ CASPhase(sweep.at, "ready", "draining")
      BY <1>1 DEF DrainGhost, TypeInv
    <2> QED
      BY <2>1, CASWrite DEF DrainStep
  <1>2. ASSUME DeleteGhost PROVE DeleteStep(sweep.at)
    <2>1. sweep.at \in Rows
      BY <1>2 DEF DeleteGhost, TypeInv
    <2> QED
      BY <1>2, <2>1, PhaseWrite DEF DeleteGhost, DeleteStep
  <1>3. ASSUME NEW m \in Machines, RefreshObserved(m) PROVE \E r \in Rows : ReviveStep(r)
    <2>1. PICK r \in Rows : \/ CASPhase(r, "orphaned", "ready")
                            \/ CASPhase(r, "orphaned", "parked")
                            \/ UNCHANGED row
      BY <1>3 DEF RefreshObserved, Matched
    <2> QED
      BY <2>1, CASWrite DEF ReviveStep
  <1>4. ASSUME NEW m \in Machines, Adopt(m) \/ HandleGhost(m) PROVE MintStep(m)
    <2>1. UNCHANGED row \/ (~ExternalIdTaken(m) /\ CanMint /\ MintRecord(Fresh, m, Owned(m)))
      BY <1>4 DEF Adopt, HandleGhost, Owned
    <2> QED
      BY <2>1, FreshUnused, MintWrite DEF MintStep
  <1>5. ASSUME Confirm PROVE ConfirmStep(sweep.at)
    <2>1. sweep.at \in Rows /\ ConfirmOrphan(sweep.at)
      BY <1>5 DEF Confirm, TypeInv
    <2>2. \/ UNCHANGED row
          \/ /\ sweep.rows[sweep.at].phase = "orphaned" /\ sweep.at \notin leased
             /\ Live(row[sweep.at]) /\ row' = [row EXCEPT ![sweep.at].phase = "gone"]
          \/ /\ sweep.rows[sweep.at].phase # "orphaned"
             /\ CASPhase(sweep.at, sweep.rows[sweep.at].phase, "orphaned")
      BY <2>1 DEF ConfirmOrphan
    <2> QED
      BY <2>1, <2>2, PhaseWrite, CASWrite DEF ConfirmStep
  <1> QED
    BY <1>1, <1>2, <1>3, <1>4, <1>5

(* The transactions of callers and operations. *)
RequestStep(r) ==
    \/ Unused(r) /\ WritesRow(r, "provisioning", None)
    \/ DeleteGates(r) /\ row[r].ext = None /\ WritesPhase(r, "gone")
    \/ DeleteGates(r) /\ row[r].ext # None /\ WritesPhase(r, "deleting")
    \/ row[r].phase = "ready" /\ WritesPhase(r, "allocated")

OperationStep(r) ==
    \/ UNCHANGED row
    \/ \E m \in Machines : /\ origin[m] = r /\ row[r].phase = "provisioning"
                           /\ row[r].ext = None /\ ~ExternalIdTaken(m) /\ WritesExt(r, m)
    \/ row[r].phase = "provisioning" /\ (WritesPhase(r, "ready") \/ WritesPhase(r, "failed"))
    \/ row[r].phase = "deleting" /\ WritesPhase(r, "gone")
    \/ row[r].phase = "allocated" /\ WritesPhase(r, "ready")

(* The handlers' transactions: insert, delete behind its gates, lease.     *)
LEMMA RequestEffects ==
    ASSUME TypeInv, NEW r \in Rows, JournalCreate(r) \/ DeleteResource(r) \/ BindLease(r)
    PROVE  RequestStep(r)
  <1> USE PhaseNames
  <1>1. CASE JournalCreate(r)
    <2>1. row' = [row EXCEPT ![r] = [phase |-> "provisioning", ext |-> None, managed |-> TRUE]]
      BY <1>1 DEF JournalCreate
    <2> QED
      BY <1>1, <2>1, RowWrite DEF JournalCreate, RequestStep
  <1>2. CASE DeleteResource(r)
    BY <1>2, PhaseWrite DEF DeleteResource, RequestStep
  <1>3. CASE BindLease(r)
    BY <1>3, PhaseWrite DEF BindLease, RequestStep
  <1> QED
    BY <1>1, <1>2, <1>3

(* The engine's transactions, as seen by the rows.                         *)
LEMMA OperationEffects ==
    ASSUME TypeInv, NEW r \in Rows,
           \/ EndCreate(r) \/ Terminate(r) \/ EndDelete(r) \/ EndLease(r) \/ GraceEnds(r)
           \/ \E m \in Machines : Launch(r, m) \/ Bound(r, m)
    PROVE  OperationStep(r)
  <1> USE PhaseNames
  <1>1. CASE EndCreate(r)
    BY <1>1, PhaseWrite DEF EndCreate, OperationStep
  <1>2. CASE EndDelete(r)
    BY <1>2, PhaseWrite DEF EndDelete, OperationStep
  <1>3. CASE EndLease(r)
    BY <1>3, CASWrite DEF EndLease, OperationStep
  <1>4. ASSUME NEW m \in Machines, Bound(r, m) PROVE OperationStep(r)
    BY <1>4, ExtWrite DEF Bound, OperationStep
  <1>5. CASE Terminate(r) \/ GraceEnds(r) \/ \E m \in Machines : Launch(r, m)
    BY <1>5 DEF Terminate, GraceEnds, Launch, rowVars, OperationStep
  <1> QED
    BY <1>1, <1>2, <1>3, <1>4, <1>5

-----------------------------------------------------------------------------
(* What the actions do to everything else. *)

(* Outages, crashes and out-of-band changes leave the rows alone.          *)
LEMMA MeddleFrame ==
    ASSUME Meddle
    PROVE  /\ UNCHANGED <<origin, young, row, create, leased, graced>>
           /\ events' = events + 1 /\ fails' \in {0, fails}
           /\ UNCHANGED sweep \/ sweep' = Idle
           /\ \/ UNCHANGED machine
              \/ \E m \in Machines, to \in {"running", "stopped", "gone"} :
                    Exists(m) /\ machine' = [machine EXCEPT ![m] = to]
  BY Zenon DEF Meddle, Event, provVars, rowVars

(* Handlers leave the cloud alone.                                         *)
LEMMA RequestFrame ==
    ASSUME NEW r \in Rows, JournalCreate(r) \/ DeleteResource(r) \/ BindLease(r)
    PROVE  /\ UNCHANGED <<graced, machine, origin, young>>
           /\ events' \in {events, events + 1}
           /\ leased' \in {leased, leased \cup {r}}
           /\ create' \in {create, [create EXCEPT ![r] = "open"]}
  <1>1. CASE JournalCreate(r)
    BY <1>1, Zenon DEF JournalCreate, provVars
  <1>2. CASE DeleteResource(r)
    BY <1>2, Zenon DEF DeleteResource, Event, provVars
  <1>3. CASE BindLease(r)
    BY <1>3, Zenon DEF BindLease, Event, provVars
  <1> QED
    BY <1>1, <1>2, <1>3

(* The engine launches or terminates at most one machine, and never both   *)
(* writes a row and launches.                                              *)
LEMMA OperationFrame ==
    ASSUME NEW r \in Rows,
           \/ EndCreate(r) \/ Terminate(r) \/ EndDelete(r) \/ EndLease(r) \/ GraceEnds(r)
           \/ \E m \in Machines : Launch(r, m) \/ Bound(r, m)
    PROVE  /\ leased' \in {leased, leased \ {r}}
           /\ graced' \in {graced, graced \ {r}, graced \cup {r}}
           /\ create' \in {create, [create EXCEPT ![r] = "succeeded"],
                           [create EXCEPT ![r] = "failed"]}
           /\ \/ UNCHANGED <<machine, origin, young>>
              \/ /\ UNCHANGED <<origin, young>> /\ Exists(row[r].ext)
                 /\ machine' = [machine EXCEPT ![row[r].ext] = "gone"]
              \/ /\ UNCHANGED row
                 /\ \E m \in Machines :
                       /\ machine[m] = "absent" /\ machine' = [machine EXCEPT ![m] = "running"]
                       /\ origin' = [origin EXCEPT ![m] = r] /\ young' = young \cup {m}
  <1> USE DEF provVars, rowVars
  <1>1. CASE EndCreate(r)
    BY <1>1, Zenon DEF EndCreate
  <1>2. CASE Terminate(r)
    BY <1>2, Zenon DEF Terminate
  <1>3. CASE EndDelete(r)
    BY <1>3, Zenon DEF EndDelete
  <1>4. CASE EndLease(r)
    BY <1>4, Zenon DEF EndLease
  <1>5. CASE GraceEnds(r)
    BY <1>5, Zenon DEF GraceEnds
  <1>6. ASSUME NEW m \in Machines, Launch(r, m) \/ Bound(r, m) PROVE
          /\ UNCHANGED <<leased, graced, create>>
          /\ \/ UNCHANGED <<machine, origin, young>>
             \/ /\ UNCHANGED row
                /\ \E n \in Machines :
                      /\ machine[n] = "absent" /\ machine' = [machine EXCEPT ![n] = "running"]
                      /\ origin' = [origin EXCEPT ![n] = r] /\ young' = young \cup {n}
    BY <1>6, Zenon DEF Launch, Bound
  <1> QED
    BY <1>1, <1>2, <1>3, <1>4, <1>5, <1>6

-----------------------------------------------------------------------------
(* Types *)

(* The sweep keeps the types.                                              *)
LEMMA SweepType ==
    ASSUME TypeInv, SweepKind
    PROVE  TypeInv'
  <1> USE PhaseNames, IdleType DEF TypeInv, Sweeps, provVars, rowVars
  <1>1. ASSUME Discover PROVE TypeInv'
    <2>1. PICK list \in [Machines -> {"running", "stopped", "unseen"}] :
             sweep' = [sweep EXCEPT !.pc = "rows", !.list = list]
      BY <1>1, Zenon DEF Discover, Exists
    <2> QED
      BY <1>1, <2>1 DEF Discover
  <1>2. ASSUME ListRows PROVE TypeInv'
    BY <1>2 DEF ListRows
  <1>3. ASSUME ListOps PROVE TypeInv'
    BY <1>3 DEF ListOps, OpenOps
  <1>4. ASSUME DrainGhost PROVE TypeInv'
    <2>1. row' \in [Rows -> RowRecs]
      BY <1>4, SweepEffects DEF DrainStep, WritesPhase, Others
    <2>2. \/ sweep' = [sweep EXCEPT !.pc = "delete ghost"]
          \/ sweep' = [sweep EXCEPT !.pc = "observed", !.at = None]
      BY <1>4, Zenon DEF DrainGhost
    <2> QED
      BY <1>4, <2>1, <2>2 DEF DrainGhost
  <1>5. ASSUME DeleteGhost PROVE TypeInv'
    <2>1. row' \in [Rows -> RowRecs]
      BY <1>5, SweepEffects DEF DeleteStep, WritesPhase, Others
    <2> QED
      BY <1>5, <2>1 DEF DeleteGhost
  <1>6. ASSUME CheckHealthy PROVE TypeInv'
    BY <1>6 DEF CheckHealthy
  <1>7. ASSUME Confirm PROVE TypeInv'
    <2>1. row' \in [Rows -> RowRecs]
      BY <1>7, SweepEffects DEF ConfirmStep, WritesPhase, Others
    <2> QED
      BY <1>7, <2>1 DEF Confirm
  <1>8. ASSUME EndSweep PROVE TypeInv'
    BY <1>8 DEF EndSweep
  <1>9. ASSUME NEW m \in Machines, RefreshObserved(m) PROVE TypeInv'
    <2>1. row' \in [Rows -> RowRecs]
      BY <1>9, SweepEffects DEF ReviveStep, WritesPhase, Others
    <2> QED
      BY <1>9, <2>1 DEF RefreshObserved, Next_
  <1>10. ASSUME NEW m \in Machines, LeaveToVerifier(m) PROVE TypeInv'
    BY <1>10 DEF LeaveToVerifier, Next_
  <1>11. ASSUME NEW m \in Machines, Adopt(m) PROVE TypeInv'
    <2>1. row' \in [Rows -> RowRecs]
      BY <1>11, SweepEffects DEF MintStep, WritesRow, Others
    <2> QED
      BY <1>11, <2>1 DEF Adopt, Next_
  <1>12. ASSUME NEW m \in Machines, HandleGhost(m) PROVE TypeInv'
    <2>1. row' \in [Rows -> RowRecs]
      BY <1>12, SweepEffects DEF MintStep, WritesRow, Others
    <2>2. \/ sweep' = [sweep EXCEPT !.todo = @ \ {m}]
          \/ /\ sweep' = [sweep EXCEPT !.todo = @ \ {m}, !.pc = "drain ghost", !.at = Fresh]
             /\ Fresh \in Rows
      BY <1>12, FreshUnused DEF HandleGhost, Next_
    <2>3. sweep.pc = "observed" /\ UNCHANGED <<machine, origin, young, create, leased, graced, fails, events>>
      BY <1>12, Zenon DEF HandleGhost, Observing
    <2>4. CASE sweep' = [sweep EXCEPT !.todo = @ \ {m}]
      BY <2>1, <2>3, <2>4
    <2>5. CASE /\ sweep' = [sweep EXCEPT !.todo = @ \ {m}, !.pc = "drain ghost", !.at = Fresh]
               /\ Fresh \in Rows
      BY <2>1, <2>3, <2>5
    <2> QED
      BY <2>2, <2>4, <2>5
  <1>13. ASSUME NEW r \in Rows, Get(r) PROVE TypeInv'
    BY <1>13 DEF Get
  <1> QED
    BY <1>1, <1>2, <1>3, <1>4, <1>5, <1>6, <1>7, <1>8, <1>9, <1>10, <1>11, <1>12, <1>13
       DEF SweepKind

(* Every step keeps the types.                                             *)
LEMMA NextType == TypeInv /\ [Next]_vars => TypeInv'
  <1> SUFFICES ASSUME TypeInv, [Next]_vars PROVE TypeInv'
    OBVIOUS
  <1>c. fails \in Nat /\ events \in Nat
    BY Zenon DEF TypeInv
  <1>1. CASE CheckHealth
    <2>1. fails' \in {0, fails, fails + 1}
      BY <1>1, Zenon DEF CheckHealth
    <2> QED
      <3>1. UNCHANGED <<provVars, rowVars, sweep, events>>
        BY <1>1, Zenon DEF CheckHealth
      <3>2. fails' \in Nat
        BY <1>c, <2>1
      <3> QED
        BY <3>1, <3>2 DEF TypeInv, provVars, rowVars
  <1>2. CASE Requests
    <2>1. PICK r \in Rows : JournalCreate(r) \/ DeleteResource(r) \/ BindLease(r)
      BY <1>2 DEF Requests
    <2>2. row' \in [Rows -> RowRecs]
      BY <2>1, RequestEffects DEF RequestStep, WritesPhase, WritesRow, Others
    <2>3. UNCHANGED <<fails, sweep>>
      BY <1>2 DEF Requests
    <2> QED
      <3>1. /\ UNCHANGED <<graced, machine, origin, young>>
            /\ leased' \in {leased, leased \cup {r}}
            /\ create' \in {create, [create EXCEPT ![r] = "open"]}
        BY <2>1, RequestFrame
      <3>2. events' \in {events, events + 1}
        BY <2>1, RequestFrame
      <3>3. events' \in Nat
        BY <1>c, <3>2
      <3> QED
        BY <2>2, <2>3, <3>1, <3>3 DEF TypeInv
  <1>3. CASE Operations
    <2>1. PICK r \in Rows :
            \/ EndCreate(r) \/ Terminate(r) \/ EndDelete(r) \/ EndLease(r) \/ GraceEnds(r)
            \/ \E m \in Machines : Launch(r, m) \/ Bound(r, m)
      BY <1>3 DEF Operations
    <2>2. row' \in [Rows -> RowRecs]
      BY <2>1, OperationEffects DEF TypeInv, OperationStep, WritesPhase, WritesExt, Others
    <2>3. UNCHANGED <<fails, sweep, events>>
      BY <1>3 DEF Operations
    <2> QED
      <3>1. leased' \subseteq leased /\ graced' \subseteq graced \cup {r}
        BY <2>1, OperationFrame
      <3>2. create' \in [Rows -> {"none", "open", "succeeded", "failed"}]
        BY <2>1, OperationFrame DEF TypeInv
      <3>3. /\ machine' \in [Machines -> {"absent", "running", "stopped", "gone"}]
            /\ origin' \in [Machines -> Rows \cup {"none", "foreign", "lost"}]
            /\ young' \subseteq Machines
        <4>1. \/ UNCHANGED <<machine, origin, young>>
              \/ UNCHANGED <<origin, young>> /\ machine' = [machine EXCEPT ![row[r].ext] = "gone"]
              \/ \E m \in Machines :
                    /\ machine' = [machine EXCEPT ![m] = "running"]
                    /\ origin' = [origin EXCEPT ![m] = r] /\ young' = young \cup {m}
          BY <2>1, OperationFrame
        <4> QED
          BY <4>1 DEF TypeInv
      <3> QED
        BY <2>2, <2>3, <3>1, <3>2, <3>3 DEF TypeInv
  <1>4. CASE Provider
    <2>1. CASE Meddle
      <3>1. machine' \in [Machines -> {"absent", "running", "stopped", "gone"}]
        BY <2>1, MeddleFrame DEF TypeInv
      <3>2. UNCHANGED <<origin, young, row, create, leased, graced>>
        BY <2>1, MeddleFrame
      <3>3. events' \in Nat
        <4>1. events' = events + 1
          BY <2>1, MeddleFrame
        <4> QED
          BY <1>c, <4>1
      <3>4. fails' \in Nat
        <4>1. fails' = 0 \/ fails' = fails
          BY <2>1, MeddleFrame
        <4> QED
          BY <1>c, <4>1
      <3>5. CASE UNCHANGED sweep
        BY <3>1, <3>2, <3>3, <3>4, <3>5 DEF TypeInv
      <3>6. CASE sweep' = Idle
        BY <3>1, <3>2, <3>3, <3>4, <3>6, IdleType DEF TypeInv
      <3> QED
        BY <2>1, <3>5, <3>6, MeddleFrame
    <2>2. CASE Recover \/ \E m \in Machines : Settle(m)
      <3>1. /\ UNCHANGED <<machine, origin, row, create, leased, graced, fails, sweep, events>>
            /\ young' \subseteq young
        BY <2>2, Zenon DEF Recover, Settle, provVars, rowVars
      <3> QED
        BY <3>1 DEF TypeInv
    <2> QED
      BY <1>4, <2>1, <2>2 DEF Provider
  <1>5. CASE UNCHANGED vars
    BY <1>5 DEF vars, TypeInv, provVars, rowVars
  <1> QED
    BY <1>1, <1>2, <1>3, <1>4, <1>5, SweepType DEF Next

-----------------------------------------------------------------------------
(* The rows.  Each way of writing a row keeps RowInv and                   *)
(* OneLiveRowPerMachine, and keeps the machines of the rows that the sweep *)
(* has read as live.                                                       *)

Keeps ==
    /\ RowInv' /\ OneLiveRowPerMachine'
    /\ \A r \in Rows : Live(sweep.rows[r]) /\ sweep.rows[r].ext # None =>
          row'[r].ext = sweep.rows[r].ext

(* It is enough to look at the row that was written. *)
LEMMA OneRowKeeps ==
    ASSUME DiscoveryInv, UNCHANGED <<machine, origin>>, NEW r \in Rows, Others(r),
           row'[r].ext # None => machine[row'[r].ext] # "absent",
           row'[r].phase = "orphaned" => row'[r].ext # None,
           row'[r].ext # None /\ origin[row'[r].ext] = "foreign" =>
              row'[r].managed = FALSE /\ row'[r].phase # "deleting",
           Live(row'[r]) /\ row'[r].ext # None =>
              \A q \in Rows : q # r /\ Live(row[q]) => row[q].ext # row'[r].ext,
           Live(sweep.rows[r]) /\ sweep.rows[r].ext # None => row'[r].ext = sweep.rows[r].ext
    PROVE  Keeps
  <1>1. \A q \in Rows : q # r => row'[q] = row[q]
    BY DEF Others
  <1>2. machine' = machine /\ origin' = origin
    OBVIOUS
  <1>3. RowInv'
    <2>1. \A m \in Machines : origin'[m] \in Rows => machine'[m] # "absent"
      BY <1>2 DEF DiscoveryInv, RowInv
    <2>2. \A q \in Rows : row'[q].ext # None => machine'[row'[q].ext] # "absent"
      BY <1>1, <1>2 DEF DiscoveryInv, RowInv
    <2>3. \A q \in Rows : row'[q].phase = "orphaned" => row'[q].ext # None
      BY <1>1 DEF DiscoveryInv, RowInv
    <2>4. \A q \in Rows : row'[q].ext # None /\ origin'[row'[q].ext] = "foreign" =>
            row'[q].managed = FALSE /\ row'[q].phase # "deleting"
      BY <1>1, <1>2 DEF DiscoveryInv, RowInv
    <2> QED
      BY <2>1, <2>2, <2>3, <2>4 DEF RowInv
  <1>4. OneLiveRowPerMachine'
    <2>1. ASSUME NEW s \in Rows, NEW q \in Rows, Live(row'[s]), Live(row'[q]),
                 row'[s].ext = row'[q].ext, row'[s].ext # None
          PROVE  s = q
      BY <1>1, <2>1 DEF DiscoveryInv, OneLiveRowPerMachine
    <2> QED
      BY <2>1 DEF OneLiveRowPerMachine
  <1>5. \A q \in Rows : Live(sweep.rows[q]) /\ sweep.rows[q].ext # None =>
          row'[q].ext = sweep.rows[q].ext
    BY <1>1 DEF DiscoveryInv, ReadInv
  <1> QED
    BY <1>3, <1>4, <1>5 DEF Keeps

(* deleteGates lets only managed live rows through.                        *)
LEMMA GateFacts ==
    ASSUME NEW r \in Rows, DeleteGates(r)
    PROVE  Live(row[r]) /\ row[r].managed # FALSE
  BY Zenon DEF DeleteGates

(* A phase may change as long as orphans have machines and only managed    *)
(* rows are deleted.                                                       *)
LEMMA PhaseKeeps ==
    ASSUME DiscoveryInv, UNCHANGED <<machine, origin>>,
           NEW r \in Rows, NEW p, WritesPhase(r, p), Live(row[r]),
           p = "orphaned" => row[r].ext # None,
           p = "deleting" => row[r].managed # FALSE
    PROVE  Keeps
  <1>1. /\ Others(r) /\ row'[r].ext = row[r].ext /\ row'[r].phase = p
        /\ row'[r].managed = row[r].managed
    BY Zenon DEF WritesPhase
  <1>2. /\ row[r].ext # None => machine[row[r].ext] # "absent"
        /\ row[r].ext # None /\ origin[row[r].ext] = "foreign" => row[r].managed = FALSE
    BY DEF DiscoveryInv, RowInv
  <1>3. row[r].ext # None => \A q \in Rows : q # r /\ Live(row[q]) => row[q].ext # row[r].ext
    BY DEF DiscoveryInv, OneLiveRowPerMachine
  <1>4. Live(sweep.rows[r]) /\ sweep.rows[r].ext # None => row[r].ext = sweep.rows[r].ext
    BY DEF DiscoveryInv, ReadInv
  <1> QED
    BY <1>1, <1>2, <1>3, <1>4, OneRowKeeps

(* A step that writes no row and moves no machine keeps the row            *)
(* invariants.                                                             *)
LEMMA RowFrame ==
    ASSUME DiscoveryInv, UNCHANGED <<machine, origin, row>>
    PROVE  Keeps
  BY DEF DiscoveryInv, ReadInv, RowInv, OneLiveRowPerMachine, Keeps, Live

(* A minted row is the only live one of its machine: the index ux_res_ext  *)
(* refuses another.                                                        *)
LEMMA MintKeeps ==
    ASSUME DiscoveryInv, UNCHANGED <<machine, origin>>, NEW m \in Machines,
           machine[m] # "absent", MintStep(m)
    PROVE  Keeps
  <1>1. CASE UNCHANGED row
    BY <1>1, RowFrame
  <1>2. CASE ~UNCHANGED row
    <2>1. PICK p \in {"ready", "parked"} : WritesRow(Fresh, p, m)
      BY <1>2, Zenon DEF MintStep
    <2>2. /\ ~ExternalIdTaken(m) /\ Fresh \in Rows /\ ~Live(sweep.rows[Fresh])
          /\ origin[m] = "foreign" => row'[Fresh].managed = FALSE
      BY <1>2, Zenon DEF MintStep, Unused
    <2>3. m # None
      BY Zenon, DiscoveryAssumption
    <2>4. Others(Fresh) /\ row'[Fresh].ext = m /\ row'[Fresh].phase = p
      BY <2>1, Zenon DEF WritesRow
    <2>5. \A q \in Rows : Live(row[q]) => row[q].ext # m
      BY <2>2, Zenon DEF ExternalIdTaken
    <2> QED
      BY <2>2, <2>3, <2>4, <2>5, OneRowKeeps
  <1> QED
    BY <1>1, <1>2

(* A journaled create has no machine yet.                                  *)
LEMMA JournalKeeps ==
    ASSUME DiscoveryInv, UNCHANGED <<machine, origin>>, NEW r \in Rows,
           Unused(r), WritesRow(r, "provisioning", None)
    PROVE  Keeps
  <1>1. ~Live(sweep.rows[r])
    BY Zenon DEF Unused
  <1>2. Others(r) /\ row'[r].ext = None /\ row'[r].phase = "provisioning"
    BY Zenon DEF WritesRow
  <1> QED
    BY <1>1, <1>2, OneRowKeeps

(* A create binds its own machine, which the index knows to be free.       *)
LEMMA BindKeeps ==
    ASSUME DiscoveryInv, UNCHANGED <<machine, origin>>, NEW r \in Rows, NEW m \in Machines,
           origin[m] = r, row[r].phase = "provisioning", row[r].ext = None, ~ExternalIdTaken(m),
           WritesExt(r, m)
    PROVE  Keeps
  <1>1. r # "foreign" /\ m # None
    BY Zenon, DiscoveryAssumption
  <1>2. Others(r) /\ row'[r].ext = m /\ row'[r].phase = "provisioning"
    BY Zenon DEF WritesExt
  <1>3. \A q \in Rows : Live(row[q]) => row[q].ext # m
    BY Zenon DEF ExternalIdTaken
  <1>4. machine[m] # "absent"
    BY DEF DiscoveryInv, RowInv
  <1>5. ~(Live(sweep.rows[r]) /\ sweep.rows[r].ext # None)
    BY DEF DiscoveryInv, ReadInv
  <1> QED
    BY <1>1, <1>2, <1>3, <1>4, <1>5, OneRowKeeps

(* What a sweep has read and a step that does not touch the sweep. *)
LEMMA ReadKept ==
    ASSUME DiscoveryInv, Keeps, UNCHANGED sweep,
           \A m \in Machines : /\ machine[m] # "absent" => machine'[m] # "absent"
                               /\ machine[m] = "gone" => machine'[m] = "gone"
    PROVE  ReadInv'
  <1>1. \A r \in Rows : sweep.rows[r].ext \in Machines \cup {None}
    BY DEF DiscoveryInv, TypeInv, Sweeps, RowRecs
  <1>2. sweep.pc = "confirm" => sweep.at \in Rows
    BY DEF DiscoveryInv, TypeInv
  <1> QED
    BY <1>1, <1>2 DEF DiscoveryInv, Keeps, ReadInv, Live

-----------------------------------------------------------------------------
(* The sweep *)

(* A step of a sweep that is not yet at the absent rows. *)
LEMMA Observes ==
    ASSUME DiscoveryInv, Keeps, UNCHANGED machine,
           sweep'.rows = sweep.rows, sweep'.list = sweep.list,
           sweep'.pc \notin {"absent", "confirm"},
           sweep'.pc \in {"observed", "drain ghost", "delete ghost"} =>
              \A m \in sweep'.todo : sweep.list[m] # "unseen"
    PROVE  ReadInv'
  BY DEF DiscoveryInv, ReadInv, Keeps, Live

(* A sweep that ends or dies forgets what it read.                         *)
LEMMA Idles ==
    ASSUME sweep' = Idle
    PROVE  ReadInv'
  BY IdleType DEF ReadInv, Live

(* The sweep keeps the invariant: what it acts on is what it read of live  *)
(* rows, or is checked again.                                              *)
LEMMA SweepKeeps ==
    ASSUME DiscoveryInv, TypeInv', SweepKind
    PROVE  Keeps /\ ReadInv'
  <1>t. TypeInv
    BY DEF DiscoveryInv
  <1>m. UNCHANGED <<machine, origin>>
    BY Zenon DEF SweepKind, Discover, ListRows, ListOps, DrainGhost, DeleteGhost, CheckHealthy, Confirm,
       EndSweep, RefreshObserved, LeaveToVerifier, Adopt, HandleGhost, Get, provVars
  <1>s. sweep \in Sweeps
    BY <1>t DEF TypeInv
  <1>x. \A r \in Rows : sweep.rows[r] \in RowRecs /\ sweep.rows[r].ext \in Machines \cup {None}
    BY <1>s DEF Sweeps, RowRecs
  <1>1. ASSUME Discover PROVE Keeps /\ ReadInv'
    <2>1. PICK hidden \in SUBSET young :
            sweep' = [sweep EXCEPT !.pc = "rows",
               !.list = [m \in Machines |->
                  IF Exists(m) /\ m \notin hidden /\ (Owned(m) \/ AdoptUnlabeled)
                  THEN machine[m] ELSE "unseen"]]
      BY <1>1, Zenon DEF Discover
    <2>2. /\ sweep'.rows = sweep.rows /\ sweep'.pc = "rows"
          /\ sweep'.list = [m \in Machines |->
                  IF Exists(m) /\ m \notin hidden /\ (Owned(m) \/ AdoptUnlabeled)
                  THEN machine[m] ELSE "unseen"]
      BY <2>1, <1>s, Zenon DEF Sweeps
    <2>4. \A m \in Machines : sweep'.list[m] # "unseen" => machine[m] # "absent"
      BY <2>2 DEF Exists
    <2>3. Keeps
      BY <1>1, <1>m, RowFrame DEF Discover, rowVars
    <2> QED
      BY <1>m, <2>2, <2>3, <2>4 DEF DiscoveryInv, ReadInv, Keeps, Live
  <1>2. ASSUME ListRows PROVE Keeps /\ ReadInv'
    <2>1. Keeps /\ UNCHANGED row
      BY <1>2, <1>m, RowFrame DEF ListRows, rowVars
    <2>2. sweep'.rows = row /\ sweep'.list = sweep.list /\ sweep'.pc = "ops"
      BY <1>2, <1>s DEF ListRows, Sweeps
    <2> QED
      BY <1>m, <2>1, <2>2 DEF DiscoveryInv, ReadInv, Keeps, Live
  <1>3. ASSUME ListOps PROVE Keeps /\ ReadInv'
    <2>1. Keeps
      BY <1>3, <1>m, RowFrame DEF ListOps, rowVars
    <2>2. /\ sweep'.rows = sweep.rows /\ sweep'.list = sweep.list /\ sweep'.pc = "observed"
          /\ \A m \in sweep'.todo : sweep.list[m] # "unseen"
      BY <1>3, <1>s DEF ListOps, Sweeps
    <2> QED
      BY <1>m, <2>1, <2>2, Observes
  <1>4. ASSUME DrainGhost PROVE Keeps /\ ReadInv'
    <2>1. sweep.at \in Rows
      BY <1>4, <1>t DEF DrainGhost, TypeInv
    <2>2. Keeps
      <3>1. DrainStep
        BY <1>4, <1>t, SweepEffects
      <3>2. CASE UNCHANGED row
        BY <1>m, <3>2, RowFrame
      <3>3. CASE row[sweep.at].phase = "ready" /\ WritesPhase(sweep.at, "draining")
        BY <1>m, <2>1, <3>3, PhaseKeeps DEF Live
      <3> QED
        BY <3>1, <3>2, <3>3 DEF DrainStep
    <2>3. /\ sweep'.rows = sweep.rows /\ sweep'.list = sweep.list
          /\ sweep'.pc \in {"delete ghost", "observed"} /\ sweep'.todo = sweep.todo
          /\ sweep.pc = "drain ghost"
      BY <1>4, <1>s DEF DrainGhost, Sweeps
    <2> QED
      BY <1>m, <2>2, <2>3, Observes DEF DiscoveryInv, ReadInv
  <1>5. ASSUME DeleteGhost PROVE Keeps /\ ReadInv'
    <2>1. sweep.at \in Rows
      BY <1>5, <1>t DEF DeleteGhost, TypeInv
    <2>2. Keeps
      <3>1. DeleteStep(sweep.at)
        BY <1>5, <1>t, SweepEffects
      <3>2. CASE UNCHANGED row
        BY <1>m, <3>2, RowFrame
      <3>3. CASE DeleteGates(sweep.at) /\ WritesPhase(sweep.at, "deleting")
        BY <1>m, <2>1, <3>3, PhaseKeeps, GateFacts
      <3> QED
        BY <3>1, <3>2, <3>3 DEF DeleteStep
    <2>3. /\ sweep'.rows = sweep.rows /\ sweep'.list = sweep.list
          /\ sweep'.pc = "observed" /\ sweep'.todo = sweep.todo
          /\ sweep.pc = "delete ghost"
      BY <1>5, <1>s DEF DeleteGhost, Sweeps
    <2> QED
      BY <1>m, <2>2, <2>3, Observes DEF DiscoveryInv, ReadInv
  <1>6. ASSUME CheckHealthy PROVE Keeps /\ ReadInv'
    <2>1. Keeps /\ UNCHANGED row
      BY <1>6, <1>m, RowFrame DEF CheckHealthy, rowVars
    <2>2. CASE sweep' = Idle
      BY <2>1, <2>2, Idles
    <2>3. CASE sweep' # Idle
      <3>1. PICK absent \in SUBSET Rows :
              /\ sweep' = [Idle EXCEPT !.pc = "absent", !.todo = absent,
                            !.rows = [r \in Rows |-> IF r \in absent THEN sweep.rows[r] ELSE NoRow],
                            !.graced = sweep.graced \cap absent]
              /\ \A r \in absent : Live(sweep.rows[r]) /\ sweep.rows[r].ext # None
        BY <1>6, <2>3, Zenon DEF CheckHealthy
      <3>2. /\ sweep'.pc = "absent" /\ sweep'.todo = absent /\ sweep'.list = Idle.list
            /\ sweep'.rows = [r \in Rows |-> IF r \in absent THEN sweep.rows[r] ELSE NoRow]
        BY <3>1 DEF Idle
      <3>3. \A r \in Rows : sweep'.rows[r] = IF r \in absent THEN sweep.rows[r] ELSE NoRow
        BY <3>2
      <3>4. \A r \in Rows : Live(sweep'.rows[r]) => sweep'.rows[r] = sweep.rows[r]
        BY <3>3, PhaseNames
      <3>5. \A r \in Rows : Live(sweep'.rows[r]) /\ sweep'.rows[r].ext # None =>
              row'[r].ext = sweep'.rows[r].ext
        BY <2>1, <3>4 DEF Keeps
      <3>6. \A n \in Machines : sweep'.list[n] = "unseen"
        BY <3>2, IdleType
      <3>7. \A r \in sweep'.todo : Live(sweep'.rows[r]) /\ sweep'.rows[r].ext # None
        BY <3>1, <3>2, <3>3
      <3> QED
        BY <2>1, <3>2, <3>5, <3>6, <3>7 DEF ReadInv, Live
    <2> QED
      BY <2>2, <2>3
  <1>7. ASSUME Confirm PROVE Keeps /\ ReadInv'
    <2>1. sweep.at \in Rows /\ sweep.pc = "confirm"
      BY <1>7, <1>t DEF Confirm, TypeInv
    <2>r. row[sweep.at].ext = sweep.rows[sweep.at].ext /\ row[sweep.at].ext # None
          /\ Live(sweep.rows[sweep.at])
      BY <2>1 DEF DiscoveryInv, ReadInv
    <2>2. Keeps
      <3>1. ConfirmStep(sweep.at)
        BY <1>7, <1>t, SweepEffects
      <3>2. CASE UNCHANGED row
        BY <1>m, <3>2, RowFrame
      <3>3. CASE Live(row[sweep.at]) /\ WritesPhase(sweep.at, "gone")
        BY <1>m, <2>1, <3>3, PhaseKeeps
      <3>4. CASE row[sweep.at].phase = sweep.rows[sweep.at].phase /\ WritesPhase(sweep.at, "orphaned")
        <4>1. Live(row[sweep.at])
          BY <2>r, <3>4 DEF Live
        <4> QED
          BY <1>m, <2>1, <2>r, <3>4, <4>1, PhaseKeeps
      <3> QED
        BY <3>1, <3>2, <3>3, <3>4 DEF ConfirmStep
    <2>3. /\ sweep'.rows = sweep.rows /\ sweep'.list = sweep.list
          /\ sweep'.pc = "absent" /\ sweep'.todo = sweep.todo
      BY <1>7, <1>s DEF Confirm, Sweeps
    <2> QED
      BY <1>m, <2>1, <2>2, <2>3 DEF DiscoveryInv, ReadInv, Keeps, Live
  <1>8. ASSUME EndSweep PROVE Keeps /\ ReadInv'
    BY <1>8, <1>m, RowFrame, Idles DEF EndSweep, rowVars
  <1>9. ASSUME NEW m \in Machines, RefreshObserved(m) PROVE Keeps /\ ReadInv'
    <2>1. PICK r \in Rows : ReviveStep(r)
      BY <1>9, <1>t, SweepEffects
    <2>2. Keeps
      <3>1. CASE UNCHANGED row
        BY <1>m, <3>1, RowFrame
      <3>2. CASE row[r].phase = "orphaned" /\ (WritesPhase(r, "ready") \/ WritesPhase(r, "parked"))
        BY <1>m, <3>2, PhaseKeeps DEF Live
      <3> QED
        BY <2>1, <3>1, <3>2 DEF ReviveStep
    <2>3. /\ sweep'.rows = sweep.rows /\ sweep'.list = sweep.list
          /\ sweep'.pc = sweep.pc /\ sweep'.todo \subseteq sweep.todo
          /\ sweep.pc = "observed"
      BY <1>9, <1>s DEF RefreshObserved, Observing, Next_, Sweeps
    <2> QED
      BY <1>m, <2>2, <2>3, Observes DEF DiscoveryInv, ReadInv
  <1>10. ASSUME NEW m \in Machines, LeaveToVerifier(m) PROVE Keeps /\ ReadInv'
    <2>1. Keeps
      BY <1>10, <1>m, RowFrame DEF LeaveToVerifier, rowVars
    <2>2. /\ sweep'.rows = sweep.rows /\ sweep'.list = sweep.list
          /\ sweep'.pc = sweep.pc /\ sweep'.todo \subseteq sweep.todo
          /\ sweep.pc = "observed"
      BY <1>10, <1>s DEF LeaveToVerifier, Observing, Next_, Sweeps
    <2> QED
      BY <1>m, <2>1, <2>2, Observes DEF DiscoveryInv, ReadInv
  <1>11. ASSUME NEW m \in Machines, Adopt(m) \/ HandleGhost(m) PROVE Keeps /\ ReadInv'
    <2>1. sweep.pc = "observed" /\ m \in sweep.todo
      BY <1>11, Zenon DEF Adopt, HandleGhost, Observing
    <2>2. machine[m] # "absent"
      BY <2>1 DEF DiscoveryInv, ReadInv
    <2>3. MintStep(m)
      BY <1>11, <1>t, SweepEffects
    <2>4. Keeps
      BY <1>m, <2>2, <2>3, MintKeeps
    <2>5. \/ sweep' = [sweep EXCEPT !.todo = @ \ {m}]
          \/ sweep' = [sweep EXCEPT !.todo = @ \ {m}, !.pc = "drain ghost", !.at = Fresh]
      BY <1>11 DEF Adopt, HandleGhost, Next_
    <2>6. /\ sweep'.rows = sweep.rows /\ sweep'.list = sweep.list
          /\ sweep'.pc \in {"observed", "drain ghost"} /\ sweep'.todo \subseteq sweep.todo
      BY <2>1, <2>5, <1>s DEF Sweeps
    <2> QED
      BY <1>m, <2>1, <2>4, <2>6, Observes DEF DiscoveryInv, ReadInv
  <1>12. ASSUME NEW r \in Rows, Get(r) PROVE Keeps /\ ReadInv'
    <2>1. Keeps
      BY <1>12, <1>m, RowFrame DEF Get, rowVars
    <2>2. sweep.pc = "absent" /\ r \in sweep.todo
      BY <1>12 DEF Get
    <2>3. \/ sweep' = [sweep EXCEPT !.todo = @ \ {r}]
          \/ /\ ~Exists(sweep.rows[r].ext)
             /\ sweep' = [sweep EXCEPT !.todo = @ \ {r}, !.pc = "confirm", !.at = r]
      BY <1>12, Zenon DEF Get, NotFound
    <2>4. Live(sweep.rows[r]) /\ sweep.rows[r].ext # None
      BY <2>2 DEF DiscoveryInv, ReadInv
    <2>5. sweep.rows[r].ext \in Machines /\ machine[sweep.rows[r].ext] # "absent"
      BY <1>x, <2>4 DEF DiscoveryInv, ReadInv, RowInv
    <2>6. ~Exists(sweep.rows[r].ext) => machine[sweep.rows[r].ext] = "gone"
      BY <1>t, <2>5 DEF TypeInv, Exists
    <2>7. /\ sweep'.rows = sweep.rows /\ sweep'.list = sweep.list /\ sweep'.todo \subseteq sweep.todo
          /\ \/ sweep'.pc = "absent"
             \/ sweep'.pc = "confirm" /\ sweep'.at = r /\ ~Exists(sweep.rows[r].ext)
      BY <2>2, <2>3, <1>s DEF Sweeps
    <2> QED
      BY <1>m, <2>1, <2>2, <2>4, <2>6, <2>7 DEF DiscoveryInv, ReadInv, Keeps, Live
  <1> QED
    BY <1>1, <1>2, <1>3, <1>4, <1>5, <1>6, <1>7, <1>8, <1>9, <1>10, <1>11, <1>12 DEF SweepKind

-----------------------------------------------------------------------------
(* Callers, operations and the provider *)

(* The handlers keep the invariant, whatever the sweep has read.           *)
LEMMA RequestKeeps ==
    ASSUME DiscoveryInv, Requests
    PROVE  Keeps /\ ReadInv'
  <1>1. PICK r \in Rows : JournalCreate(r) \/ DeleteResource(r) \/ BindLease(r)
    BY DEF Requests
  <1>2. RequestStep(r)
    BY <1>1, RequestEffects DEF DiscoveryInv
  <1>3. UNCHANGED <<machine, origin>>
    BY <1>1, RequestFrame
  <1>4. Keeps
    <2>1. CASE Unused(r) /\ WritesRow(r, "provisioning", None)
      BY <1>3, <2>1, JournalKeeps
    <2>2. CASE DeleteGates(r) /\ (WritesPhase(r, "gone") \/ WritesPhase(r, "deleting"))
      BY <1>3, <2>2, GateFacts, PhaseKeeps
    <2>3. CASE row[r].phase = "ready" /\ WritesPhase(r, "allocated")
      BY <1>3, <2>3, PhaseKeeps DEF Live
    <2> QED
      BY <1>2, <2>1, <2>2, <2>3 DEF RequestStep
  <1>5. UNCHANGED sweep
    BY DEF Requests
  <1> QED
    BY <1>3, <1>4, <1>5, ReadKept

(* A machine that is stopped, started or deleted was there. *)
LEMMA MachineKeeps ==
    ASSUME DiscoveryInv, UNCHANGED <<origin, row>>, NEW m, Exists(m), NEW to,
           to # "absent", machine' = [machine EXCEPT ![m] = to]
    PROVE  /\ Keeps
           /\ \A n \in Machines : /\ machine[n] # "absent" => machine'[n] # "absent"
                                  /\ machine[n] = "gone" => machine'[n] = "gone"
  <1>1. machine \in [Machines -> {"absent", "running", "stopped", "gone"}]
        /\ row \in [Rows -> RowRecs]
    BY DEF DiscoveryInv, TypeInv
  <1>2. \A n \in Machines : /\ machine[n] # "absent" => machine'[n] # "absent"
                            /\ machine[n] = "gone" => machine'[n] = "gone"
    BY <1>1 DEF Exists
  <1>3. \A r \in Rows : row[r].ext \in Machines \cup {None}
    BY <1>1 DEF RowRecs
  <1> QED
    BY <1>2, <1>3 DEF DiscoveryInv, RowInv, ReadInv, OneLiveRowPerMachine, Keeps, Live

(* A new machine is nobody's yet, and nothing the sweep read changes.      *)
LEMMA LaunchKeeps ==
    ASSUME DiscoveryInv, UNCHANGED row, NEW r \in Rows, NEW m \in Machines, machine[m] = "absent",
           machine' = [machine EXCEPT ![m] = "running"], origin' = [origin EXCEPT ![m] = r]
    PROVE  /\ Keeps
           /\ \A n \in Machines : /\ machine[n] # "absent" => machine'[n] # "absent"
                                  /\ machine[n] = "gone" => machine'[n] = "gone"
  <1>1. /\ machine \in [Machines -> {"absent", "running", "stopped", "gone"}]
        /\ origin \in [Machines -> Rows \cup {"none", "foreign", "lost"}]
        /\ row \in [Rows -> RowRecs]
    BY DEF DiscoveryInv, TypeInv
  <1>2. /\ machine'[m] = "running" /\ origin'[m] = r
        /\ \A n \in Machines : n # m => machine'[n] = machine[n] /\ origin'[n] = origin[n]
    BY <1>1
  <1>3. \A q \in Rows : row[q].ext \in Machines \cup {None}
    BY <1>1 DEF RowRecs
  <1>4. \A q \in Rows : row[q].ext # None => row[q].ext # m
    BY DEF DiscoveryInv, RowInv
  <1>5. \A q \in Rows : row[q].ext # None =>
          /\ machine'[row[q].ext] = machine[row[q].ext]
          /\ origin'[row[q].ext] = origin[row[q].ext]
    BY <1>2, <1>3, <1>4
  <1>6. RowInv'
    <2>1. \A n \in Machines : origin'[n] \in Rows => machine'[n] # "absent"
      BY <1>2 DEF DiscoveryInv, RowInv
    <2> QED
      BY <1>5, <2>1 DEF DiscoveryInv, RowInv
  <1>7. OneLiveRowPerMachine'
    BY DEF DiscoveryInv, OneLiveRowPerMachine
  <1>8. \A q \in Rows : Live(sweep.rows[q]) /\ sweep.rows[q].ext # None =>
          row'[q].ext = sweep.rows[q].ext
    BY DEF DiscoveryInv, ReadInv
  <1>9. \A n \in Machines : /\ machine[n] # "absent" => machine'[n] # "absent"
                            /\ machine[n] = "gone" => machine'[n] = "gone"
    BY <1>2
  <1> QED
    BY <1>6, <1>7, <1>8, <1>9 DEF Keeps

(* The engine keeps the invariant.                                         *)
LEMMA OperationKeeps ==
    ASSUME DiscoveryInv, Operations
    PROVE  Keeps /\ ReadInv'
  <1>1. PICK r \in Rows :
          \/ EndCreate(r) \/ Terminate(r) \/ EndDelete(r) \/ EndLease(r) \/ GraceEnds(r)
          \/ \E m \in Machines : Launch(r, m) \/ Bound(r, m)
    BY DEF Operations
  <1>2. OperationStep(r)
    BY <1>1, OperationEffects DEF DiscoveryInv
  <1>3. UNCHANGED sweep
    BY DEF Operations
  <1>4. CASE machine' = machine /\ origin' = origin
    <2>1. Keeps
      <3>1. CASE UNCHANGED row
        BY <1>4, <3>1, RowFrame
      <3>2. ASSUME NEW m \in Machines, origin[m] = r, row[r].phase = "provisioning",
                   row[r].ext = None, ~ExternalIdTaken(m), WritesExt(r, m)
            PROVE  Keeps
        BY <1>4, <3>2, BindKeeps
      <3>3. CASE row[r].phase = "provisioning" /\ (WritesPhase(r, "ready") \/ WritesPhase(r, "failed"))
        BY <1>4, <3>3, PhaseKeeps DEF Live
      <3>4. CASE row[r].phase = "deleting" /\ WritesPhase(r, "gone")
        BY <1>4, <3>4, PhaseKeeps DEF Live
      <3>5. CASE row[r].phase = "allocated" /\ WritesPhase(r, "ready")
        BY <1>4, <3>5, PhaseKeeps DEF Live
      <3> QED
        BY <1>2, <3>1, <3>2, <3>3, <3>4, <3>5, Zenon DEF OperationStep
    <2> QED
      BY <1>3, <1>4, <2>1, ReadKept
  <1>5. CASE ~(machine' = machine /\ origin' = origin)
    <2>1. UNCHANGED row
      <3>1. \/ EndCreate(r) \/ EndDelete(r) \/ EndLease(r) \/ GraceEnds(r)
            \/ \E m \in Machines : Bound(r, m)
            => machine' = machine /\ origin' = origin
        BY Zenon DEF EndCreate, EndDelete, EndLease, GraceEnds, Bound, provVars
      <3>2. Terminate(r) \/ (\E m \in Machines : Launch(r, m)) => UNCHANGED row
        BY Zenon DEF Terminate, Launch, rowVars
      <3> QED
        BY <1>1, <1>5, <3>1, <3>2, Zenon
    <2>2. \/ /\ UNCHANGED origin /\ Exists(row[r].ext)
             /\ machine' = [machine EXCEPT ![row[r].ext] = "gone"]
          \/ \E m \in Machines :
                /\ machine[m] = "absent" /\ machine' = [machine EXCEPT ![m] = "running"]
                /\ origin' = [origin EXCEPT ![m] = r]
      BY <1>1, <1>5, OperationFrame
    <2>3. /\ Keeps
          /\ \A n \in Machines : /\ machine[n] # "absent" => machine'[n] # "absent"
                                 /\ machine[n] = "gone" => machine'[n] = "gone"
      BY <2>1, <2>2, MachineKeeps, LaunchKeeps
    <2> QED
      BY <1>3, <2>3, ReadKept
  <1> QED
    BY <1>4, <1>5

(* The provider, its owner and the health tracker keep the invariant.      *)
LEMMA ProviderKeeps ==
    ASSUME DiscoveryInv, Provider
    PROVE  Keeps /\ ReadInv'
  <1>1. CASE Meddle
    <2>1. /\ Keeps
          /\ \A n \in Machines : /\ machine[n] # "absent" => machine'[n] # "absent"
                                 /\ machine[n] = "gone" => machine'[n] = "gone"
      <3>1. UNCHANGED <<origin, row>>
        BY <1>1, MeddleFrame
      <3>2. CASE UNCHANGED machine
        BY <3>1, <3>2, RowFrame
      <3>3. ASSUME NEW m \in Machines, NEW to \in {"running", "stopped", "gone"}, Exists(m),
                   machine' = [machine EXCEPT ![m] = to]
            PROVE  /\ Keeps
                   /\ \A n \in Machines : /\ machine[n] # "absent" => machine'[n] # "absent"
                                          /\ machine[n] = "gone" => machine'[n] = "gone"
        BY <3>1, <3>3, MachineKeeps
      <3>4. \/ UNCHANGED machine
            \/ \E m \in Machines, to \in {"running", "stopped", "gone"} :
                  Exists(m) /\ machine' = [machine EXCEPT ![m] = to]
        BY <1>1, MeddleFrame
      <3> QED
        BY <3>2, <3>3, <3>4
    <2>2. UNCHANGED sweep \/ sweep' = Idle
      BY <1>1, MeddleFrame
    <2> QED
      BY <2>1, <2>2, ReadKept, Idles
  <1>2. CASE Recover \/ \E m \in Machines : Settle(m)
    <2>1. UNCHANGED <<machine, origin, row, sweep>>
      BY <1>2, Zenon DEF Recover, Settle, provVars, rowVars
    <2> QED
      BY <2>1, RowFrame, ReadKept
  <1> QED
    BY <1>1, <1>2 DEF Provider

(* The invariant holds of empty tables.                                    *)
LEMMA InitDiscovery == Init => DiscoveryInv
  <1> SUFFICES ASSUME Init PROVE DiscoveryInv
    OBVIOUS
  <1>1. PICK o \in {"none", "foreign", "lost"} :
          origin = [[n \in Machines |-> "none"] EXCEPT ![CHOOSE m \in Machines : TRUE] = o]
    BY Zenon DEF Init
  <1>2. origin \in [Machines -> {"none", "foreign", "lost"}]
    BY <1>1
  <1>3. /\ machine = [m \in Machines |-> IF origin[m] = "none" THEN "absent" ELSE "running"]
        /\ young = {} /\ row = [r \in Rows |-> NoRow] /\ create = [r \in Rows |-> "none"]
        /\ leased = {} /\ graced = {} /\ fails = 0 /\ sweep = Idle /\ events = 0
    BY Zenon DEF Init
  <1>4. \A m \in Machines : origin[m] \notin Rows
    BY <1>2, Zenon, DiscoveryAssumption
  <1>5. \A r \in Rows : row[r] = NoRow
    BY <1>3
  <1>6. TypeInv
    BY <1>2, <1>3, IdleType, PhaseNames DEF TypeInv
  <1>7. ReadInv
    BY <1>3, IdleType DEF ReadInv
  <1>8. RowInv
    BY <1>4, <1>5, PhaseNames DEF RowInv, NoRow
  <1>9. OneLiveRowPerMachine
    BY <1>5, PhaseNames DEF OneLiveRowPerMachine
  <1> QED
    BY <1>6, <1>7, <1>8, <1>9 DEF DiscoveryInv

(* The invariant is inductive.                                             *)
LEMMA NextDiscovery == DiscoveryInv /\ [Next]_vars => DiscoveryInv'
  <1> SUFFICES ASSUME DiscoveryInv, [Next]_vars PROVE DiscoveryInv'
    OBVIOUS
  <1>1. TypeInv'
    BY NextType DEF DiscoveryInv
  <1>2. Keeps /\ ReadInv'
    <2>1. CASE CheckHealth \/ UNCHANGED vars
      <3>1. UNCHANGED <<machine, origin, row, sweep>>
        BY <2>1, Zenon DEF CheckHealth, vars, provVars, rowVars
      <3> QED
        BY <3>1, RowFrame, ReadKept
    <2> QED
      BY <1>1, <2>1, SweepKeeps, RequestKeeps, OperationKeeps, ProviderKeeps DEF Next
  <1> QED
    BY <1>1, <1>2 DEF DiscoveryInv, Keeps

(***************************************************************************)
(* No machine ever has two live rows: the index ux_res_ext refuses the     *)
(* second one, whatever sweepKind read before a create was bound, a row    *)
(* minted or a machine deleted, and an id that is used again is never that *)
(* of a row the sweep still holds as live.                                 *)
(***************************************************************************)
THEOREM MachinesHaveOneRow == Spec => []OneLiveRowPerMachine
  <1>1. Init => DiscoveryInv
    BY InitDiscovery
  <1>2. DiscoveryInv /\ [Next]_vars => DiscoveryInv'
    BY NextDiscovery
  <1>3. DiscoveryInv => OneLiveRowPerMachine
    BY DEF DiscoveryInv
  <1> QED
    BY <1>1, <1>2, <1>3, PTL DEF Spec

-----------------------------------------------------------------------------
(* What the steps other than confirmOrphan's do to the phase of a row. *)
Quiet(r) ==
    /\ row'[r].phase = "deleting" => row'[r].ext = row[r].ext
    /\ row'[r].phase = "orphaned" => row[r].phase = "orphaned"
    /\ row[r].phase = "orphaned" => row'[r].phase # "gone"

(* If the row a step writes is not orphaned or written off, none is.       *)
LEMMA OthersQuiet ==
    ASSUME NEW r \in Rows, Others(r), Quiet(r)
    PROVE  \A q \in Rows : Quiet(q)
  BY DEF Others, Quiet

(* Neither does a phase update to any other phase.                         *)
LEMMA PhaseQuiet ==
    ASSUME NEW r \in Rows, NEW p, WritesPhase(r, p), p # "orphaned",
           row[r].phase = "orphaned" => p # "gone"
    PROVE  \A q \in Rows : Quiet(q)
  <1>1. Others(r) /\ row'[r].phase = p /\ row'[r].ext = row[r].ext
    BY Zenon DEF WritesPhase
  <1> QED
    BY <1>1, OthersQuiet DEF Quiet

(* In the sweep only Confirm orphans a row or writes one off.              *)
LEMMA SweepQuiet ==
    ASSUME TypeInv, SweepKind, ~Confirm
    PROVE  \A q \in Rows : Quiet(q)
  <1>1. CASE UNCHANGED row
    BY <1>1 DEF Quiet
  <1>2. ASSUME DrainGhost PROVE \A q \in Rows : Quiet(q)
    <2>1. sweep.at \in Rows /\ DrainStep
      BY <1>2, SweepEffects DEF DrainGhost, TypeInv
    <2> QED
      BY <1>1, <2>1, PhaseQuiet DEF DrainStep
  <1>3. ASSUME DeleteGhost PROVE \A q \in Rows : Quiet(q)
    <2>1. sweep.at \in Rows /\ DeleteStep(sweep.at)
      BY <1>3, SweepEffects DEF DeleteGhost, TypeInv
    <2> QED
      BY <1>1, <2>1, PhaseQuiet DEF DeleteStep
  <1>4. ASSUME NEW m \in Machines, RefreshObserved(m) PROVE \A q \in Rows : Quiet(q)
    <2>1. PICK r \in Rows : ReviveStep(r)
      BY <1>4, SweepEffects
    <2> QED
      BY <1>1, <2>1, PhaseQuiet DEF ReviveStep
  <1>5. ASSUME NEW m \in Machines, Adopt(m) \/ HandleGhost(m) PROVE \A q \in Rows : Quiet(q)
    <2>1. MintStep(m)
      BY <1>5, SweepEffects
    <2>2. CASE ~UNCHANGED row
      <3>1. PICK p \in {"ready", "parked"} : Fresh \in Rows /\ WritesRow(Fresh, p, m)
        BY <2>1, <2>2, Zenon DEF MintStep
      <3>2. Others(Fresh) /\ row'[Fresh].phase = p
        BY <3>1, Zenon DEF WritesRow
      <3> QED
        BY <3>1, <3>2, OthersQuiet DEF Quiet
    <2> QED
      BY <1>1, <2>2
  <1>6. \/ Discover \/ ListRows \/ ListOps \/ CheckHealthy \/ EndSweep
        \/ (\E m \in Machines : LeaveToVerifier(m)) \/ (\E r \in Rows : Get(r))
        => UNCHANGED row
    BY Zenon DEF Discover, ListRows, ListOps, CheckHealthy, EndSweep, LeaveToVerifier, Get, rowVars
  <1> QED
    BY <1>1, <1>2, <1>3, <1>4, <1>5, <1>6 DEF SweepKind

(* And nothing outside of the sweep does.                                  *)
LEMMA NextQuiet ==
    ASSUME DiscoveryInv, [Next]_vars, ~Confirm
    PROVE  \A q \in Rows : Quiet(q)
  <1>t. TypeInv
    BY DEF DiscoveryInv
  <1>1. CASE UNCHANGED row
    BY <1>1 DEF Quiet
  <1>2. CASE Requests
    <2>1. PICK r \in Rows : JournalCreate(r) \/ DeleteResource(r) \/ BindLease(r)
      BY <1>2 DEF Requests
    <2>2. RequestStep(r)
      BY <2>1, <1>t, RequestEffects
    <2>3. CASE WritesRow(r, "provisioning", None) /\ Unused(r)
      <3>1. Others(r) /\ row'[r].phase = "provisioning"
        BY <2>3, Zenon DEF WritesRow
      <3> QED
        BY <3>1, OthersQuiet DEF Quiet
    <2>4. CASE row[r].ext = None /\ WritesPhase(r, "gone")
      <3>1. row[r].phase # "orphaned"
        BY <2>4 DEF DiscoveryInv, RowInv
      <3> QED
        BY <2>4, <3>1, PhaseQuiet
    <2>5. CASE WritesPhase(r, "deleting") \/ WritesPhase(r, "allocated")
      BY <2>5, PhaseQuiet
    <2> QED
      BY <2>2, <2>3, <2>4, <2>5, Zenon DEF RequestStep
  <1>3. CASE Operations
    <2>1. PICK r \in Rows :
            \/ EndCreate(r) \/ Terminate(r) \/ EndDelete(r) \/ EndLease(r) \/ GraceEnds(r)
            \/ \E m \in Machines : Launch(r, m) \/ Bound(r, m)
      BY <1>3 DEF Operations
    <2>2. OperationStep(r)
      BY <2>1, <1>t, OperationEffects
    <2>3. ASSUME NEW m \in Machines, row[r].phase = "provisioning", WritesExt(r, m)
          PROVE  \A q \in Rows : Quiet(q)
      <3>1. Others(r) /\ row'[r].phase = "provisioning"
        BY <2>3, Zenon DEF WritesExt
      <3> QED
        BY <3>1, <2>3, OthersQuiet DEF Quiet
    <2>4. CASE WritesPhase(r, "ready") \/ WritesPhase(r, "failed")
      BY <2>4, PhaseQuiet
    <2>5. CASE row[r].phase = "deleting" /\ WritesPhase(r, "gone")
      BY <2>5, PhaseQuiet
    <2> QED
      BY <1>1, <2>2, <2>3, <2>4, <2>5, Zenon DEF OperationStep
  <1>4. CASE CheckHealth \/ Provider \/ UNCHANGED vars
    BY <1>1, <1>4, Zenon DEF CheckHealth, Provider, Recover, Meddle, Settle, vars, provVars, rowVars
  <1> QED
    BY <1>2, <1>3, <1>4, <1>t, SweepQuiet DEF Next

(* The labels of a machine that is there do not change. *)
LEMMA LabelsStay ==
    ASSUME DiscoveryInv, [Next]_vars, NEW m \in Machines, machine[m] # "absent"
    PROVE  origin'[m] = origin[m]
  <1>1. CASE Operations
    <2>1. PICK r \in Rows :
            \/ EndCreate(r) \/ Terminate(r) \/ EndDelete(r) \/ EndLease(r) \/ GraceEnds(r)
            \/ \E n \in Machines : Launch(r, n) \/ Bound(r, n)
      BY <1>1 DEF Operations
    <2>2. \/ UNCHANGED origin
          \/ \E n \in Machines : machine[n] = "absent" /\ origin' = [origin EXCEPT ![n] = r]
      BY <2>1, OperationFrame
    <2>3. origin \in [Machines -> Rows \cup {"none", "foreign", "lost"}]
      BY DEF DiscoveryInv, TypeInv
    <2> QED
      BY <2>2, <2>3
  <1>2. CASE ~Operations
    BY <1>2, Zenon DEF Next, vars, provVars, SweepKind, Discover, ListRows, ListOps, DrainGhost, DeleteGhost,
       CheckHealthy, Confirm, EndSweep, RefreshObserved, LeaveToVerifier, Adopt, HandleGhost, Get,
       CheckHealth, Requests, JournalCreate, DeleteResource, BindLease, Provider, Recover, Meddle, Settle
  <1> QED
    BY <1>1, <1>2

(***************************************************************************)
(* No delete is ever journaled for a machine without Fleetplane's labels,  *)
(* by a caller or by the ghost policy: its row is observed, deleteGates    *)
(* refuses it, and no row's machine changes under a delete.                *)
(***************************************************************************)
THEOREM ForeignMachinesAreSafe == Spec => ForeignUntouched
  <1>1. ASSUME DiscoveryInv, [Next]_vars, NEW m \in Machines, NEW r \in Rows,
               origin[m] = "foreign", row[r].ext = m
        PROVE  row'[r].phase # "deleting"
    <2>1. m # None
      BY Zenon, DiscoveryAssumption
    <2>2. machine[m] # "absent"
      BY <1>1, <2>1 DEF DiscoveryInv, RowInv
    <2>3. origin'[m] = "foreign"
      BY <1>1, <2>2, LabelsStay
    <2>4. RowInv'
      BY <1>1, NextDiscovery DEF DiscoveryInv
    <2>5. CASE ~Confirm
      <3>1. row'[r].phase = "deleting" => row'[r].ext = m
        BY <1>1, <2>5, NextQuiet DEF Quiet
      <3> QED
        BY <2>1, <2>3, <2>4, <3>1 DEF RowInv
    <2>6. CASE Confirm
      <3>1. ConfirmStep(sweep.at)
        BY <1>1, <2>6, SweepEffects DEF DiscoveryInv
      <3>2. row'[r].ext = m
        BY <1>1, <3>1 DEF ConfirmStep, WritesPhase, Others
      <3> QED
        BY <2>1, <2>3, <2>4, <3>2 DEF RowInv
    <2> QED
      BY <2>5, <2>6
  <1>2. DiscoveryInv /\ [Next]_vars =>
          [\A m \in Machines, r \in Rows :
             (origin[m] = "foreign" /\ row[r].ext = m) => row'[r].phase # "deleting"]_vars
    BY <1>1, Zenon
  <1>3. Init => DiscoveryInv
    BY InitDiscovery
  <1>4. DiscoveryInv /\ [Next]_vars => DiscoveryInv'
    BY NextDiscovery
  <1> QED
    BY <1>2, <1>3, <1>4, PTL DEF Spec, ForeignUntouched

(***************************************************************************)
(* A row is orphaned, and an orphan written off, only by confirmOrphan     *)
(* after a Get that found no machine, and the machine is still gone when   *)
(* the transaction commits; an orphan under a lease is never written off.  *)
(***************************************************************************)
THEOREM OutagesLoseNothing == Spec => OutageLosesNothing
  <1>1. ASSUME DiscoveryInv, [Next]_vars, NEW r \in Rows
        PROVE  /\ (row[r].phase # "orphaned" /\ row'[r].phase = "orphaned") => ~Exists(row[r].ext)
               /\ (row[r].phase = "orphaned" /\ row'[r].phase = "gone")
                  => (~Exists(row[r].ext) /\ r \notin leased)
    <2>1. CASE ~Confirm
      BY <1>1, <2>1, NextQuiet DEF Quiet
    <2>2. CASE Confirm
      <3>1. ConfirmStep(sweep.at)
        BY <1>1, <2>2, SweepEffects DEF DiscoveryInv
      <3>2. sweep.pc = "confirm" /\ sweep.at \in Rows
        BY <1>1, <2>2 DEF Confirm, DiscoveryInv, TypeInv
      <3>3. machine[row[sweep.at].ext] = "gone"
        BY <1>1, <3>2 DEF DiscoveryInv, ReadInv
      <3>4. ~Exists(row[sweep.at].ext)
        BY <3>3 DEF Exists
      <3>5. \/ UNCHANGED row
            \/ /\ \A q \in Rows : q # sweep.at => row'[q] = row[q]
               /\ row[sweep.at].phase = "orphaned" => sweep.at \notin leased
        BY <3>1 DEF ConfirmStep, WritesPhase, Others
      <3> QED
        BY <3>4, <3>5
    <2> QED
      BY <2>1, <2>2
  <1>2. DiscoveryInv /\ [Next]_vars =>
          [\A r \in Rows :
             /\ (row[r].phase # "orphaned" /\ row'[r].phase = "orphaned") => ~Exists(row[r].ext)
             /\ (row[r].phase = "orphaned" /\ row'[r].phase = "gone")
                => (~Exists(row[r].ext) /\ r \notin leased)]_vars
    BY <1>1, Zenon
  <1>3. Init => DiscoveryInv
    BY InitDiscovery
  <1>4. DiscoveryInv /\ [Next]_vars => DiscoveryInv'
    BY NextDiscovery
  <1> QED
    BY <1>2, <1>3, <1>4, PTL DEF Spec, OutageLosesNothing
=============================================================================
