--------------------------- MODULE ReclaimProofs ---------------------------
(***************************************************************************)
(* What the sweep of Reclaim promises, for every number of rows and        *)
(* acquisitions, every class and every sweep interval.                     *)
(***************************************************************************)
EXTENDS Reclaim, BillingProofs

(* The phases of a row.                                                    *)
RowPhases == {"none", "ready", "allocated", "draining", "parking", "parked",
              "starting", "deleting", "gone"}

(* The local variables of a sweep.                                         *)
SweepTypes == [on : BOOLEAN, todo : SUBSET Rows, snap : [Rows -> RowPhases],
               unmatched : SUBSET Acqs, budget : Int, cost : Int]

(* The type invariant.                                                     *)
TypeInv ==
    /\ now \in Nat /\ class \in Classes
    /\ phase \in [Rows -> RowPhases]
    /\ created \in [Rows -> Nat] /\ since \in [Rows -> Nat] /\ op \in [Rows -> Nat]
    /\ protected \in SUBSET Rows
    /\ leases \in [Rows -> SUBSET [by : Acqs, start : Nat, end : Nat]]
    /\ acq \in [Acqs -> {"new", "pending", "bound", "done"}]
    /\ deadline \in [Acqs -> Nat]
    /\ cache \in [buffer : Nat, at : Int]
    /\ lastSweep \in Nat
    /\ sweep \in SweepTypes

(* Nothing happened before the machine was created; sweeps are never more  *)
(* than an interval ago, and the clock stands still while one runs.        *)
TimeInv ==
    /\ 1 <= now
    /\ \A r \in Rows : /\ created[r] <= now
                       /\ phase[r] = "deleting" => created[r] <= op[r]
                       /\ phase[r] = "ready" => created[r] <= since[r]
    /\ lastSweep <= now /\ now <= lastSweep + Interval_
    /\ sweep.on => lastSweep = now

(* What a sweep found unmatched was in the queue when it began; only an    *)
(* acquisition that was served has leases.                                 *)
Served == {"bound", "done"}
AskedInv ==
    /\ \A a \in sweep.unmatched : Wants(a, lastSweep)
    /\ \A r \in Rows : \A l \in leases[r] : acq[l.by] \in Served

(* The phases in which no lease of a machine is active.                    *)
Leaseless == {"none", "ready", "parking", "parked", "starting"}
LeaselessInv == \A r \in Rows : phase[r] \in Leaseless => Active(r) = {}

(* The sweep's own budget covers all rows, so it is not used up while rows *)
(* are left to visit.                                                      *)
BudgetSuffices == IsFiniteSet(Rows) /\ Cardinality(Rows) <= CostBudget
CostInv == BudgetSuffices => Cardinality(sweep.todo) <= sweep.cost

(* A machine that the sweep may take, as WindowMet speaks of it.           *)
Reclaimable(r) ==
    /\ phase[r] = "ready" /\ r \notin protected /\ class.idleAfter > 0
    /\ class.billing.increment > 0 /\ ~class.adaptive

(* Some acquisition was in the queue since the last sweep began.           *)
Wanted == \E a \in Acqs : Wants(a, lastSweep)

(* The last sweep has still to visit it, or did not find it due, or found  *)
(* it outside of its window.                                               *)
LeftAlone(r) ==
    \/ sweep.on /\ r \in sweep.todo /\ sweep.snap[r] = "ready"
    \/ lastSweep < since[r] + class.idleAfter
    \/ Decide(Window(NextBoundary(created[r], class.billing, lastSweep), Base), lastSweep)
          # "terminate"
LeftAloneInv ==
    BudgetSuffices => \A r \in Rows : Reclaimable(r) => LeftAlone(r) \/ Wanted

(* A sweep falls between the boundary before and the cutoff: the increment *)
(* is not shorter than half of the buffer and an interval.                 *)
WindowFits == class.billing.increment >= Base \div 2 + Interval_

(* The inductive invariant.                                                *)
ReclaimInv ==
    TypeInv /\ TimeInv /\ AskedInv /\ LeaselessInv /\ CostInv /\ LeftAloneInv

-----------------------------------------------------------------------------
(* What the constants and the class say of the buffer *)

(* The class has the types that its assumption states, and half of the     *)
(* buffer is at least an interval.                                         *)
LEMMA ClassType ==
    ASSUME class \in Classes
    PROVE  /\ class.billing \in Policy /\ class.idleAfter \in Nat
           /\ class.billing.increment \in Nat /\ class.billing.minimum \in Nat
           /\ Interval_ \in Nat \ {0} /\ Base \in Nat /\ Base >= 2 * Interval_
           /\ Base - Base \div 2 >= Interval_ /\ Base \div 2 \in Nat
           /\ Base \div 2 >= 1
  <1>1. class.billing \in Policy /\ class.idleAfter \in Nat
    BY ClassesAssumption
  <1>2. Interval_ \in Nat \ {0} /\ Slack \in Nat
    BY TimesAssumption
  <1>3. Base \in Nat /\ Base >= 2 * Interval_ + Slack
    BY <1>1, <1>2, BufferFloor DEF Base
  <1>4. class.billing.increment \in Nat /\ class.billing.minimum \in Nat
    BY <1>1 DEF Policy
  <1>5. /\ Base \div 2 \in Nat /\ 2 * (Base \div 2) <= Base
        /\ Base <= 2 * (Base \div 2) + 1
    BY <1>3, Half
  <1> HIDE DEF Base
  <1> QED
    BY <1>1, <1>2, <1>3, <1>4, <1>5

(* A sweep computes with a buffer that is a whole number and not below the *)
(* floor.                                                                  *)
LEMMA CacheType ==
    ASSUME TypeInv, NEW c \in Caches
    PROVE  /\ c \in [buffer : Nat, at : Int]
           /\ BufferOf(c) \in Nat /\ BufferOf(c) >= Base
           /\ ~class.adaptive => BufferOf(c) = Base
  <1>1. /\ class \in Classes /\ cache \in [buffer : Nat, at : Int] /\ now \in Nat
    BY DEF TypeInv
  <1>2. class.billing.increment \in Nat /\ Base \in Nat /\ Margin \in Nat
        /\ Observations \subseteq Seq(Nat)
    BY <1>1, ClassType, TimesAssumption
  <1>3. class.billing.increment \div 2 \in Nat
    BY <1>2
  <1> HIDE DEF Base
  <1>4. ASSUME NEW o \in Observations
        PROVE  Fresh(o) \in [buffer : Nat, at : Int]
    <2>1. AdaptiveBuffer(o, Base, Margin, class.billing.increment \div 2) \in Nat
      BY <1>2, <1>3, AdaptiveBufferType
    <2> QED
      BY <1>1, <2>1 DEF Fresh
  <1>5. c \in [buffer : Nat, at : Int]
    <2>1. c = cache \/ \E o \in Observations : c = Fresh(o)
      BY DEF Caches
    <2> QED
      BY <1>1, <1>4, <2>1
  <1>6. c.buffer \in Nat
    BY <1>5
  <1> QED
    BY <1>2, <1>5, <1>6 DEF BufferOf

-----------------------------------------------------------------------------
(* What each kind of step leaves alone *)

(* The row as far as LeftAlone looks at it.                                *)
Same(r) == phase'[r] = phase[r] /\ created'[r] = created[r] /\ since'[r] = since[r]

(* A step of the machines and callers around the sweep: whatever becomes   *)
(* ready does so now.                                                      *)
OutsideStep ==
    /\ UNCHANGED <<now, class, protected, cache, lastSweep, sweep>>
    /\ \A r \in Rows : /\ phase'[r] = "ready" => (Same(r) \/ since'[r] = now)
                       /\ created'[r] = created[r] \/ created'[r] = now \/ created'[r] = 0
                       /\ phase'[r] = "deleting" =>
                            (phase[r] = "deleting" /\ op'[r] = op[r] /\ created'[r] = created[r])
    /\ \A a \in Acqs : acq[a] \in Served => acq'[a] \in Served
    /\ \A r \in Rows : \A l \in leases'[r] :
          acq'[l.by] \in Served \/ \E k \in leases[r] : k.by = l.by

(* The type invariant holds initially.                                     *)
LEMMA TypeInit == Init => TypeInv
  <1> SUFFICES ASSUME Init PROVE TypeInv
    OBVIOUS
  <1>1. CacheFor \in Nat
    BY TimesAssumption
  <1>2. cache \in [buffer : Nat, at : Int]
    BY <1>1 DEF Init, NoCache
  <1>3. sweep \in SweepTypes
    BY DEF Init, NoSweep, RowPhases, SweepTypes
  <1>4. now \in Nat /\ class \in Classes /\ protected \in SUBSET Rows /\ lastSweep \in Nat
    BY DEF Init
  <1>5. /\ phase \in [Rows -> RowPhases] /\ created \in [Rows -> Nat]
        /\ since \in [Rows -> Nat] /\ op \in [Rows -> Nat]
        /\ leases \in [Rows -> SUBSET [by : Acqs, start : Nat, end : Nat]]
        /\ acq \in [Acqs -> {"new", "pending", "bound", "done"}]
        /\ deadline \in [Acqs -> Nat]
    BY DEF Init, RowPhases
  <1> QED
    BY <1>2, <1>3, <1>4, <1>5 DEF TypeInv

(* Types of the variables that a step of the outside changes.              *)
RowType ==
    /\ phase \in [Rows -> RowPhases]
    /\ created \in [Rows -> Nat] /\ since \in [Rows -> Nat] /\ op \in [Rows -> Nat]
    /\ leases \in [Rows -> SUBSET [by : Acqs, start : Nat, end : Nat]]
    /\ acq \in [Acqs -> {"new", "pending", "bound", "done"}]
    /\ deadline \in [Acqs -> Nat]

(* A step that only changes rows, leases and acquisitions keeps the types. *)
LEMMA OutsideType ==
    ASSUME TypeInv, UNCHANGED <<now, class, protected, cache, lastSweep, sweep>>, RowType'
    PROVE  TypeInv'
  BY DEF TypeInv, RowType

(* Every step of the machines and callers is such a step.                  *)
LEMMA OutsideSteps ==
    ASSUME TypeInv, Others
    PROVE  OutsideStep /\ RowType'
  <1>1. now \in Nat /\ RowType
    BY DEF TypeInv, RowType
  <1> USE DEF RowPhases, Served
  <1>2. ASSUME NEW r \in Rows, Provision(r)
        PROVE  OutsideStep /\ RowType'
    BY <1>1, <1>2 DEF Provision, OutsideStep, RowType, Same
  <1>3. ASSUME NEW r \in Rows, BecomeReady(r)
        PROVE  OutsideStep /\ RowType'
    BY <1>1, <1>3 DEF BecomeReady, OutsideStep, RowType, Same
  <1>4. ASSUME NEW r \in Rows, BecomeParked(r)
        PROVE  OutsideStep /\ RowType'
    BY <1>1, <1>4 DEF BecomeParked, SetPhase, OutsideStep, RowType, Same
  <1>5. ASSUME NEW r \in Rows, BecomeGone(r)
        PROVE  OutsideStep /\ RowType'
    BY <1>1, <1>5 DEF BecomeGone, SetPhase, OutsideStep, RowType, Same
  <1>6. ASSUME NEW r \in Rows, Drain(r)
        PROVE  OutsideStep /\ RowType'
    BY <1>1, <1>6 DEF Drain, SetPhase, OutsideStep, RowType, Same
  <1>7. ASSUME NEW r \in Rows, Start(r)
        PROVE  OutsideStep /\ RowType'
    BY <1>1, <1>7 DEF Start, SetPhase, OutsideStep, RowType, Same
  <1>8. ASSUME NEW a \in Acqs, Enqueue(a)
        PROVE  OutsideStep /\ RowType'
    <2>1. MaxWait \in Nat
      BY TimesAssumption
    <2> QED
      BY <1>1, <1>8, <2>1 DEF Enqueue, rowVars, OutsideStep, RowType, Same
  <1>9. ASSUME NEW a \in Acqs, NEW r \in Rows, Bind(a, r)
        PROVE  OutsideStep /\ RowType'
    BY <1>1, <1>9 DEF Bind, SetPhase, OutsideStep, RowType, Same
  <1>10. ASSUME NEW a \in Acqs, NEW r \in Rows, Release(a, r)
         PROVE  OutsideStep /\ RowType'
    BY <1>1, <1>10 DEF Release, Active, OutsideStep, RowType, Same
  <1> QED
    BY <1>2, <1>3, <1>4, <1>5, <1>6, <1>7, <1>8, <1>9, <1>10, Zenon DEF Others

(* An acquisition that was in the queue at the time t or later stays so,   *)
(* also when it is bound and when its lease ends.                          *)
LEMMA WantsStays ==
    ASSUME TypeInv, AskedInv, [Next]_vars, NEW a \in Acqs, NEW t \in Nat, t <= now,
           Wants(a, t)
    PROVE  Wants(a, t)'
  <1>1. /\ now \in Nat /\ deadline \in [Acqs -> Nat]
        /\ acq \in [Acqs -> {"new", "pending", "bound", "done"}]
    BY DEF TypeInv
  <1>2. CASE UNCHANGED <<now, acq, deadline>>
    BY <1>2, Zenon DEF Wants, Queued
  <1>3. CASE Tick
    <2>1. now' = now + 1 /\ UNCHANGED <<acq, deadline>>
      BY <1>3, Zenon DEF Tick
    <2> QED
      BY <1>1, <2>1 DEF Wants, Queued
  <1>4. ASSUME NEW b \in Acqs, Enqueue(b)
        PROVE  Wants(a, t)'
    <2>1. b # a
      BY <1>4 DEF Enqueue, Wants
    <2> QED
      BY <1>1, <1>4, <2>1 DEF Enqueue, Wants, Queued
  <1>5. ASSUME NEW b \in Acqs, NEW r \in Rows, Bind(b, r)
        PROVE  Wants(a, t)'
    <2>1. CASE b = a
      BY <1>1, <1>5, <2>1 DEF Bind, Wants, Queued
    <2>2. CASE b # a
      BY <1>1, <1>5, <2>2 DEF Bind, Wants, Queued
    <2> QED
      BY <2>1, <2>2
  <1>6. ASSUME NEW b \in Acqs, NEW r \in Rows, Release(b, r)
        PROVE  Wants(a, t)'
    <2>1. CASE b = a
      <3>1. a \notin Queued
        BY <1>6, <2>1 DEF Release, Active, AskedInv, Served, Queued
      <3> QED
        BY <1>1, <1>6, <2>1, <3>1 DEF Release, Wants
    <2>2. CASE b # a
      BY <1>1, <1>6, <2>2 DEF Release, Wants, Queued
    <2> QED
      BY <2>1, <2>2
  <1>7. ASSUME NEW r \in Rows, \/ Provision(r) \/ BecomeReady(r) \/ BecomeParked(r)
                                \/ BecomeGone(r) \/ Drain(r) \/ Start(r)
        PROVE  UNCHANGED <<now, acq, deadline>>
    BY <1>7, Zenon DEF Provision, BecomeReady, BecomeParked, BecomeGone, Drain, Start
  <1>8. CASE Others
    BY <1>2, <1>4, <1>5, <1>6, <1>7, <1>8, Zenon DEF Others
  <1>9. ASSUME StartSweep \/ ReclaimPoolless \/ EndSweep \/ UNCHANGED vars
        PROVE  UNCHANGED <<now, acq, deadline>>
    BY <1>9, Zenon DEF StartSweep, ReclaimPoolless, EndSweep, vars
  <1> QED
    BY <1>2, <1>3, <1>8, <1>9, Zenon DEF Next

(* So an acquisition that asked since the last sweep began stays one until *)
(* the next begins.                                                        *)
LEMMA WantedStays ==
    ASSUME TypeInv, TimeInv, AskedInv, [Next]_vars, lastSweep' = lastSweep, Wanted
    PROVE  Wanted'
  <1>1. PICK a \in Acqs : Wants(a, lastSweep)
    BY DEF Wanted
  <1>2. PICK t \in Nat : t = lastSweep
    BY DEF TypeInv
  <1>3. t <= now /\ Wants(a, t)
    BY <1>1, <1>2 DEF TimeInv
  <1>4. Wants(a, t)'
    BY <1>3, WantsStays
  <1> QED
    BY <1>2, <1>4, Zenon DEF Wanted

(* Machines and callers keep a machine without active leases in the phases *)
(* that stand for that.                                                    *)
LEMMA OutsideLeaseless ==
    ASSUME TypeInv, TimeInv, LeaselessInv, Others
    PROVE  LeaselessInv'
  <1>1. /\ now \in Nat /\ 1 <= now
        /\ phase \in [Rows -> RowPhases]
        /\ leases \in [Rows -> SUBSET [by : Acqs, start : Nat, end : Nat]]
    BY DEF TypeInv, TimeInv
  <1>2. ASSUME NEW r \in Rows, \/ Provision(r) \/ BecomeReady(r) \/ BecomeParked(r)
                                \/ Drain(r) \/ Start(r)
        PROVE  LeaselessInv'
    <2>1. leases' = leases
      BY <1>2, Zenon DEF Provision, BecomeReady, BecomeParked, Drain, Start
    <2>2. \A q \in Rows : phase'[q] \in Leaseless => phase[q] \in Leaseless
      BY <1>1, <1>2 DEF Provision, BecomeReady, BecomeParked, Drain, Start, SetPhase,
         Leaseless
    <2> QED
      BY <2>1, <2>2 DEF LeaselessInv, Active
  <1>3. ASSUME NEW r \in Rows, BecomeGone(r)
        PROVE  LeaselessInv'
    BY <1>1, <1>3 DEF BecomeGone, SetPhase, LeaselessInv, Leaseless, Active
  <1>4. ASSUME NEW a \in Acqs, Enqueue(a)
        PROVE  LeaselessInv'
    BY <1>4 DEF Enqueue, rowVars, LeaselessInv, Active
  <1>5. ASSUME NEW a \in Acqs, NEW r \in Rows, Bind(a, r)
        PROVE  LeaselessInv'
    BY <1>1, <1>5 DEF Bind, SetPhase, LeaselessInv, Leaseless, Active
  <1>6. ASSUME NEW a \in Acqs, NEW r \in Rows, Release(a, r)
        PROVE  LeaselessInv'
    <2> SUFFICES ASSUME NEW q \in Rows, phase'[q] \in Leaseless
                 PROVE  Active(q)' = {}
      BY DEF LeaselessInv
    <2>1. PICK l \in Active(r) :
             /\ leases' = [leases EXCEPT ![r] = (@ \ {l}) \cup {[l EXCEPT !.end = now]}]
             /\ phase' = [phase EXCEPT ![r] =
                            IF @ = "allocated" /\ Active(r) = {l} THEN "ready" ELSE @]
      BY <1>6, Zenon DEF Release
    <2>2. CASE q # r
      BY <1>1, <2>1, <2>2 DEF LeaselessInv, Active
    <2>3. CASE q = r
      <3>1. phase[r] \notin Leaseless
        BY <2>1 DEF LeaselessInv
      <3>2. Active(r) = {l}
        BY <1>1, <2>1, <2>3, <3>1
      <3>3. [l EXCEPT !.end = now].end # 0
        BY <1>1, <2>1 DEF Active
      <3>4. leases'[r] = (leases[r] \ {l}) \cup {[l EXCEPT !.end = now]}
        BY <1>1, <2>1
      <3> QED
        BY <2>3, <3>2, <3>3, <3>4 DEF Active
    <2> QED
      BY <2>2, <2>3
  <1> QED
    BY <1>2, <1>3, <1>4, <1>5, <1>6, Zenon DEF Others

(* What a visit changes of the sweep.                                      *)
Visiting(r) ==
    /\ sweep'.on = sweep.on /\ sweep'.todo = sweep.todo \ {r} /\ sweep'.snap = sweep.snap
    /\ sweep'.unmatched \subseteq sweep.unmatched
    /\ sweep'.budget \in Int /\ sweep'.cost \in Int /\ sweep'.cost >= sweep.cost - 1
    /\ sweep' \in SweepTypes

(* A visit takes its row off the list and spends at most one reclaim.      *)
LEMMA VisitedVisits ==
    ASSUME sweep \in SweepTypes, NEW r \in Rows, NEW spent \in Int, NEW cost \in {0, 1},
           Visited(r, spent, cost)
    PROVE  Visiting(r)
  <1>1. sweep' = [sweep EXCEPT !.todo = @ \ {r}, !.budget = @ - spent, !.cost = @ - cost]
    BY Zenon DEF Visited
  <1>2. sweep'.on = sweep.on
    BY <1>1, Zenon DEF SweepTypes
  <1>3. /\ sweep'.todo = sweep.todo \ {r} /\ sweep'.snap = sweep.snap
        /\ sweep'.unmatched = sweep.unmatched
        /\ sweep'.budget = sweep.budget - spent /\ sweep'.cost = sweep.cost - cost
    BY <1>1 DEF SweepTypes
  <1>4. sweep.budget \in Int /\ sweep.cost \in Int
    BY DEF SweepTypes
  <1>5. sweep' \in SweepTypes
    <2> DEFINE todo == sweep.todo \ {r}
               budget == sweep.budget - spent
               left == sweep.cost - cost
    <2>1. todo \in SUBSET Rows /\ budget \in Int /\ left \in Int
      BY <1>4 DEF SweepTypes
    <2>2. sweep' = [sweep EXCEPT !.todo = todo, !.budget = budget, !.cost = left]
      BY <1>1
    <2> HIDE DEF todo, budget, left
    <2> QED
      BY <2>1, <2>2 DEF SweepTypes
  <1> QED
    BY <1>2, <1>3, <1>4, <1>5 DEF Visiting

(* So does the claim of a queued acquisition, which leaves the row alone.  *)
LEMMA ClaimVisits ==
    ASSUME sweep \in SweepTypes, NEW r \in Rows, Claim(r)
    PROVE  Visiting(r) /\ UNCHANGED rowVars /\ UNCHANGED cache
  <1>1. PICK a \in sweep.unmatched :
           sweep' = [sweep EXCEPT !.todo = @ \ {r}, !.unmatched = @ \ {a}]
    BY Zenon DEF Claim
  <1>2. sweep'.on = sweep.on
    BY <1>1, Zenon DEF SweepTypes
  <1>3. /\ sweep'.todo = sweep.todo \ {r} /\ sweep'.snap = sweep.snap
        /\ sweep'.unmatched = sweep.unmatched \ {a}
        /\ sweep'.budget = sweep.budget /\ sweep'.cost = sweep.cost
    BY <1>1 DEF SweepTypes
  <1>4. sweep.budget \in Int /\ sweep.cost \in Int
    BY DEF SweepTypes
  <1>5. sweep' \in SweepTypes
    BY <1>1 DEF SweepTypes
  <1>6. UNCHANGED rowVars /\ UNCHANGED cache
    BY Zenon DEF Claim
  <1> QED
    BY <1>2, <1>3, <1>4, <1>5, <1>6 DEF Visiting

(* What a visit does to the rows.                                          *)
Journals(r) ==
    /\ UNCHANGED <<created, protected>>
    /\ phase' \in [Rows -> RowPhases] /\ since' \in [Rows -> Nat] /\ op' \in [Rows -> Nat]
    /\ \A q \in Rows \ {r} : Same(q) /\ op'[q] = op[q]
    /\ \/ Same(r) /\ op'[r] = op[r]
       \/ phase'[r] = "parking" /\ op'[r] = op[r]
       \/ phase'[r] = "deleting" /\ op'[r] = now

(* A delete is journaled now and changes no other row.                     *)
LEMMA DeleteJournals ==
    ASSUME TypeInv, NEW r \in Rows, JournalDeleteInTx(r)
    PROVE  Journals(r) /\ phase'[r] = "deleting"
  BY DEF TypeInv, JournalDeleteInTx, SetPhase, Journals, Same, RowPhases

(* A stop changes no other row.                                            *)
LEMMA StopJournals ==
    ASSUME TypeInv, NEW r \in Rows, JournalStop(r)
    PROVE  Journals(r) /\ phase'[r] = "parking"
  BY DEF TypeInv, JournalStop, SetPhase, Journals, Same, RowPhases

(* A visit that leaves the rows alone.                                     *)
LEMMA QuietJournals ==
    ASSUME TypeInv, NEW r \in Rows, UNCHANGED rowVars
    PROVE  Journals(r) /\ Same(r)
  BY DEF TypeInv, rowVars, Journals, Same

(* A visit of the sweep, summed up.  Machines are taken from ready only in *)
(* the window of the buffer the step computes with, and a machine that is  *)
(* deleted for its idleness passed costReclaim's gate.                     *)
Taken(r) == phase[r] # phase'[r]
VisitStep(r) ==
    /\ sweep.on /\ r \in sweep.todo
    /\ Visiting(r) /\ Journals(r)
    /\ cache' \in [buffer : Nat, at : Int]
    /\ Taken(r) => phase[r] \in {"ready", "parked", "draining"}
    /\ (Taken(r) /\ phase'[r] = "parking") => phase[r] = "ready"
    /\ (phase[r] = "ready" /\ Taken(r)) =>
          (cache' \in Caches /\ InWindow(r, BufferOf(cache')) = "terminate")
    /\ (phase[r] \in {"ready", "parked"} /\ phase'[r] = "deleting") =>
          CostReclaimGate(r, phase[r])

(* Every visit of the three kinds is as summed up.                         *)
LEMMA VisitSteps ==
    ASSUME TypeInv, NEW r \in Rows,
           SweepDraining(r) \/ SweepParked(r) \/ SweepReady(r)
    PROVE  VisitStep(r)
  <1>0. sweep \in SweepTypes /\ cache \in [buffer : Nat, at : Int]
    BY DEF TypeInv, SweepTypes
  <1>1. CASE SweepDraining(r)
    <2>1. sweep.on /\ r \in sweep.todo
      BY <1>1, Zenon DEF SweepDraining, Visit
    <2>2. CASE Skip(r)
      <3>1. Visiting(r) /\ Journals(r) /\ Same(r) /\ cache' = cache
        BY <1>0, <2>2, VisitedVisits, QuietJournals DEF Skip
      <3> QED
        BY <1>0, <2>1, <3>1 DEF VisitStep, Same, Taken
    <2>3. CASE /\ phase[r] = "draining" /\ JournalDeleteInTx(r)
               /\ Visited(r, 1, 0) /\ UNCHANGED cache
      <3>1. Visiting(r) /\ Journals(r) /\ phase'[r] = "deleting" /\ cache' = cache
        BY <1>0, <2>3, VisitedVisits, DeleteJournals
      <3> QED
        BY <1>0, <2>1, <2>3, <3>1 DEF VisitStep
    <2> QED
      BY <1>1, <2>2, <2>3, Zenon DEF SweepDraining
  <1>2. CASE SweepParked(r)
    <2>1. sweep.on /\ r \in sweep.todo
      BY <1>2, Zenon DEF SweepParked, Visit
    <2>2. CASE Skip(r)
      <3>1. Visiting(r) /\ Journals(r) /\ Same(r) /\ cache' = cache
        BY <1>0, <2>2, VisitedVisits, QuietJournals DEF Skip
      <3> QED
        BY <1>0, <2>1, <3>1 DEF VisitStep, Same, Taken
    <2>3. CASE Claim(r)
      <3>1. Visiting(r) /\ Journals(r) /\ Same(r) /\ cache' = cache
        BY <1>0, <2>3, ClaimVisits, QuietJournals
      <3> QED
        BY <1>0, <2>1, <3>1 DEF VisitStep, Same, Taken
    <2>4. CASE /\ CostReclaimGate(r, "parked") /\ JournalDeleteInTx(r)
               /\ Visited(r, 0, 1) /\ UNCHANGED cache
      <3>1. Visiting(r) /\ Journals(r) /\ phase'[r] = "deleting" /\ cache' = cache
        BY <1>0, <2>4, VisitedVisits, DeleteJournals
      <3>2. phase[r] = "parked"
        BY <2>4, Zenon DEF CostReclaimGate
      <3> QED
        BY <1>0, <2>1, <2>4, <3>1, <3>2 DEF VisitStep
    <2> QED
      BY <1>2, <2>2, <2>3, <2>4, Zenon DEF SweepParked
  <1>3. CASE SweepReady(r)
    <2>1. sweep.on /\ r \in sweep.todo
      BY <1>3, Zenon DEF SweepReady, Visit
    <2>2. CASE Skip(r)
      <3>1. Visiting(r) /\ Journals(r) /\ Same(r) /\ cache' = cache
        BY <1>0, <2>2, VisitedVisits, QuietJournals DEF Skip
      <3> QED
        BY <1>0, <2>1, <3>1 DEF VisitStep, Same, Taken
    <2>3. CASE Claim(r)
      <3>1. Visiting(r) /\ Journals(r) /\ Same(r) /\ cache' = cache
        BY <1>0, <2>3, ClaimVisits, QuietJournals
      <3> QED
        BY <1>0, <2>1, <3>1 DEF VisitStep, Same, Taken
    <2>4. CASE \E c \in Caches :
              /\ cache' = c
              /\ IF InWindow(r, BufferOf(c)) = "terminate" THEN Dispose(r)
                 ELSE Visited(r, 0, 0) /\ UNCHANGED rowVars
      <3>1. cache' \in Caches /\ cache' \in [buffer : Nat, at : Int]
        BY <2>4, CacheType
      <3>2. CASE Visited(r, 0, 0) /\ UNCHANGED rowVars
        <4>1. Visiting(r) /\ Journals(r) /\ Same(r)
          BY <1>0, <3>2, VisitedVisits, QuietJournals
        <4> QED
          BY <2>1, <3>1, <4>1 DEF VisitStep, Same, Taken
      <3>3. CASE InWindow(r, BufferOf(cache')) = "terminate" /\ Dispose(r)
        <4>1. CASE Visited(r, 0, 0) /\ UNCHANGED rowVars
          BY <3>2, <4>1
        <4>2. CASE JournalStopGate(r) /\ JournalStop(r) /\ Visited(r, 0, 1)
          <5>1. Visiting(r) /\ Journals(r) /\ phase'[r] = "parking"
            BY <1>0, <4>2, VisitedVisits, StopJournals
          <5>2. phase[r] = "ready"
            BY <4>2, Zenon DEF JournalStopGate
          <5> QED
            BY <2>1, <3>1, <3>3, <5>1, <5>2 DEF VisitStep
        <4>3. CASE CostReclaimGate(r, "ready") /\ JournalDeleteInTx(r) /\ Visited(r, 0, 1)
          <5>1. Visiting(r) /\ Journals(r)
            BY <1>0, <4>3, VisitedVisits, DeleteJournals
          <5>2. phase[r] = "ready"
            BY <4>3, Zenon DEF CostReclaimGate
          <5> QED
            BY <2>1, <3>1, <3>3, <4>3, <5>1, <5>2 DEF VisitStep
        <4> QED
          BY <3>3, <4>1, <4>2, <4>3, Zenon DEF Dispose
      <3> QED
        BY <2>4, <3>2, <3>3, Zenon
    <2> QED
      BY <1>3, <2>2, <2>3, <2>4, Zenon DEF SweepReady
  <1> QED
    BY <1>1, <1>2, <1>3

-----------------------------------------------------------------------------
(* The invariant holds initially and every kind of step keeps it *)

(* The inductive invariant holds initially.                                *)
LEMMA InvInit == Init => ReclaimInv
  <1> SUFFICES ASSUME Init PROVE ReclaimInv
    OBVIOUS
  <1>1. TypeInv
    BY TypeInit
  <1>2. Interval_ \in Nat \ {0}
    BY TimesAssumption
  <1>3. now = 1 /\ lastSweep = 1 /\ sweep = NoSweep /\ \A r \in Rows : phase[r] = "none"
        /\ created[r] = 0 /\ leases[r] = {}
    BY DEF Init
  <1>4. ~sweep.on /\ sweep.unmatched = {} /\ sweep.todo = {} /\ sweep.cost = 0
    BY <1>3 DEF NoSweep
  <1>5. TimeInv /\ AskedInv /\ LeaselessInv
    BY <1>2, <1>3, <1>4 DEF TimeInv, AskedInv, LeaselessInv, Active
  <1>6. CostInv
    BY <1>4, FS_EmptySet DEF CostInv
  <1>7. LeftAloneInv
    BY <1>3 DEF LeftAloneInv, Reclaimable
  <1> QED
    BY <1>1, <1>5, <1>6, <1>7 DEF ReclaimInv

(* Machines and callers: what becomes ready now was not due at the last    *)
(* sweep.                                                                  *)
LEMMA OutsideKeepsInv ==
    ASSUME ReclaimInv, Others
    PROVE  ReclaimInv'
  <1>1. TypeInv /\ TimeInv /\ AskedInv /\ LeaselessInv /\ CostInv /\ LeftAloneInv
    BY DEF ReclaimInv
  <1>2. OutsideStep /\ RowType'
    BY <1>1, OutsideSteps
  <1>3. UNCHANGED <<now, class, protected, cache, lastSweep, sweep>>
    BY <1>2 DEF OutsideStep
  <1>4. TypeInv'
    BY <1>1, <1>2, <1>3, OutsideType
  <1>5. TimeInv'
    <2>1. /\ now \in Nat /\ created \in [Rows -> Nat] /\ created' \in [Rows -> Nat]
          /\ since' \in [Rows -> Nat]
      BY <1>1, <1>4 DEF TypeInv
    <2>2. ASSUME NEW r \in Rows
          PROVE  /\ created'[r] <= now
                 /\ phase'[r] = "deleting" => created'[r] <= op'[r]
                 /\ phase'[r] = "ready" => created'[r] <= since'[r]
      BY <1>1, <1>2, <2>1 DEF TimeInv, OutsideStep, Same
    <2>3. lastSweep' <= now' /\ now' <= lastSweep' + Interval_ /\ 1 <= now'
      BY <1>1, <1>3 DEF TimeInv
    <2>4. sweep'.on => lastSweep' = now'
      BY <1>1, <1>3, Zenon DEF TimeInv
    <2> QED
      BY <1>3, <2>2, <2>3, <2>4 DEF TimeInv
  <1>6. AskedInv' /\ LeaselessInv'
    <2>1. sweep.unmatched \subseteq Acqs /\ \A r \in Rows : \A l \in leases[r] : l.by \in Acqs
      BY <1>1 DEF TypeInv, SweepTypes
    <2>2. ASSUME NEW a \in sweep.unmatched
          PROVE  Wants(a, lastSweep)'
      <3>1. PICK t \in Nat : t = lastSweep
        BY <1>1 DEF TypeInv
      <3>2. t <= now /\ Wants(a, t) /\ a \in Acqs
        BY <1>1, <2>1, <3>1 DEF TimeInv, AskedInv
      <3>3. Wants(a, t)'
        BY <1>1, <3>2, WantsStays DEF Next
      <3> QED
        BY <1>3, <3>1, <3>3, Zenon
    <2>3. \A a \in Acqs : acq[a] \in Served => acq'[a] \in Served
      BY <1>2 DEF OutsideStep
    <2>4. \A r \in Rows : \A l \in leases'[r] :
             acq'[l.by] \in Served \/ \E k \in leases[r] : k.by = l.by
      BY <1>2 DEF OutsideStep
    <2>5. \A r \in Rows : \A l \in leases'[r] : acq'[l.by] \in Served
      BY <1>1, <2>1, <2>3, <2>4 DEF AskedInv
    <2>6. AskedInv'
      BY <1>3, <2>2, <2>5, Zenon DEF AskedInv
    <2> QED
      BY <1>1, <2>6, OutsideLeaseless
  <1>7. CostInv'
    BY <1>1, <1>3, Zenon DEF CostInv, BudgetSuffices
  <1>8. LeftAloneInv'
    <2> SUFFICES ASSUME BudgetSuffices, NEW r \in Rows, Reclaimable(r)', ~Wanted'
                 PROVE  LeftAlone(r)'
      BY DEF LeftAloneInv, BudgetSuffices
    <2>0. ~Wanted
      BY <1>1, <1>3, WantedStays DEF Next
    <2>1. /\ phase'[r] = "ready" /\ r \notin protected /\ class.idleAfter > 0
          /\ class.billing.increment > 0 /\ ~class.adaptive
      BY <1>3, Zenon DEF Reclaimable
    <2>2. CASE Same(r)
      <3>1. Reclaimable(r)
        BY <2>1, <2>2, Zenon DEF Reclaimable, Same
      <3>2. LeftAlone(r)
        BY <1>1, <2>0, <3>1 DEF LeftAloneInv
      <3> QED
        BY <1>3, <2>2, <3>2, Zenon DEF LeftAlone, Same, Base
    <2>3. CASE since'[r] = now
      <3>1. lastSweep' < since'[r] + class'.idleAfter
        <4>1. lastSweep \in Nat /\ now \in Nat /\ lastSweep <= now /\ class \in Classes
          BY <1>1 DEF TypeInv, TimeInv
        <4>2. class.idleAfter \in Nat
          BY <4>1, ClassType
        <4> QED
          BY <1>3, <2>1, <2>3, <4>1, <4>2
      <3> QED
        BY <3>1, Zenon DEF LeftAlone
    <2> QED
      BY <1>2, <2>1, <2>2, <2>3 DEF OutsideStep
  <1> QED
    BY <1>4, <1>5, <1>6, <1>7, <1>8 DEF ReclaimInv

(* A stuttering step.                                                      *)
LEMMA StutterKeepsInv ==
    ASSUME ReclaimInv, UNCHANGED vars
    PROVE  ReclaimInv'
  <1>1. /\ UNCHANGED <<now, class, phase, created, since, op, protected, leases, acq, deadline>>
        /\ UNCHANGED <<cache, lastSweep, sweep>>
    BY Zenon DEF vars, rowVars
  <1> QED
    BY <1>1, Zenon DEF ReclaimInv, TypeInv, TimeInv, AskedInv, LeaselessInv, Active, CostInv,
       BudgetSuffices, LeftAloneInv, Reclaimable, Wanted, Wants, Queued, LeftAlone, Base

(* The clock moves only between sweeps, and not beyond the next one.       *)
LEMMA TickKeepsInv ==
    ASSUME ReclaimInv, Tick
    PROVE  ReclaimInv'
  <1>1. TypeInv /\ TimeInv /\ AskedInv /\ LeaselessInv /\ CostInv /\ LeftAloneInv
    BY DEF ReclaimInv
  <1>2. /\ UNCHANGED <<class, phase, created, since, op, protected, leases, acq, deadline>>
        /\ UNCHANGED <<cache, lastSweep, sweep>>
        /\ ~sweep.on /\ now < lastSweep + Interval_ /\ now' = now + 1
    BY Zenon DEF Tick, rowVars
  <1>3. now \in Nat /\ lastSweep \in Nat /\ created \in [Rows -> Nat] /\ Interval_ \in Nat
    BY <1>1, TimesAssumption DEF TypeInv
  <1>4. now' \in Nat /\ now' <= lastSweep + Interval_ /\ now <= now' /\ 1 <= now'
    BY <1>2, <1>3
  <1>5. TypeInv'
    BY <1>1, <1>2, <1>4, Zenon DEF TypeInv
  <1>6. TimeInv'
    <2>1. \A r \in Rows : created[r] <= now' /\ lastSweep <= now'
      BY <1>1, <1>3, <1>4 DEF TimeInv
    <2>2. lastSweep <= now'
      BY <1>1, <1>3, <1>4 DEF TimeInv
    <2> QED
      BY <1>1, <1>2, <1>4, <2>1, <2>2, Zenon DEF TimeInv
  <1>7. AskedInv'
    <2>1. ASSUME NEW a \in sweep.unmatched
          PROVE  Wants(a, lastSweep)'
      <3>1. PICK t \in Nat : t = lastSweep
        BY <1>3
      <3>2. t <= now /\ Wants(a, t) /\ a \in Acqs
        BY <1>1, <3>1 DEF TimeInv, AskedInv, TypeInv, SweepTypes
      <3>3. Wants(a, t)'
        BY <1>1, <3>2, WantsStays DEF Next
      <3> QED
        BY <1>2, <3>1, <3>3, Zenon
    <2> QED
      BY <1>1, <1>2, <2>1, Zenon DEF AskedInv
  <1>8. LeaselessInv' /\ CostInv'
    BY <1>1, <1>2, Zenon DEF LeaselessInv, Active, CostInv, BudgetSuffices
  <1>9. LeftAloneInv'
    <2>1. Wanted => Wanted'
      BY <1>1, <1>2, WantedStays DEF Next
    <2> QED
      BY <1>1, <1>2, <2>1, Zenon DEF LeftAloneInv, BudgetSuffices, Reclaimable, LeftAlone, Base
  <1> QED
    BY <1>5, <1>6, <1>7, <1>8, <1>9 DEF ReclaimInv

(* A sweep begins: every machine is on its list or not due.                *)
LEMMA StartSweepKeepsInv ==
    ASSUME ReclaimInv, StartSweep
    PROVE  ReclaimInv'
  <1>1. TypeInv /\ TimeInv /\ AskedInv /\ LeaselessInv /\ CostInv /\ LeftAloneInv
    BY DEF ReclaimInv
  <1> DEFINE todo == In({"draining"})
                       \cup {r \in In({"ready", "parked"}) : Due(r) /\ r \notin protected}
  <1>2. /\ UNCHANGED <<now, class, phase, created, since, op, protected, leases, acq, deadline>>
        /\ UNCHANGED cache
        /\ lastSweep' = now
        /\ sweep' = [on |-> TRUE, todo |-> todo, snap |-> phase, unmatched |-> Queued,
                     budget |-> Budget, cost |-> CostBudget]
    BY Zenon DEF StartSweep, rowVars
  <1>3. /\ sweep'.on /\ sweep'.todo = todo /\ sweep'.snap = phase
        /\ sweep'.unmatched = Queued /\ sweep'.cost = CostBudget
    BY <1>2
  <1>4. Budget \in Int /\ CostBudget \in Nat /\ Interval_ \in Nat
    BY TimesAssumption
  <1>5. todo \subseteq Rows /\ Queued \subseteq Acqs
    BY DEF In, Queued
  <1> HIDE DEF todo
  <1>6. TypeInv'
    <2>1. sweep' \in SweepTypes
      BY <1>1, <1>2, <1>4, <1>5 DEF TypeInv, SweepTypes
    <2> QED
      BY <1>1, <1>2, <2>1, Zenon DEF TypeInv
  <1>7. TimeInv'
    <2>1. now \in Nat
      BY <1>1 DEF TypeInv
    <2>2. now <= now /\ now <= now + Interval_
      BY <1>4, <2>1
    <2> QED
      BY <1>1, <1>2, <2>2, Zenon DEF TimeInv
  <1>8. AskedInv' /\ LeaselessInv'
    <2>1. \A a \in Queued : Wants(a, now)'
      BY <1>2, Zenon DEF Wants, Queued
    <2>2. AskedInv'
      BY <1>1, <1>2, <1>3, <2>1, Zenon DEF AskedInv
    <2> QED
      BY <1>1, <1>2, <2>2, Zenon DEF LeaselessInv, Active
  <1>9. CostInv'
    <2> SUFFICES ASSUME BudgetSuffices PROVE Cardinality(todo) <= CostBudget
      BY <1>3 DEF CostInv, BudgetSuffices
    <2>1. /\ Cardinality(todo) <= Cardinality(Rows)
          /\ Cardinality(todo) \in Nat /\ Cardinality(Rows) \in Nat
      BY <1>5, FS_Subset, FS_CardinalityType DEF BudgetSuffices
    <2> QED
      BY <1>4, <2>1 DEF BudgetSuffices
  <1>10. LeftAloneInv'
    <2> SUFFICES ASSUME NEW r \in Rows, Reclaimable(r)'
                 PROVE  LeftAlone(r)'
      BY DEF LeftAloneInv, BudgetSuffices
    <2>1. phase[r] = "ready" /\ r \notin protected /\ class.idleAfter > 0
      BY <1>2, Zenon DEF Reclaimable
    <2>2. CASE Due(r)
      <3>1. r \in todo
        BY <2>1, <2>2 DEF todo, In
      <3> QED
        BY <1>3, <2>1, <3>1, Zenon DEF LeftAlone
    <2>3. CASE ~Due(r)
      <3>1. since[r] \in Nat /\ now \in Nat /\ class \in Classes
        BY <1>1 DEF TypeInv
      <3>2. class.idleAfter \in Nat
        BY <3>1, ClassType
      <3>3. ~(now - since[r] >= class.idleAfter)
        BY <2>1, <2>3, Zenon DEF Due
      <3>4. now < since[r] + class.idleAfter
        BY <3>1, <3>2, <3>3
      <3> QED
        BY <1>2, <3>4, Zenon DEF LeftAlone
    <2> QED
      BY <2>2, <2>3
  <1> QED
    BY <1>6, <1>7, <1>8, <1>9, <1>10 DEF ReclaimInv

(* A sweep ends when it has visited all of its list.                       *)
LEMMA EndSweepKeepsInv ==
    ASSUME ReclaimInv, EndSweep
    PROVE  ReclaimInv'
  <1>1. TypeInv /\ TimeInv /\ AskedInv /\ LeaselessInv /\ CostInv /\ LeftAloneInv
    BY DEF ReclaimInv
  <1>2. /\ UNCHANGED <<now, class, phase, created, since, op, protected, leases, acq, deadline>>
        /\ UNCHANGED <<cache, lastSweep>>
        /\ sweep.todo = {} /\ sweep' = NoSweep
    BY Zenon DEF EndSweep, rowVars
  <1>3. ~sweep'.on /\ sweep'.unmatched = {} /\ sweep'.todo = {} /\ sweep'.cost = 0
    BY <1>2 DEF NoSweep
  <1>4. TypeInv'
    <2>1. sweep' \in SweepTypes
      BY <1>2 DEF NoSweep, RowPhases, SweepTypes
    <2> QED
      BY <1>1, <1>2, <2>1, Zenon DEF TypeInv
  <1>5. TimeInv'
    BY <1>1, <1>2, <1>3, Zenon DEF TimeInv
  <1>6. AskedInv' /\ LeaselessInv'
    BY <1>1, <1>2, <1>3, Zenon DEF AskedInv, LeaselessInv, Active
  <1>7. CostInv'
    BY <1>3, FS_EmptySet DEF CostInv
  <1>8. LeftAloneInv'
    <2>1. \A r \in Rows : LeftAlone(r) => LeftAlone(r)'
      BY <1>2, Zenon DEF LeftAlone, Base
    <2>2. \A r \in Rows : (Reclaimable(r)' => Reclaimable(r)) /\ (Wanted => Wanted')
      BY <1>2, Zenon DEF Reclaimable, Wanted, Wants, Queued
    <2> QED
      BY <1>1, <2>1, <2>2, Zenon DEF LeftAloneInv, BudgetSuffices
  <1> QED
    BY <1>4, <1>5, <1>6, <1>7, <1>8 DEF ReclaimInv

(* The sweep visits a machine while nobody is or was in the queue: it      *)
(* takes it, or the machine is not in its window.                          *)
LEMMA VisitTakes ==
    ASSUME ReclaimInv, BudgetSuffices, NEW r \in Rows, Reclaimable(r), ~Wanted,
           SweepReady(r), Same(r)
    PROVE  Decide(Window(NextBoundary(created[r], class.billing, now), Base), now)
              # "terminate"
  <1>1. TypeInv /\ TimeInv /\ AskedInv /\ LeaselessInv /\ CostInv
    BY DEF ReclaimInv
  <1>2. sweep.on /\ r \in sweep.todo
    BY Zenon DEF SweepReady, Visit
  <1>3. /\ phase[r] = "ready" /\ r \notin protected /\ class.billing.increment > 0
        /\ ~class.adaptive
    BY Zenon DEF Reclaimable
  <1>4. sweep.unmatched = {}
    BY <1>1 DEF AskedInv, TypeInv, SweepTypes, Wanted
  <1>5. sweep.cost # 0
    <2>1. IsFiniteSet(sweep.todo) /\ Cardinality(sweep.todo) \in Nat
      BY <1>1, FS_Subset, FS_CardinalityType DEF TypeInv, SweepTypes, BudgetSuffices
    <2>2. Cardinality(sweep.todo) # 0
      BY <1>2, <2>1, FS_EmptySet
    <2> QED
      BY <1>1, <2>1, <2>2 DEF CostInv
  <1>6. PICK c \in Caches :
           IF InWindow(r, BufferOf(c)) = "terminate" THEN Dispose(r)
           ELSE Visited(r, 0, 0) /\ UNCHANGED rowVars
    BY <1>4, <1>5, Zenon DEF SweepReady
  <1>7. BufferOf(c) = Base
    BY <1>1, <1>3, <1>6, CacheType
  <1>8. ~Dispose(r)
    <2>1. Active(r) = {}
      BY <1>1, <1>3 DEF LeaselessInv, Leaseless
    <2>2. JournalStopGate(r) /\ JournalDeleteGate(r)
      BY <1>3, <2>1 DEF JournalStopGate, JournalDeleteGate
    <2>3. Cardinality(Queued) <= Cardinality(In({"ready"}) \ {r})
      <3>1. Queued = {}
        <4>1. \A a \in Queued : Wants(a, lastSweep)
          BY Zenon DEF Wants, Queued
        <4> QED
          BY <4>1 DEF Wanted, Queued
      <3>2. Cardinality(Queued) = 0
        BY <3>1, FS_EmptySet
      <3>3. In({"ready"}) \ {r} \in SUBSET Rows
        BY DEF In
      <3>4. Cardinality(In({"ready"}) \ {r}) \in Nat
        BY <3>3, FS_Subset, FS_CardinalityType DEF BudgetSuffices
      <3> QED
        BY <3>2, <3>4
    <2>4. CostReclaimGate(r, "ready")
      BY <1>3, <2>2, <2>3, Zenon DEF CostReclaimGate
    <2>5. ~JournalStop(r) /\ ~JournalDeleteInTx(r)
      BY <1>1, <1>3, StopJournals, DeleteJournals DEF Same
    <2> QED
      BY <2>2, <2>4, <2>5, Zenon DEF Dispose
  <1>9. InWindow(r, Base) # "terminate"
    BY <1>6, <1>7, <1>8
  <1> DEFINE b == NextBoundary(created[r], class.billing, now)
  <1>10. ~(FineGrained(class.billing) \/ b = NoBoundary)
    BY <1>9 DEF InWindow
  <1>11. InWindow(r, Base) = Decide(Window(b, Base), now)
    BY <1>10 DEF InWindow
  <1> QED
    BY <1>9, <1>11

(* A visit of the sweep.                                                   *)
LEMMA VisitKeepsInv ==
    ASSUME ReclaimInv, ReclaimPoolless
    PROVE  ReclaimInv'
  <1>1. TypeInv /\ TimeInv /\ AskedInv /\ LeaselessInv /\ CostInv /\ LeftAloneInv
    BY DEF ReclaimInv
  <1>2. PICK r \in Rows : SweepDraining(r) \/ SweepParked(r) \/ SweepReady(r)
    BY Zenon DEF ReclaimPoolless
  <1>3. UNCHANGED <<now, class, leases, acq, deadline, lastSweep>>
    BY Zenon DEF ReclaimPoolless
  <1>4. VisitStep(r)
    BY <1>1, <1>2, VisitSteps
  <1>5. /\ sweep.on /\ r \in sweep.todo /\ Journals(r) /\ Visiting(r)
        /\ cache' \in [buffer : Nat, at : Int]
    BY <1>4, Zenon DEF VisitStep
  <1>6. /\ sweep'.on /\ sweep'.todo = sweep.todo \ {r} /\ sweep'.snap = sweep.snap
        /\ sweep'.unmatched \subseteq sweep.unmatched
        /\ sweep' \in SweepTypes
    BY <1>5, Zenon DEF Visiting
  <1>7. /\ UNCHANGED <<created, protected>>
        /\ phase' \in [Rows -> RowPhases] /\ since' \in [Rows -> Nat]
        /\ op' \in [Rows -> Nat]
        /\ \A q \in Rows \ {r} : Same(q) /\ op'[q] = op[q]
        /\ \/ Same(r) /\ op'[r] = op[r]
           \/ phase'[r] = "parking" /\ op'[r] = op[r]
           \/ phase'[r] = "deleting" /\ op'[r] = now
    BY <1>5, Zenon DEF Journals
  <1>8. TypeInv'
    BY <1>1, <1>3, <1>5, <1>6, <1>7, Zenon DEF TypeInv, SweepTypes
  <1>9. TimeInv'
    <2>1. \A q \in Rows :
             /\ created[q] <= now
             /\ phase'[q] = "deleting" => created[q] <= op'[q]
             /\ phase'[q] = "ready" => created[q] <= since'[q]
      BY <1>1, <1>7 DEF TimeInv, Same
    <2> QED
      BY <1>1, <1>3, <1>5, <1>7, <2>1, Zenon DEF TimeInv
  <1>10. AskedInv' /\ LeaselessInv'
    <2>1. \A a \in sweep'.unmatched : Wants(a, lastSweep)'
      BY <1>1, <1>3, <1>6, Zenon DEF AskedInv, Wants, Queued
    <2>2. AskedInv'
      BY <1>1, <1>3, <2>1, Zenon DEF AskedInv
    <2>3. \A q \in Rows : phase'[q] \in Leaseless => phase[q] \in Leaseless
      BY <1>4, <1>7 DEF VisitStep, Same, Taken, Leaseless
    <2> QED
      BY <1>1, <1>3, <2>2, <2>3, Zenon DEF LeaselessInv, Active
  <1>11. CostInv'
    <2> SUFFICES ASSUME BudgetSuffices PROVE Cardinality(sweep'.todo) <= sweep'.cost
      BY DEF CostInv, BudgetSuffices
    <2>1. IsFiniteSet(sweep.todo)
      BY <1>1, FS_Subset DEF TypeInv, SweepTypes, BudgetSuffices
    <2>2. /\ Cardinality(sweep.todo) \in Nat
          /\ Cardinality(sweep'.todo) = Cardinality(sweep.todo) - 1
      BY <1>5, <1>6, <2>1, FS_RemoveElement, FS_CardinalityType
    <2>3. sweep'.cost \in Int /\ sweep'.cost >= sweep.cost - 1 /\ sweep.cost \in Int
      BY <1>1, <1>5 DEF Visiting, TypeInv, SweepTypes
    <2>4. Cardinality(sweep.todo) <= sweep.cost
      BY <1>1 DEF CostInv
    <2> QED
      BY <2>2, <2>3, <2>4
  <1>12. LeftAloneInv'
    <2> SUFFICES ASSUME BudgetSuffices, NEW q \in Rows, Reclaimable(q)', ~Wanted'
                 PROVE  LeftAlone(q)'
      BY DEF LeftAloneInv, BudgetSuffices
    <2>0. ~Wanted
      BY <1>3, Zenon DEF Wanted, Wants, Queued
    <2>1. phase'[q] = "ready"
      BY Zenon DEF Reclaimable
    <2>2. Same(q)
      BY <1>7, <2>1
    <2>3. Reclaimable(q)
      BY <1>3, <1>7, <2>2, Zenon DEF Reclaimable, Same
    <2>4. LeftAlone(q)
      BY <1>1, <2>0, <2>3 DEF LeftAloneInv
    <2>5. CASE sweep.on /\ q \in sweep.todo /\ sweep.snap[q] = "ready"
      <3>1. CASE q # r
        BY <1>6, <2>5, <3>1, Zenon DEF LeftAlone
      <3>2. CASE q = r
        <4>1. SweepReady(r)
          BY <1>2, <2>5, <3>2 DEF SweepDraining, SweepParked, Visit
        <4>2. Decide(Window(NextBoundary(created[r], class.billing, now), Base), now)
                # "terminate"
          BY <2>0, <2>2, <2>3, <3>2, <4>1, VisitTakes
        <4>3. lastSweep = now
          BY <1>1, <1>5, Zenon DEF TimeInv
        <4> QED
          BY <1>3, <1>7, <3>2, <4>2, <4>3, Zenon DEF LeftAlone, Base
      <3> QED
        BY <3>1, <3>2
    <2>6. CASE ~(sweep.on /\ q \in sweep.todo /\ sweep.snap[q] = "ready")
      <3>1. \/ lastSweep < since[q] + class.idleAfter
            \/ Decide(Window(NextBoundary(created[q], class.billing, lastSweep), Base),
                      lastSweep) # "terminate"
        BY <2>4, <2>6, Zenon DEF LeftAlone
      <3> QED
        BY <1>3, <1>7, <2>2, <3>1, Zenon DEF LeftAlone, Same, Base
    <2> QED
      BY <2>5, <2>6
  <1> QED
    BY <1>8, <1>9, <1>10, <1>11, <1>12 DEF ReclaimInv

(* Every step keeps the inductive invariant.                               *)
LEMMA InvStep == ReclaimInv /\ [Next]_vars => ReclaimInv'
  <1> SUFFICES ASSUME ReclaimInv, [Next]_vars PROVE ReclaimInv'
    OBVIOUS
  <1> QED
    BY TickKeepsInv, StartSweepKeepsInv, VisitKeepsInv, EndSweepKeepsInv, OutsideKeepsInv,
       StutterKeepsInv, Zenon DEF Next

(* The inductive invariant always holds.                                   *)
LEMMA InvAlways == Spec => []ReclaimInv
  BY InvInit, InvStep, PTL DEF Spec

-----------------------------------------------------------------------------
(* Only the sweep takes a machine that is not draining *)

(* A machine that is ready or parked is deleted or stopped only by the     *)
(* visit of a sweep.                                                       *)
LEMMA OnlySweepTakes ==
    ASSUME TypeInv, [Next]_vars, NEW r \in Rows,
           phase[r] \in {"ready", "parked"}, phase'[r] \in {"deleting", "parking"}
    PROVE  /\ VisitStep(r) /\ UNCHANGED <<now, class, leases, acq>>
           /\ UNCHANGED deadline
  <1>1. CASE UNCHANGED phase
    BY <1>1
  <1>2. CASE ReclaimPoolless
    <2>1. PICK q \in Rows : SweepDraining(q) \/ SweepParked(q) \/ SweepReady(q)
      BY <1>2, Zenon DEF ReclaimPoolless
    <2>2. VisitStep(q)
      BY <2>1, VisitSteps
    <2>3. q = r
      <3>1. q # r => phase'[r] = phase[r]
        BY <2>2 DEF VisitStep, Journals, Same
      <3> QED
        BY <3>1
    <2> QED
      BY <1>2, <2>2, <2>3, Zenon DEF ReclaimPoolless
  <1>3. CASE Others
    <2>1. phase \in [Rows -> RowPhases]
      BY DEF TypeInv
    <2>2. phase'[r] # "deleting"
      BY <1>3, OutsideSteps DEF OutsideStep
    <2>3. phase'[r] # "parking"
      BY <1>3, <2>1 DEF Others, Provision, BecomeReady, BecomeParked, BecomeGone, Drain,
         Start, Enqueue, Bind, Release, SetPhase, rowVars
    <2> QED
      BY <2>2, <2>3
  <1> QED
    BY <1>1, <1>2, <1>3, Zenon DEF Next, Tick, StartSweep, EndSweep, vars, rowVars

(* No machine is deleted for its idleness while more acquisitions wait in  *)
(* the queue than ready machines are left (costReclaim's recount in its    *)
(* transaction).                                                           *)
THEOREM QueueIsServedFirst == Spec => QueueKeepsMachines
  <1>1. ASSUME ReclaimInv, [Next]_vars
        PROVE  \A r \in Rows :
                  (phase[r] \in {"ready", "parked"} /\ phase'[r] = "deleting")
                  => Cardinality(Queued) <= Cardinality(In({"ready"})')
    <2> SUFFICES ASSUME NEW r \in Rows, phase[r] \in {"ready", "parked"},
                        phase'[r] = "deleting"
                 PROVE  Cardinality(Queued) <= Cardinality(In({"ready"})')
      OBVIOUS
    <2>1. TypeInv
      BY <1>1 DEF ReclaimInv
    <2>2. VisitStep(r)
      BY <1>1, <2>1, OnlySweepTakes
    <2>3. Cardinality(Queued) <= Cardinality(In({"ready"}) \ {r})
      BY <2>2, Zenon DEF VisitStep, CostReclaimGate
    <2>4. \A q \in Rows \ {r} : phase'[q] = phase[q]
      BY <2>2 DEF VisitStep, Journals, Same
    <2>5. In({"ready"})' = In({"ready"}) \ {r}
      BY <2>4 DEF In
    <2> QED
      BY <2>3, <2>5
  <1>2. ReclaimInv /\ [Next]_vars =>
          [\A r \in Rows :
              (phase[r] \in {"ready", "parked"} /\ phase'[r] = "deleting")
              => Cardinality(Queued) <= Cardinality(In({"ready"})')]_vars
    BY <1>1
  <1> QED
    BY <1>2, InvAlways, PTL DEF Spec, QueueKeepsMachines

(* A machine billed by the period is taken only in the window of a         *)
(* boundary: half a buffer before the bill jumps and not earlier than a    *)
(* whole one, for every policy, buffer and observed delete durations.      *)
THEOREM ReclaimsAreInWindow == Spec => ReclaimedInWindow
  <1> DEFINE P == \A r \in Rows : (Reclaimed(r) /\ class.billing.increment > 0) =>
                     LET buffer == BufferOf(cache')
                     IN  /\ Costs(r, now + buffer \div 2) = Costs(r, now + 1)
                         /\ Costs(r, now + buffer + 1) > Costs(r, now + 1)
  <1>1. ASSUME ReclaimInv, [Next]_vars
        PROVE  P
    <2> SUFFICES ASSUME NEW r \in Rows, Reclaimed(r), class.billing.increment > 0
                 PROVE  LET buffer == BufferOf(cache')
                        IN  /\ Costs(r, now + buffer \div 2) = Costs(r, now + 1)
                            /\ Costs(r, now + buffer + 1) > Costs(r, now + 1)
      OBVIOUS
    <2> DEFINE buffer == BufferOf(cache')
               b == NextBoundary(created[r], class.billing, now)
    <2>1. TypeInv /\ TimeInv
      BY <1>1 DEF ReclaimInv
    <2>2. phase[r] = "ready" /\ phase'[r] \in {"deleting", "parking"}
      BY DEF Reclaimed
    <2>3. VisitStep(r)
      BY <1>1, <2>1, <2>2, OnlySweepTakes
    <2>4. cache' \in Caches /\ InWindow(r, buffer) = "terminate"
      BY <2>2, <2>3 DEF VisitStep, Taken
    <2>5. /\ class \in Classes /\ now \in Nat /\ created[r] \in Nat /\ created[r] <= now
      BY <2>1 DEF TypeInv, TimeInv
    <2>6. /\ class.billing \in Policy /\ class.billing.increment \in Nat
          /\ Base \in Nat /\ Base >= 2
      BY <2>5, ClassType
    <2>7. buffer \in Nat /\ buffer >= Base
      BY <2>1, <2>4, CacheType
    <2> HIDE DEF buffer
    <2>8. b # NoBoundary /\ ~FineGrained(class.billing)
      <3>1. PICK k \in Nat \ {0} : b = created[r] + k * class.billing.increment
        BY <2>5, <2>6, BoundaryIsMultiple
      <3>2. k * class.billing.increment \in Nat
        BY <2>6
      <3> QED
        BY <2>5, <2>6, <3>1, <3>2 DEF NoBoundary, FineGrained
    <2>9. Decide(Window(b, buffer), now) = "terminate"
      BY <2>4, <2>8 DEF InWindow
    <2>10. /\ b \in Nat /\ b > now
           /\ \A t \in Nat : (now < t /\ t <= b)
                 => Paid(t - created[r], class.billing)
                      = Paid((now + 1) - created[r], class.billing)
           /\ \A t \in Nat : t > b
                 => Paid(t - created[r], class.billing)
                      > Paid((now + 1) - created[r], class.billing)
      BY <2>5, <2>6, <2>8, BoundaryIsNextJump
    <2>11. /\ buffer \div 2 \in Nat /\ 2 * (buffer \div 2) <= buffer
           /\ buffer <= 2 * (buffer \div 2) + 1
      BY <2>7, Half
    <2> HIDE DEF b
    <2>12. b - buffer <= now /\ now <= b - buffer \div 2
      BY <2>5, <2>7, <2>9, <2>10, <2>11 DEF Decide, Window
    <2>13. /\ now + buffer \div 2 \in Nat /\ now < now + buffer \div 2
           /\ now + buffer \div 2 <= b
      BY <2>5, <2>6, <2>7, <2>10, <2>11, <2>12
    <2>14. now + buffer + 1 \in Nat /\ now + buffer + 1 > b
      BY <2>5, <2>7, <2>10, <2>12
    <2>15. Costs(r, now + buffer \div 2) = Costs(r, now + 1)
      BY <2>10, <2>13, Zenon DEF Costs
    <2>16. Costs(r, now + buffer + 1) > Costs(r, now + 1)
      BY <2>10, <2>14, Zenon DEF Costs
    <2> QED
      BY <2>15, <2>16 DEF buffer
  <1>2. ReclaimInv /\ [Next]_vars => [P]_vars
    BY <1>1
  <1> QED
    BY <1>2, InvAlways, PTL DEF Spec, ReclaimedInWindow

(* CostObserver counts every delete that ended in a more expensive period  *)
(* than the one it was journaled in.                                       *)
THEOREM OverrunsAreCounted == Spec => OverrunsCounted
  <1> DEFINE P == \A r \in Rows :
                     (class.billing.increment > 0 /\ phase[r] = "deleting" /\ phase'[r] = "gone"
                        /\ Costs(r, now) > Costs(r, op[r] + 1))
                     => Overrun(created[r], class.billing, op[r], now)
  <1>1. ASSUME ReclaimInv PROVE P
    <2> SUFFICES ASSUME NEW r \in Rows, class.billing.increment > 0, phase[r] = "deleting",
                        Costs(r, now) > Costs(r, op[r] + 1)
                 PROVE  Overrun(created[r], class.billing, op[r], now)
      OBVIOUS
    <2> DEFINE b == NextBoundary(created[r], class.billing, op[r])
    <2>1. TypeInv /\ TimeInv
      BY <1>1 DEF ReclaimInv
    <2>2. /\ class \in Classes /\ now \in Nat /\ created[r] \in Nat /\ created[r] <= now
          /\ op[r] \in Nat /\ created[r] <= op[r]
      BY <2>1 DEF TypeInv, TimeInv
    <2>3. class.billing \in Policy /\ class.billing.increment \in Nat
      BY <2>2, ClassType
    <2>4. b # NoBoundary
      <3>1. PICK k \in Nat \ {0} : b = created[r] + k * class.billing.increment
        BY <2>2, <2>3, BoundaryIsMultiple
      <3>2. k * class.billing.increment \in Nat
        BY <2>3
      <3> QED
        BY <2>2, <3>1, <3>2 DEF NoBoundary
    <2>5. /\ b \in Nat /\ b > op[r]
          /\ \A t \in Nat : (op[r] < t /\ t <= b)
                => Paid(t - created[r], class.billing)
                     = Paid((op[r] + 1) - created[r], class.billing)
      BY <2>2, <2>3, <2>4, BoundaryIsNextJump
    <2> HIDE DEF b
    <2>6. /\ Paid(now - created[r], class.billing) > Paid((op[r] + 1) - created[r], class.billing)
          /\ Paid(now - created[r], class.billing) \in Nat
          /\ Paid((op[r] + 1) - created[r], class.billing) \in Nat
      <3>1. now - created[r] \in Nat /\ (op[r] + 1) - created[r] \in Nat
        BY <2>2
      <3>2. /\ Paid(now - created[r], class.billing) \in Nat
            /\ Paid((op[r] + 1) - created[r], class.billing) \in Nat
        BY <2>3, <3>1, PaidType
      <3> QED
        BY <3>2, Zenon DEF Costs
    <2>7. ~(now <= op[r])
      <3>1. ASSUME now <= op[r] PROVE FALSE
        <4>1. /\ now - created[r] \in Nat /\ (op[r] + 1) - created[r] \in Nat
              /\ now - created[r] <= (op[r] + 1) - created[r]
          BY <2>2, <3>1
        <4>2. Paid(now - created[r], class.billing) <= Paid((op[r] + 1) - created[r], class.billing)
          BY <2>3, <4>1, PaidMonotone
        <4> QED
          BY <2>6, <4>2
      <3> QED
        BY <3>1
    <2>8. now > b
      BY <2>2, <2>5, <2>6, <2>7
    <2> QED
      BY <2>2, <2>4, <2>5, <2>8 DEF Overrun, b
  <1>2. ReclaimInv /\ [Next]_vars => [P]_vars
    BY <1>1
  <1> QED
    BY <1>2, InvAlways, PTL DEF Spec, OverrunsCounted

-----------------------------------------------------------------------------
(* Sweeps meet the window *)

(* A machine that could have been taken when the window of the boundary b  *)
(* opened is not left when the window closes: the last sweep began in it.  *)
LEMMA LastSweepTook ==
    ASSUME ReclaimInv, BudgetSuffices, WindowFits, NEW r \in Rows, Reclaimable(r), ~sweep.on,
           NEW b \in Nat, Jumps(r, b), Whole(r, b), created[r] <= b,
           \A a \in Acqs : ~Wants(a, b - Base),
           now = b - Base \div 2, now < lastSweep + Interval_
    PROVE  FALSE
  <1>1. TypeInv /\ TimeInv /\ LeftAloneInv
    BY DEF ReclaimInv
  <1>2. /\ now \in Nat /\ lastSweep \in Nat /\ created[r] \in Nat /\ since[r] \in Nat
        /\ class \in Classes /\ created[r] <= now /\ lastSweep <= now
    BY <1>1 DEF TypeInv, TimeInv
  <1>3. /\ class.billing \in Policy /\ class.idleAfter \in Nat
        /\ class.billing.increment \in Nat
        /\ Interval_ \in Nat \ {0} /\ Base \in Nat /\ Base - Base \div 2 >= Interval_
        /\ Base \div 2 \in Nat /\ Base \div 2 >= 1
    BY <1>2, ClassType
  <1>4. /\ phase[r] = "ready" /\ class.billing.increment > 0
    BY Zenon DEF Reclaimable
  <1>5. created[r] <= since[r]
    BY <1>1, <1>4 DEF TimeInv
  <1>6. b - Base >= since[r] + class.idleAfter
    BY DEF Whole
  <1>7. class.billing.increment >= Base \div 2 + Interval_
    BY DEF WindowFits
  <1> HIDE DEF Base
  <1>8. /\ b - Base <= lastSweep /\ lastSweep <= b - Base \div 2 /\ lastSweep < b
        /\ b <= lastSweep + class.billing.increment /\ created[r] <= lastSweep
    BY <1>2, <1>3, <1>5, <1>6, <1>7
  <1>9. ~(lastSweep < since[r] + class.idleAfter)
    BY <1>2, <1>3, <1>6, <1>8
  <1>10. Paid((b + 1) - created[r], class.billing) > Paid(b - created[r], class.billing)
    <2>1. b + 1 - created[r] = (b + 1) - created[r]
      BY <1>2
    <2> QED
      BY <2>1 DEF Jumps
  <1>11. NextBoundary(created[r], class.billing, lastSweep) = b
    BY <1>2, <1>3, <1>4, <1>8, <1>10, JumpIsNextBoundary
  <1>12. Decide(Window(b, Base), lastSweep) = "terminate"
    BY <1>2, <1>3, <1>8 DEF Decide, Window
  <1>13. ~Wanted
    <2>1. deadline \in [Acqs -> Nat]
      BY <1>1 DEF TypeInv
    <2>2. \A a \in Acqs : lastSweep <= deadline[a] => b - Base <= deadline[a]
      BY <1>2, <1>3, <1>8, <2>1
    <2> QED
      BY <2>2, Zenon DEF Wanted, Wants
  <1>14. LeftAlone(r)
    BY <1>1, <1>13 DEF LeftAloneInv
  <1> QED
    BY <1>9, <1>11, <1>12, <1>14, Zenon DEF LeftAlone

(* WindowMet of one machine and boundary.                                  *)
MetAt(r, b) ==
    (Jumps(r, b) /\ Whole(r, b) /\ \A a \in Acqs : ~Wants(a, b - Base))
    => now <= b - Base \div 2
Met == \A r \in Rows : Reclaimable(r) => \A b \in created[r]..(now + Base) : MetAt(r, b)

(* Met is WindowMet.                                                       *)
LEMMA MetIsWindowMet == Met <=> WindowMet
  BY Zenon DEF Met, MetAt, WindowMet, Reclaimable

(* The boundaries that WindowMet looks at are instants.                    *)
LEMMA WithinNat ==
    ASSUME NEW lo \in Nat, NEW m \in Nat, NEW k \in Nat, NEW b \in lo..(m + k)
    PROVE  b \in Nat /\ lo <= b /\ b <= m + k
  OBVIOUS

(* Every step keeps it: only the clock moves a machine towards its cutoff, *)
(* and LastSweepTook says that the cutoff is not passed.                   *)
LEMMA MetStep ==
    ASSUME ReclaimInv, ReclaimInv', [Next]_vars, BudgetSuffices, WindowFits, Met
    PROVE  Met'
  <1> SUFFICES ASSUME NEW r \in Rows, Reclaimable(r)',
                      NEW b \in created'[r]..(now' + Base'),
                      Jumps(r, b)', Whole(r, b)', \A a \in Acqs : ~Wants(a, b - Base)'
               PROVE  now' <= b - Base' \div 2
    BY DEF Met, MetAt
  <1>1. TypeInv /\ TimeInv /\ AskedInv /\ TypeInv'
    BY DEF ReclaimInv
  <1>2. class' = class
    BY DEF Next, vars, Tick, StartSweep, ReclaimPoolless, EndSweep, Others, Provision,
       BecomeReady, BecomeParked, BecomeGone, Drain, Start, Enqueue, Bind, Release
  <1>3. Base' = Base
    BY <1>2 DEF Base
  <1>4. /\ now \in Nat /\ now' \in Nat /\ class \in Classes /\ since'[r] \in Nat
        /\ created'[r] \in Nat
    BY <1>1 DEF TypeInv
  <1>5. /\ Base \in Nat /\ Base \div 2 \in Nat /\ class.idleAfter \in Nat
        /\ Base \div 2 <= Base /\ Base - Base \div 2 >= Interval_
        /\ Interval_ \in Nat \ {0}
    BY <1>4, ClassType
  <1>6. phase'[r] = "ready" /\ class.idleAfter > 0
    BY <1>2, Zenon DEF Reclaimable
  <1>7. b - Base >= since'[r] + class.idleAfter
    BY <1>2, <1>3, Zenon DEF Whole
  <1>8. b \in Nat /\ created'[r] <= b /\ b <= now' + Base
    <2> HIDE DEF Base
    <2>1. b \in created'[r]..(now' + Base)
      BY <1>3, Zenon
    <2>2. created'[r] \in Nat /\ now' \in Nat /\ Base \in Nat
      BY <1>4, <1>5, Zenon
    <2> QED
      BY <2>1, <2>2, WithinNat, Zenon
  <1>9. CASE now < b - Base /\ now' <= now + 1
    <2> HIDE DEF Base
    <2> QED
      BY <1>3, <1>4, <1>5, <1>8, <1>9
  <1>10. ASSUME ~(now < b - Base)
         PROVE  \A a \in Acqs : ~Wants(a, b - Base)
    <2> HIDE DEF Base
    <2>1. b - Base \in Nat
      BY <1>4, <1>5, <1>7, <1>8
    <2>2. PICK t \in Nat : t = b - Base
      BY <2>1
    <2>3. t <= now
      BY <1>4, <1>10, <2>2
    <2>4. \A a \in Acqs : ~Wants(a, t)'
      BY <1>3, <2>2, Zenon
    <2>5. \A a \in Acqs : ~Wants(a, t)
      BY <1>1, <2>3, <2>4, WantsStays
    <2> QED
      BY <2>2, <2>5, Zenon
  <1>11. CASE since'[r] = now /\ now' = now
    <2> HIDE DEF Base
    <2> QED
      BY <1>3, <1>4, <1>5, <1>7, <1>8, <1>11
  <1>12. CASE Same(r) /\ UNCHANGED <<now, protected>> /\ ~(now < b - Base)
    <2>1. Reclaimable(r)
      BY <1>2, <1>12, Zenon DEF Reclaimable, Same
    <2>2. Jumps(r, b) /\ Whole(r, b)
      BY <1>2, <1>3, <1>12, Zenon DEF Jumps, Whole, Same
    <2>3. b \in created[r]..(now + Base)
      BY <1>3, <1>12 DEF Same
    <2> QED
      BY <1>3, <1>12, <1>10, <2>1, <2>2, <2>3, Zenon DEF Met, MetAt
  <1>13. CASE Tick /\ ~(now < b - Base)
    <2>1. /\ UNCHANGED <<phase, created, since, protected>> /\ now' = now + 1
          /\ ~sweep.on /\ now < lastSweep + Interval_
      BY <1>13, Zenon DEF Tick, rowVars
    <2>2. Reclaimable(r)
      BY <1>2, <2>1, Zenon DEF Reclaimable
    <2>3. Jumps(r, b) /\ Whole(r, b)
      BY <1>2, <1>3, <2>1, Zenon DEF Jumps, Whole
    <2>4. b \in created[r]..(now + Base)
      <3> HIDE DEF Base
      <3> QED
        BY <1>4, <1>5, <1>8, <1>13, <2>1
    <2>5. now <= b - Base \div 2
      BY <1>13, <1>10, <2>2, <2>3, <2>4, Zenon DEF Met, MetAt
    <2>6. now # b - Base \div 2
      <3>1. created[r] <= b
        BY <1>8, <2>1
      <3> QED
        BY <1>8, <1>13, <1>10, <2>1, <2>2, <2>3, <3>1, LastSweepTook
    <2> HIDE DEF Base
    <2> QED
      BY <1>3, <1>4, <1>5, <1>8, <2>1, <2>5, <2>6
  <1>14. ASSUME Others PROVE now' <= b - Base' \div 2
    <2>1. OutsideStep
      BY <1>1, <1>14, OutsideSteps
    <2>2. UNCHANGED <<now, protected>> /\ (Same(r) \/ since'[r] = now)
      BY <1>6, <2>1 DEF OutsideStep
    <2>3. now' <= now + 1
      BY <1>4, <2>2
    <2> QED
      BY <1>11, <1>12, <1>9, <2>2, <2>3
  <1>15. ASSUME ReclaimPoolless PROVE now' <= b - Base' \div 2
    <2>1. PICK q \in Rows : SweepDraining(q) \/ SweepParked(q) \/ SweepReady(q)
      BY <1>15, Zenon DEF ReclaimPoolless
    <2>2. now' = now
      BY <1>15, Zenon DEF ReclaimPoolless
    <2>3. Journals(q)
      BY <1>1, <2>1, VisitSteps, Zenon DEF VisitStep
    <2>4. Same(r) /\ UNCHANGED protected
      BY <1>6, <2>3 DEF Journals
    <2>5. now' <= now + 1
      BY <1>4, <2>2
    <2> QED
      BY <1>12, <1>9, <2>2, <2>4, <2>5
  <1>16. ASSUME StartSweep \/ EndSweep \/ UNCHANGED vars PROVE now' <= b - Base' \div 2
    <2>1. UNCHANGED <<now, phase, created, since, protected>>
      BY <1>16, Zenon DEF StartSweep, EndSweep, vars, rowVars
    <2>2. now' <= now + 1
      BY <1>4, <2>1
    <2> QED
      BY <1>12, <1>9, <2>1, <2>2 DEF Same
  <1>17. ASSUME Tick PROVE now' <= b - Base' \div 2
    <2>1. now' <= now + 1
      BY <1>4, <1>17 DEF Tick
    <2> QED
      BY <1>13, <1>9, <1>17, <2>1
  <1> QED
    BY <1>14, <1>15, <1>16, <1>17, Zenon DEF Next

(* Sweeps meet the window, for every policy whose increment is not shorter *)
(* than half of the buffer and an interval: a machine that was idle long   *)
(* enough when the window opened, also since its last lease ended, is gone *)
(* when the window has closed, unless an acquisition was in the queue      *)
(* since then.  The sweep's bound on reclaims must not be smaller than the *)
(* fleet.                                                                  *)
THEOREM WindowsAreMet == Spec => []((BudgetSuffices /\ WindowFits) => WindowMet)
  <1> DEFINE I == (BudgetSuffices /\ WindowFits) => Met
  <1>1. Init => I
    BY DEF Init, Met, Reclaimable
  <1>2. ReclaimInv /\ ReclaimInv' /\ [Next]_vars /\ I => I'
    <2> SUFFICES ASSUME ReclaimInv, ReclaimInv', [Next]_vars, I,
                        BudgetSuffices', WindowFits'
                 PROVE  Met'
      OBVIOUS
    <2>1. class' = class
      BY DEF Next, vars, Tick, StartSweep, ReclaimPoolless, EndSweep, Others, Provision,
         BecomeReady, BecomeParked, BecomeGone, Drain, Start, Enqueue, Bind, Release
    <2>2. BudgetSuffices /\ WindowFits
      BY <2>1, Zenon DEF BudgetSuffices, WindowFits, Base
    <2> QED
      BY <2>2, MetStep
  <1>3. I => ((BudgetSuffices /\ WindowFits) => WindowMet)
    BY MetIsWindowMet
  <1> QED
    BY <1>1, <1>2, <1>3, InvAlways, PTL DEF Spec
-----------------------------------------------------------------------------
(* Useful time *)

(* A lease of a row that was created began when the row was there, and     *)
(* neither begins nor ends in the future.                                  *)
LeaseFits(r, l) ==
    /\ 1 <= l.start /\ created[r] <= l.start /\ l.start <= now
    /\ l.end = 0 \/ (l.start <= l.end /\ l.end <= now)

(* Finitely many such leases for each row, none before its machine.        *)
LeaseInv ==
    /\ 1 <= now
    /\ \A r \in Rows : /\ IsFiniteSet(leases[r]) /\ \A l \in leases[r] : LeaseFits(r, l)
                       /\ phase[r] = "none" => leases[r] = {}

(* A row whose leases and machine stay as they are, while the clock does   *)
(* not go back.                                                            *)
LEMMA LeasesStay ==
    ASSUME TypeInv, LeaseInv, now' \in Nat, now <= now', NEW r \in Rows,
           leases'[r] = leases[r], created'[r] = created[r]
    PROVE  /\ IsFiniteSet(leases'[r])
           /\ \A l \in leases'[r] : LeaseFits(r, l)'
  <1>1. IsFiniteSet(leases[r]) /\ \A l \in leases[r] : LeaseFits(r, l)
    BY DEF LeaseInv
  <1>2. ASSUME NEW l \in leases[r] PROVE LeaseFits(r, l)'
    <2>1. l.start \in Nat /\ l.end \in Nat /\ now \in Nat
      BY DEF TypeInv
    <2>2. LeaseFits(r, l)
      BY <1>1
    <2> QED
      BY <2>1, <2>2 DEF LeaseFits
  <1> QED
    BY <1>1, <1>2

(* A step that changes leases, machines and phases of one row at most.     *)
LEMMA OneRowLeases ==
    ASSUME TypeInv, LeaseInv, now' = now, NEW r \in Rows,
           \A q \in Rows \ {r} : /\ leases'[q] = leases[q] /\ created'[q] = created[q]
                                 /\ phase'[q] = phase[q],
           /\ IsFiniteSet(leases'[r])
           /\ \A l \in leases'[r] : LeaseFits(r, l)'
           /\ phase'[r] = "none" => leases'[r] = {}
    PROVE  LeaseInv'
  <1>1. ASSUME NEW q \in Rows
        PROVE  /\ IsFiniteSet(leases'[q]) /\ \A l \in leases'[q] : LeaseFits(q, l)'
               /\ phase'[q] = "none" => leases'[q] = {}
    <2>1. CASE q = r
      BY <2>1
    <2>2. CASE q # r
      <3>1. now' \in Nat /\ now <= now'
        BY DEF TypeInv
      <3>2. leases'[q] = leases[q] /\ created'[q] = created[q] /\ phase'[q] = phase[q]
        BY <2>2
      <3> QED
        BY <3>1, <3>2, LeasesStay DEF LeaseInv
    <2> QED
      BY <2>1, <2>2
  <1> QED
    BY <1>1 DEF LeaseInv

(* The lease that Bind adds, and the end that Release gives one.           *)
LEMMA LeaseSteps ==
    ASSUME TypeInv, TimeInv, LeaseInv, NEW a \in Acqs, NEW r \in Rows,
           Bind(a, r) \/ Release(a, r)
    PROVE  LeaseInv'
  <1>1. /\ now \in Nat /\ phase \in [Rows -> RowPhases] /\ created \in [Rows -> Nat]
        /\ leases \in [Rows -> SUBSET [by : Acqs, start : Nat, end : Nat]]
    BY DEF TypeInv
  <1>2. /\ IsFiniteSet(leases[r]) /\ created[r] <= now /\ 1 <= now
        /\ \A l \in leases[r] : LeaseFits(r, l)
    BY DEF LeaseInv, TimeInv
  <1>3. UNCHANGED <<now, created>>
    BY Zenon DEF Bind, Release
  <1>4. \A q \in Rows \ {r} : leases'[q] = leases[q] /\ phase'[q] = phase[q]
    BY <1>1 DEF Bind, Release, SetPhase
  <1>5. CASE Bind(a, r)
    <2> DEFINE l == [by |-> a, start |-> now, end |-> 0]
    <2>1. leases'[r] = leases[r] \cup {l} /\ phase'[r] = "allocated"
      BY <1>1, <1>5 DEF Bind, SetPhase
    <2>2. LeaseFits(r, l)
      BY <1>1, <1>2 DEF LeaseFits
    <2> HIDE DEF l
    <2>3. \A k \in leases'[r] : LeaseFits(r, k)'
      BY <1>2, <1>3, <2>1, <2>2 DEF LeaseFits
    <2>4. IsFiniteSet(leases'[r])
      BY <1>2, <2>1, FS_AddElement
    <2> QED
      BY <1>3, <1>4, <2>1, <2>3, <2>4, OneRowLeases
  <1>6. CASE Release(a, r)
    <2>1. PICK l \in Active(r) :
             /\ leases' = [leases EXCEPT ![r] = (@ \ {l}) \cup {[l EXCEPT !.end = now]}]
             /\ phase' = [phase EXCEPT ![r] =
                             IF @ = "allocated" /\ Active(r) = {l} THEN "ready" ELSE @]
      BY <1>6, Zenon DEF Release
    <2> DEFINE k == [l EXCEPT !.end = now]
    <2>2. l \in leases[r] /\ l \in [by : Acqs, start : Nat, end : Nat]
      BY <1>1, <2>1 DEF Active
    <2>3. k.start = l.start /\ k.end = now
      BY <2>2
    <2>4. LeaseFits(r, k)
      BY <1>1, <1>2, <2>2, <2>3 DEF LeaseFits
    <2>5. leases'[r] = (leases[r] \ {l}) \cup {k}
      BY <1>1, <2>1
    <2>6. phase[r] # "none"
      BY <2>2 DEF LeaseInv
    <2>7. phase'[r] # "none"
      BY <1>1, <2>1, <2>6
    <2> HIDE DEF k
    <2>8. \A j \in leases'[r] : LeaseFits(r, j)'
      BY <1>2, <1>3, <2>4, <2>5 DEF LeaseFits
    <2>9. IsFiniteSet(leases'[r])
      <3>1. IsFiniteSet(leases[r] \ {l})
        BY <1>2, FS_RemoveElement, Zenon
      <3> QED
        BY <2>5, <3>1, FS_AddElement, Zenon
    <2> QED
      BY <1>3, <1>4, <2>7, <2>8, <2>9, OneRowLeases
  <1> QED
    BY <1>5, <1>6

(* Every step keeps LeaseInv.                                              *)
LEMMA LeaseInvStep ==
    ASSUME ReclaimInv, ReclaimInv', LeaseInv, [Next]_vars
    PROVE  LeaseInv'
  <1>1. TypeInv /\ TimeInv /\ now \in Nat /\ now' \in Nat
    BY DEF ReclaimInv, TypeInv
  <1>2. /\ phase \in [Rows -> RowPhases] /\ created \in [Rows -> Nat]
        /\ leases \in [Rows -> SUBSET [by : Acqs, start : Nat, end : Nat]]
    BY <1>1 DEF TypeInv
  <1>3. ASSUME now <= now', UNCHANGED <<leases, created>>,
               \A r \in Rows : phase'[r] = "none" => phase[r] = "none"
        PROVE  LeaseInv'
    <2>1. ASSUME NEW r \in Rows
          PROVE  /\ IsFiniteSet(leases'[r]) /\ \A l \in leases'[r] : LeaseFits(r, l)'
                 /\ phase'[r] = "none" => leases'[r] = {}
      BY <1>1, <1>3, LeasesStay DEF LeaseInv
    <2> QED
      BY <1>1, <1>3, <2>1 DEF LeaseInv
  <1>4. CASE Tick \/ StartSweep \/ EndSweep \/ UNCHANGED vars
    <2>1. UNCHANGED <<leases, created, phase>> /\ (now' = now \/ now' = now + 1)
      BY <1>4, Zenon DEF Tick, StartSweep, EndSweep, vars, rowVars
    <2> QED
      BY <1>1, <1>3, <2>1
  <1>5. CASE ReclaimPoolless
    <2>1. PICK r \in Rows : SweepDraining(r) \/ SweepParked(r) \/ SweepReady(r)
      BY <1>5, Zenon DEF ReclaimPoolless
    <2>2. UNCHANGED <<now, leases>>
      BY <1>5, Zenon DEF ReclaimPoolless
    <2>3. Journals(r)
      BY <1>1, <2>1, VisitSteps, Zenon DEF VisitStep
    <2>4. UNCHANGED created /\ \A q \in Rows : phase'[q] = "none" => phase[q] = "none"
      BY <2>3 DEF Journals, Same
    <2> QED
      BY <1>1, <1>3, <2>2, <2>4
  <1>6. ASSUME NEW r \in Rows, BecomeReady(r) \/ BecomeParked(r) \/ Drain(r) \/ Start(r)
        PROVE  LeaseInv'
    <2>1. UNCHANGED <<now, leases, created>>
      BY <1>6, Zenon DEF BecomeReady, BecomeParked, Drain, Start
    <2>2. \A q \in Rows : phase'[q] = "none" => phase[q] = "none"
      BY <1>2, <1>6 DEF BecomeReady, BecomeParked, Drain, Start, SetPhase
    <2> QED
      BY <1>1, <1>3, <2>1, <2>2
  <1>7. ASSUME NEW a \in Acqs, Enqueue(a)
        PROVE  LeaseInv'
    <2>1. UNCHANGED <<now, leases, created, phase>>
      BY <1>7, Zenon DEF Enqueue, rowVars
    <2> QED
      BY <1>1, <1>3, <2>1
  <1>8. ASSUME NEW r \in Rows, Provision(r) \/ BecomeGone(r)
        PROVE  LeaseInv'
    <2>1. /\ now' = now /\ leases'[r] = {}
          /\ \A q \in Rows \ {r} : /\ leases'[q] = leases[q] /\ created'[q] = created[q]
                                   /\ phase'[q] = phase[q]
      <3>1. CASE Provision(r)
        <4>1. phase[r] = "none" /\ UNCHANGED <<now, leases>>
          BY <3>1, Zenon DEF Provision
        <4> QED
          BY <1>2, <3>1, <4>1 DEF Provision, LeaseInv
      <3>2. CASE BecomeGone(r)
        BY <1>2, <3>2 DEF BecomeGone, SetPhase
      <3> QED
        BY <1>8, <3>1, <3>2
    <2>2. IsFiniteSet(leases'[r])
      BY <2>1, FS_EmptySet
    <2> QED
      BY <1>1, <2>1, <2>2, OneRowLeases
  <1>9. ASSUME NEW a \in Acqs, NEW r \in Rows, Bind(a, r) \/ Release(a, r)
        PROVE  LeaseInv'
    BY <1>1, <1>9, LeaseSteps
  <1> QED
    BY <1>4, <1>5, <1>6, <1>7, <1>8, <1>9, Zenon DEF Next, Others

(* Useful time is busy time: for every number of machines, leases and      *)
(* policies UsefulMillis counts the instants in which a machine had a      *)
(* lease, however its leases overlap, and useful and idle time add up to   *)
(* what was paid: CostObserver's clamp at zero never hides a difference.   *)
THEOREM UsefulTimeIsBusy == Spec => []UsefulIsBusyTime
  <1>1. Init => LeaseInv
    BY FS_EmptySet DEF Init, LeaseInv
  <1>2. ReclaimInv /\ ReclaimInv' /\ LeaseInv /\ [Next]_vars => LeaseInv'
    BY LeaseInvStep
  <1>3. ReclaimInv /\ LeaseInv => UsefulIsBusyTime
    <2> SUFFICES ASSUME ReclaimInv, LeaseInv, NEW r \in Rows
                 PROVE  LET spans == {Interval(l.start, l.end) : l \in leases[r]}
                            busy  == Cardinality({t \in 1..(now - 1) :
                                        \E l \in leases[r] :
                                           l.start <= t /\ (l.end = 0 \/ t < l.end)})
                        IN  /\ UsefulMillis(spans, now) = busy
                            /\ PaidIdle(created[r], class.billing, spans, now) + busy
                                 = Costs(r, now)
      BY Zenon DEF UsefulIsBusyTime
    <2> DEFINE spans == {Interval(l.start, l.end) : l \in leases[r]}
               B == {t \in 1..(now - 1) : \E l \in leases[r] :
                       l.start <= t /\ (l.end = 0 \/ t < l.end)}
               C == {t \in Nat : \E iv \in spans :
                       iv.start <= t /\ t < now /\ (iv.end = 0 \/ t < iv.end)}
    <2>1. /\ now \in Nat /\ created[r] \in Nat /\ created[r] <= now /\ class \in Classes
          /\ leases[r] \in SUBSET [by : Acqs, start : Nat, end : Nat]
      BY DEF ReclaimInv, TypeInv, TimeInv
    <2>2. IsFiniteSet(leases[r]) /\ \A l \in leases[r] : LeaseFits(r, l)
      BY DEF LeaseInv
    <2>3. IsFiniteSet(spans)
      <3> DEFINE f == [l \in leases[r] |-> Interval(l.start, l.end)]
      <3>1. f \in Surjection(leases[r], spans)
        BY DEF Surjection
      <3> HIDE DEF f, spans
      <3> QED
        BY <2>2, <3>1, FS_Surjection
    <2>4. /\ spans \in SUBSET [start : Nat, end : Nat]
          /\ \A iv \in spans : iv.start <= now /\ (iv.end = 0 \/ iv.start <= iv.end)
      BY <2>1, <2>2 DEF Interval, LeaseFits
    <2>5. C = B
      <3>1. ASSUME NEW t \in Nat
            PROVE  (\E iv \in spans : iv.start <= t /\ t < now /\ (iv.end = 0 \/ t < iv.end))
                   <=> (/\ t \in 1..(now - 1)
                        /\ \E l \in leases[r] : l.start <= t /\ (l.end = 0 \/ t < l.end))
        <4>1. ASSUME NEW iv \in spans, iv.start <= t, t < now, iv.end = 0 \/ t < iv.end
              PROVE  /\ t \in 1..(now - 1)
                     /\ \E l \in leases[r] : l.start <= t /\ (l.end = 0 \/ t < l.end)
          <5>1. PICK l \in leases[r] : iv = Interval(l.start, l.end)
            OBVIOUS
          <5>2. iv.start = l.start /\ iv.end = l.end /\ 1 <= l.start /\ l.start \in Nat
            BY <2>1, <2>2, <5>1 DEF Interval, LeaseFits
          <5> QED
            BY <2>1, <4>1, <5>2
        <4>2. ASSUME t \in 1..(now - 1), NEW l \in leases[r], l.start <= t,
                     l.end = 0 \/ t < l.end
              PROVE  \E iv \in spans : iv.start <= t /\ t < now /\ (iv.end = 0 \/ t < iv.end)
          <5>1. Interval(l.start, l.end) \in spans
            OBVIOUS
          <5>2. /\ Interval(l.start, l.end).start = l.start
                /\ Interval(l.start, l.end).end = l.end /\ t < now
            BY <2>1, <4>2 DEF Interval
          <5> QED
            BY <4>2, <5>1, <5>2
        <4> QED
          BY <4>1, <4>2
      <3>2. \A t \in 1..(now - 1) : t \in Nat
        BY <2>1
      <3> QED
        BY <3>1, <3>2
    <2>6. B \in SUBSET (created[r]..(now - 1))
      BY <2>1, <2>2 DEF LeaseFits
    <2> HIDE DEF spans, B
    <2>7. UsefulMillis(spans, now) = Cardinality(B)
      BY <2>1, <2>3, <2>4, <2>5, UsefulIsCovered
    <2>8. Cardinality(B) \in Nat /\ Cardinality(B) <= now - created[r]
      <3>1. PICK m \in Int : m = now - 1
        BY <2>1
      <3>2. PICK c \in Nat : c = created[r]
        BY <2>1
      <3>3. /\ IsFiniteSet(c..m)
            /\ Cardinality(c..m) = IF c > m THEN 0 ELSE m - c + 1
        BY FS_Interval
      <3>4. B \in SUBSET (c..m)
        BY <2>6, <3>1, <3>2
      <3>5. IsFiniteSet(B) /\ Cardinality(B) <= Cardinality(c..m)
        BY <3>3, <3>4, FS_Subset
      <3>6. Cardinality(B) \in Nat
        BY <3>5, FS_CardinalityType
      <3> QED
        BY <2>1, <3>1, <3>2, <3>3, <3>5, <3>6
    <2>9. PICK life \in Nat : life = now - created[r]
      BY <2>1
    <2>10. class.billing \in Policy
      BY <2>1, ClassType
    <2>11. Costs(r, now) \in Nat /\ life <= Costs(r, now)
      BY <2>9, <2>10, PaidType, PaidCovers DEF Costs
    <2>12. PaidIdle(created[r], class.billing, spans, now) = Costs(r, now) - Cardinality(B)
      BY <2>7, <2>8, <2>9, <2>11 DEF PaidIdle, Costs
    <2>13. PaidIdle(created[r], class.billing, spans, now) + Cardinality(B) = Costs(r, now)
      BY <2>8, <2>11, <2>12
    <2> QED
      BY <2>7, <2>13 DEF spans, B
  <1> QED
    BY <1>1, <1>2, <1>3, InvAlways, PTL DEF Spec
=============================================================================
