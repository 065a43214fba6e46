------------------------ MODULE PoolReconcilerProofs ------------------------
(***************************************************************************)
(* What a cycle of PoolReconciler may do to its pool, for every number of  *)
(* rows, every spec and every mutation budget.                             *)
(***************************************************************************)
EXTENDS PoolReconciler, FiniteSetTheorems, WellFoundedInduction, TLAPS

(* The phases of a row, and of a free slot.                                *)
RowPhases == Phases \cup {"none"}

(* The passes up to the one that decides on creates, and those after it.   *)
Early == {"undrain", "warmup", "scaleup"}
Late == {"parked", "drain", "pipeline", "failed", "park"}
Passes == Early \cup {"create"} \cup Late

(* The local variables of RunOnce.                                         *)
CycleTypes == [pass : Passes \cup {"idle"}, todo : SUBSET Rows, snap : [Rows -> RowPhases],
               cand : SUBSET Rows, spec : Specs, budget : Int, gap : Int, hot : Int,
               ready : Int, n : Int, checked : SUBSET Rows]

(* The type invariant, as far as the proofs use it.                        *)
TypeInv ==
    /\ phase \in [Rows -> RowPhases]
    /\ spec \in Specs /\ others \in BOOLEAN
    /\ cyc \in CycleTypes

(* A pass that is under way has work to do.                                *)
GoingInv == cyc.pass # "idle" => Going(cyc, cyc.pass, cyc.todo)

(* Rows that are there, and rows in some phases, when f gives the phases.  *)
LiveIn(f) == {r \in Rows : f[r] # "none"}
CountIn(f, phases) == Cardinality({r \in Rows : f[r] \in phases})

(* Until the creates are decided on, every row was there when the rows     *)
(* were listed; then there is room for all that are left.                  *)
MaxOf(f, c) ==
    /\ c.pass \in Early => (c.n = 0 /\ LiveIn(f) \subseteq LiveIn(c.snap))
    /\ (c.pass = "create" /\ c.n > 0 /\ c.spec.maxResources > 0) =>
         Cardinality(LiveIn(f)) + c.n <= c.spec.maxResources

(* The counted fleet is on the side of replicas where the cycle found it.  *)
SideOf(f, c) ==
    /\ CountIn(c.snap, CountedPhases) <= c.spec.replicas =>
          CountIn(f, CountedPhases) <= c.spec.replicas
    /\ CountIn(c.snap, CountedPhases) >= c.spec.replicas =>
          CountIn(f, CountedPhases) >= c.spec.replicas

(* The gap is exact until rows are created for it, and exact again in the  *)
(* passes that take rows away.                                             *)
GapOf(f, c) ==
    /\ c.pass \in Early => c.gap = c.spec.replicas - CountIn(f, CountedPhases)
    /\ c.pass = "create" =>
         /\ c.gap > 0 /\ CountIn(f, CountedPhases) <= c.spec.replicas
         /\ c.n <= c.spec.replicas - CountIn(f, CountedPhases)
    /\ c.pass \in Late =>
         \/ c.gap = c.spec.replicas - CountIn(f, CountedPhases)
         \/ c.gap > 0 /\ CountIn(f, CountedPhases) <= c.spec.replicas

(* There are at least as many ready machines as the cycle counts, and it   *)
(* does not count down below minReady.                                     *)
ReadyOf(f, c) ==
    /\ CountIn(f, {"ready"}) >= c.ready
    /\ c.ready >= Min2(c.spec.minReady, CountIn(c.snap, {"ready"}))

MaxInv == cyc.pass # "idle" => MaxOf(phase, cyc)
CountInv ==
    (cyc.pass # "idle" /\ ~others) =>
        (SideOf(phase, cyc) /\ GapOf(phase, cyc) /\ ReadyOf(phase, cyc))

(* The inductive invariant.                                                *)
PoolInv == TypeInv /\ GoingInv /\ MaxInv /\ CountInv

-----------------------------------------------------------------------------
(* The passes in order, and what GoOn makes of the local variables *)

(* A non-empty set of naturals has a least element.                        *)
LEMMA LeastNatural ==
    ASSUME NEW T \in SUBSET Nat, T # {}
    PROVE  \E x \in T : \A y \in T : x <= y
  <1> DEFINE R == OpToRel(<, Nat)
  <1>1. IsWellFoundedOn(R, Nat)
    BY NatLessThanWellFounded
  <1> HIDE DEF R
  <1>2. PICK x \in T : \A y \in T : ~(<<y, x>> \in R)
    BY <1>1, WFMin
  <1>3. \A y \in T : ~(y < x)
    BY <1>2 DEF R, OpToRel
  <1> QED
    BY <1>3

(* The passes by number.                                                   *)
LEMMA OrderFacts ==
    /\ DOMAIN Order = 1..9 /\ {Order[i] : i \in DOMAIN Order} = Passes
    /\ Order[1] = "undrain" /\ Order[2] = "warmup" /\ Order[3] = "scaleup"
    /\ Order[4] = "create" /\ Order[5] = "parked" /\ Order[6] = "drain"
    /\ Order[7] = "pipeline" /\ Order[8] = "failed" /\ Order[9] = "park"
  <1>1. /\ DOMAIN Order = 1..9
        /\ Order[1] = "undrain" /\ Order[2] = "warmup" /\ Order[3] = "scaleup"
        /\ Order[4] = "create" /\ Order[5] = "parked" /\ Order[6] = "drain"
        /\ Order[7] = "pipeline" /\ Order[8] = "failed" /\ Order[9] = "park"
    BY DEF Order
  <1>2. 1..9 = {1, 2, 3, 4, 5, 6, 7, 8, 9}
    OBVIOUS
  <1>3. {Order[i] : i \in DOMAIN Order} = Passes
    BY <1>1, <1>2 DEF Passes, Early, Late
  <1> QED
    BY <1>1, <1>3

(* Position is the inverse of Order.                                       *)
LEMMA PositionFacts ==
    ASSUME NEW i \in DOMAIN Order
    PROVE  Position[Order[i]] = i
  <1>1. Order[i] \in {Order[j] : j \in DOMAIN Order}
    OBVIOUS
  <1>2. Position[Order[i]] = CHOOSE j \in DOMAIN Order : Order[j] = Order[i]
    BY <1>1 DEF Position
  <1>3. \A j \in DOMAIN Order : Order[j] = Order[i] => j = i
    BY OrderFacts
  <1> QED
    BY <1>2, <1>3

(* A later pass than an early one may be any; there is no way back.        *)
LEMMA LaterPass ==
    ASSUME NEW pass \in Passes, NEW i \in DOMAIN Order, i > Position[pass]
    PROVE  /\ Order[i] \in Passes
           /\ Order[i] \in Early => pass \in Early
           /\ Order[i] = "create" => pass \in Early
  <1>1. PICK k \in DOMAIN Order : pass = Order[k]
    BY OrderFacts
  <1>2. Position[pass] = k
    BY <1>1, PositionFacts
  <1>3. i > k
    BY <1>2
  <1>4. \A j \in DOMAIN Order : Order[j] \in Early <=> j < 4
    BY OrderFacts DEF Early
  <1>5. \A j \in DOMAIN Order : Order[j] = "create" <=> j = 4
    BY OrderFacts
  <1>6. DOMAIN Order \subseteq Int
    BY OrderFacts
  <1> QED
    BY <1>1, <1>3, <1>4, <1>5, <1>6, OrderFacts

(* What the local variables c become: nothing, or c with a pass that has   *)
(* something to do, the same or a later one.                               *)
Goes(c, s) ==
    /\ s \in CycleTypes
    /\ s.pass # "idle" =>
         /\ s.snap = c.snap /\ s.spec = c.spec /\ s.budget = c.budget /\ s.gap = c.gap
         /\ s.hot = c.hot /\ s.ready = c.ready /\ s.n = c.n
         /\ Going(s, s.pass, s.todo)
         /\ s.pass \in Early => c.pass \in Early
         /\ s.pass = "create" => c.pass \in Early \cup {"create"}

(* Between cycles the local variables are empty.                           *)
LEMMA IdleType ==
    ASSUME spec \in Specs
    PROVE  Idle \in CycleTypes /\ Idle.pass = "idle"
  <1>1. [r \in Rows |-> "none"] \in [Rows -> RowPhases]
    BY DEF RowPhases
  <1> QED
    BY <1>1 DEF Idle, CycleTypes

(* A pass visits rows.                                                     *)
LEMMA TodoType ==
    ASSUME NEW c \in CycleTypes, NEW pass
    PROVE  Todo(c, pass) \in SUBSET Rows
  <1>1. c.cand \in SUBSET Rows
    BY DEF CycleTypes
  <1>2. \A ph : SnapIn(c, ph) \in SUBSET Rows
    BY DEF SnapIn
  <1> QED
    BY <1>1, <1>2 DEF Todo

(* Settle keeps the pass or goes to the first later one that has work.     *)
LEMMA SettleGoes ==
    ASSUME spec \in Specs, NEW c \in CycleTypes, c.pass \in Passes
    PROVE  Goes(c, Settle(c))
  <1> DEFINE later == {i \in DOMAIN Order : /\ i > Position[c.pass]
                                            /\ Going(c, Order[i], Todo(c, Order[i]))}
  <1>0. "idle" \notin Passes
    BY DEF Passes, Early, Late
  <1>1. CASE Going(c, c.pass, c.todo)
    <2>1. Settle(c) = c
      BY <1>1 DEF Settle
    <2> QED
      BY <1>1, <2>1, <1>0 DEF Goes, Passes, Early, Late
  <1>2. CASE ~Going(c, c.pass, c.todo) /\ later = {}
    <2>1. Settle(c) = Idle
      BY <1>2, Zenon DEF Settle
    <2> QED
      BY <2>1, IdleType DEF Goes
  <1>3. CASE ~Going(c, c.pass, c.todo) /\ later # {}
    <2> DEFINE k == CHOOSE i \in later : \A j \in later : i <= j
               pass == Order[k]
               s == [c EXCEPT !.pass = pass, !.todo = Todo(c, pass)]
    <2>1. Settle(c) = s
      BY <1>3, Zenon DEF Settle
    <2>2. k \in later
      <3>1. later \in SUBSET Nat
        BY OrderFacts
      <3>2. \E i \in later : \A j \in later : i <= j
        <4> HIDE DEF later
        <4> QED
          BY <1>3, <3>1, LeastNatural
      <3> QED
        BY <3>2
    <2>3. k \in DOMAIN Order /\ k > Position[c.pass] /\ Going(c, pass, Todo(c, pass))
      BY <2>2
    <2>4. /\ pass \in Passes /\ (pass \in Early => c.pass \in Early)
          /\ (pass = "create" => c.pass \in Early)
      BY <2>3, LaterPass
    <2>5. Todo(c, pass) \in SUBSET Rows
      BY TodoType
    <2> HIDE DEF pass
    <2>6. /\ s \in CycleTypes /\ s.pass = pass /\ s.todo = Todo(c, pass)
          /\ s.snap = c.snap /\ s.spec = c.spec /\ s.budget = c.budget /\ s.gap = c.gap
          /\ s.hot = c.hot /\ s.ready = c.ready /\ s.n = c.n
      BY <2>4, <2>5 DEF CycleTypes
    <2>7. Going(s, s.pass, s.todo)
      <3> HIDE DEF s
      <3> QED
        BY <2>3, <2>6, Zenon DEF Going
    <2> HIDE DEF s
    <2> QED
      BY <2>1, <2>4, <2>6, <2>7 DEF Goes
  <1> QED
    BY <1>1, <1>2, <1>3

-----------------------------------------------------------------------------
(* Counting rows *)

(* What a row in phase p contributes to a count of the phases ph.          *)
One(p, ph) == IF p \in ph THEN 1 ELSE 0

(* Sets of rows are finite.                                                *)
LEMMA RowsFinite ==
    ASSUME NEW S \in SUBSET Rows
    PROVE  IsFiniteSet(S) /\ Cardinality(S) \in Nat
  BY BoundsAssumption, FS_Subset, FS_CardinalityType

(* Counts are numbers.                                                     *)
LEMMA CountType ==
    ASSUME NEW f, NEW ph
    PROVE  CountIn(f, ph) \in Nat /\ Cardinality(LiveIn(f)) \in Nat
  BY RowsFinite DEF CountIn, LiveIn

(* One row changes its phase: a count changes by what it leaves and what   *)
(* it enters.                                                              *)
LEMMA CountMove ==
    ASSUME NEW f \in [Rows -> RowPhases], NEW r \in Rows, NEW to, NEW ph
    PROVE  CountIn([f EXCEPT ![r] = to], ph)
             = CountIn(f, ph) + One(to, ph) - One(f[r], ph)
  <1> DEFINE A == {q \in Rows : f[q] \in ph}
             B == {q \in Rows : [f EXCEPT ![r] = to][q] \in ph}
  <1>1. IsFiniteSet(A) /\ IsFiniteSet(B) /\ Cardinality(A) \in Nat /\ Cardinality(B) \in Nat
    BY RowsFinite
  <1>2. /\ r \in A <=> f[r] \in ph
        /\ r \in B <=> to \in ph
        /\ A \ {r} = B \ {r}
    OBVIOUS
  <1> HIDE DEF A, B
  <1>3. /\ Cardinality(A \ {r}) = Cardinality(A) - One(r, A)
        /\ Cardinality(B \ {r}) = Cardinality(B) - One(r, B)
    <2>1. ASSUME NEW S, IsFiniteSet(S), Cardinality(S) \in Nat
          PROVE  Cardinality(S \ {r}) = Cardinality(S) - One(r, S)
      <3>1. Cardinality(S \ {r}) = IF r \in S THEN Cardinality(S) - 1 ELSE Cardinality(S)
        BY <2>1, FS_RemoveElement
      <3> QED
        BY <2>1, <3>1 DEF One
    <2> QED
      BY <1>1, <2>1
  <1>4. One(r, A) \in Int /\ One(r, B) \in Int
    BY DEF One
  <1>5. One(r, A) = One(f[r], ph) /\ One(r, B) = One(to, ph)
    BY <1>2, Zenon DEF One
  <1>7. Cardinality(A \ {r}) = Cardinality(B \ {r})
    BY <1>2
  <1>8. Cardinality(A) - One(r, A) = Cardinality(B) - One(r, B)
    BY <1>3, <1>7
  <1>6. Cardinality(B) = Cardinality(A) + One(to, ph) - One(f[r], ph)
    BY <1>1, <1>4, <1>5, <1>8
  <1> QED
    BY <1>6 DEF A, B, CountIn

-----------------------------------------------------------------------------
(* Steps of everybody else *)

(* The engine settles an operation: the moves that do not count as a       *)
(* disturbance of the cycle.                                               *)
EngineMoves == {<<"provisioning", "ready">>, <<"starting", "ready">>,
                <<"parking", "parked">>, <<"deleting", "none">>}

(* Nobody but the reconciler makes rows, and whoever changes the counts    *)
(* disturbs the cycle.                                                     *)
ForeignStep ==
    /\ phase' \in [Rows -> RowPhases] /\ spec' \in Specs /\ others' \in BOOLEAN
    /\ \A r \in Rows : phase[r] = "none" => phase'[r] = "none"
    /\ \/ others'
       \/ /\ others' = others
          /\ \/ phase' = phase
             \/ \E r \in Rows : \E to \in RowPhases :
                   phase' = [phase EXCEPT ![r] = to] /\ <<phase[r], to>> \in EngineMoves

(* A move of one row by somebody else.                                     *)
LEMMA ForeignMove ==
    ASSUME TypeInv, NEW r \in Rows, NEW to \in RowPhases, phase[r] # "none",
           phase' = [phase EXCEPT ![r] = to], spec' = spec, others'
    PROVE  ForeignStep
  BY DEF TypeInv, ForeignStep

(* The engine settles operations: a foreign step for the cycle.            *)
LEMMA EngineSteps ==
    ASSUME TypeInv, Engine
    PROVE  ForeignStep /\ cyc' = cyc
  <1> USE DEF RowPhases, Phases
  <1>0. phase \in [Rows -> RowPhases] /\ spec \in Specs /\ others \in BOOLEAN
    BY DEF TypeInv
  <1>1. CASE BackoffElapses
    BY <1>0, <1>1 DEF BackoffElapses, rowVars, ForeignStep
  <1>2. ASSUME NEW r \in Rows, OpSucceeds(r)
        PROVE  ForeignStep /\ cyc' = cyc
    <2>1. spec' = spec /\ others' = others /\ cyc' = cyc
      BY <1>2, Zenon DEF OpSucceeds
    <2>2. PICK to \in RowPhases : /\ phase' = [phase EXCEPT ![r] = to]
                                  /\ <<phase[r], to>> \in EngineMoves
      BY <1>2 DEF OpSucceeds, Move, Tombstone, EngineMoves
    <2>3. phase' \in [Rows -> RowPhases]
      BY <1>0, <2>2
    <2>4. \A q \in Rows : phase[q] = "none" => phase'[q] = "none"
      BY <1>0, <2>2 DEF EngineMoves
    <2> QED
      BY <1>0, <2>1, <2>2, <2>3, <2>4, Zenon DEF ForeignStep
  <1>3. ASSUME NEW r \in Rows, OpFails(r)
        PROVE  ForeignStep /\ cyc' = cyc
    <2>1. spec' = spec /\ others' /\ cyc' = cyc
      BY <1>3, Zenon DEF OpFails
    <2>2. PICK to \in RowPhases : phase' = [phase EXCEPT ![r] = to] /\ phase[r] # "none"
      BY <1>3 DEF OpFails, Move
    <2> QED
      BY <2>1, <2>2, ForeignMove
  <1> QED
    BY <1>1, <1>2, <1>3, Zenon DEF Engine

(* A command or an event that leaves the phases alone.                     *)
LEMMA ForeignQuiet ==
    ASSUME TypeInv, phase' = phase, spec' \in Specs, others' = others \/ others' = TRUE
    PROVE  ForeignStep
  BY DEF TypeInv, ForeignStep

(* Everybody else's steps are foreign too; a crash also ends the cycle.    *)
LEMMA OutsideSteps ==
    ASSUME TypeInv, Outside
    PROVE  ForeignStep /\ (cyc' = cyc \/ (cyc' = Idle /\ others'))
  <1> DEFINE G == ForeignStep /\ (cyc' = cyc \/ (cyc' = Idle /\ others'))
  <1>0. phase \in [Rows -> RowPhases] /\ spec \in Specs
    BY DEF TypeInv
  <1>1. ASSUME Enqueue \/ LeaveQueue \/ SetPoolPaused \/ DeletePool \/ Crash PROVE G
    <2>1. /\ phase' = phase /\ spec' = spec /\ (others' = others \/ others' = TRUE)
          /\ (cyc' = cyc \/ (cyc' = Idle /\ others'))
      BY <1>1, Zenon DEF Enqueue, LeaveQueue, SetPoolPaused, DeletePool, Crash, Meddle, rowVars
    <2> QED
      BY <1>0, <2>1, ForeignQuiet
  <1>2. ASSUME NEW s \in Specs, UpsertPool(s) PROVE G
    <2>1. phase' = phase /\ spec' = s /\ others' = TRUE /\ cyc' = cyc
      BY <1>2, Zenon DEF UpsertPool, Meddle, rowVars
    <2> QED
      BY <2>1, ForeignQuiet
  <1>3. ASSUME NEW r \in Rows, IdleElapses(r) \/ SetResourceProtected(r) PROVE G
    <2>1. /\ phase' = phase /\ spec' = spec /\ (others' = others \/ others' = TRUE)
          /\ cyc' = cyc
      BY <1>3, Zenon DEF IdleElapses, SetResourceProtected, Meddle
    <2> QED
      BY <1>0, <2>1, ForeignQuiet
  <1>4. ASSUME NEW r \in Rows,
               \/ Bind(r) \/ Release(r) \/ DrainResource(r) \/ UndrainResource(r)
               \/ ParkResource(r) \/ StartResource(r) \/ DeleteResource(r) \/ Lose(r)
               \/ EndOrphan(r)
        PROVE  G
    <2>1. spec' = spec /\ others' /\ cyc' = cyc
      BY <1>4, Zenon DEF Bind, Release, DrainResource, UndrainResource, ParkResource,
         StartResource, DeleteResource, Lose, EndOrphan, Meddle
    <2>2. CASE Release(r)
      <3>1. phase' = [phase EXCEPT ![r] = IF @ = "allocated" THEN "ready" ELSE @]
        BY <2>2, Zenon DEF Release
      <3>2. /\ phase' \in [Rows -> RowPhases]
            /\ \A q \in Rows : phase[q] = "none" => phase'[q] = "none"
        BY <1>0, <3>1 DEF RowPhases, Phases
      <3> QED
        BY <1>0, <2>1, <3>2 DEF ForeignStep
    <2>3. CASE ~Release(r)
      <3>1. PICK to \in RowPhases : phase' = [phase EXCEPT ![r] = to] /\ phase[r] # "none"
        BY <1>4, <2>3 DEF Bind, DrainResource, UndrainResource, ParkResource,
           StartResource, DeleteResource, Lose, EndOrphan, CasPhase, Move, Tombstone,
           JournalDeleteInTx, JournalStopGate, JournalStartGate, RowPhases, Phases
      <3> QED
        BY <2>1, <3>1, ForeignMove
    <2> QED
      BY <2>2, <2>3
  <1> QED
    BY <1>1, <1>2, <1>3, <1>4, Zenon DEF Outside

-----------------------------------------------------------------------------
(* Steps of the cycle *)

(* The types of the numbers a cycle works with.                            *)
LEMMA SpecFacts ==
    ASSUME NEW c \in CycleTypes
    PROVE  /\ c.spec.replicas \in Nat /\ c.spec.minReady \in Nat
           /\ c.spec.maxResources \in Nat /\ c.spec.minRunning \in Nat
           /\ c.gap \in Int /\ c.n \in Int /\ c.ready \in Int /\ c.budget \in Int
           /\ c.hot \in Int
           /\ CountIn(c.snap, CountedPhases) \in Nat /\ CountIn(c.snap, {"ready"}) \in Nat
  <1>1. c.spec \in Specs
    BY DEF CycleTypes
  <1>2. /\ c.spec.replicas \in Nat /\ c.spec.minReady \in Nat
        /\ c.spec.maxResources \in Nat /\ c.spec.minRunning \in Nat
    BY <1>1, SpecsAssumption
  <1>3. CountIn(c.snap, CountedPhases) \in Nat /\ CountIn(c.snap, {"ready"}) \in Nat
    BY CountType
  <1>4. c.gap \in Int /\ c.n \in Int /\ c.ready \in Int /\ c.budget \in Int /\ c.hot \in Int
    BY DEF CycleTypes
  <1> QED
    BY <1>2, <1>3, <1>4

(* What holds of the local variables d holds of what GoOn makes of them.   *)
LEMMA GoesKeeps ==
    ASSUME NEW f, NEW d \in CycleTypes, d.pass \in Passes, NEW s, Goes(d, s), s.pass # "idle"
    PROVE  /\ MaxOf(f, d) => MaxOf(f, s)
           /\ SideOf(f, d) => SideOf(f, s)
           /\ (MaxOf(f, d) /\ GapOf(f, d)) => GapOf(f, s)
           /\ ReadyOf(f, d) => ReadyOf(f, s)
  <1>1. /\ s \in CycleTypes
        /\ s.snap = d.snap /\ s.spec = d.spec /\ s.gap = d.gap /\ s.ready = d.ready
        /\ s.n = d.n /\ Going(s, s.pass, s.todo)
        /\ s.pass \in Early => d.pass \in Early
        /\ s.pass = "create" => d.pass \in Early \cup {"create"}
    BY Zenon DEF Goes
  <1>2. s.pass = "create" => s.n > 0
    BY <1>1 DEF Going
  <1>3. s.pass \in Passes
    BY <1>1 DEF CycleTypes
  <1>4. MaxOf(f, d) => MaxOf(f, s)
    BY <1>1, <1>2 DEF MaxOf, Early
  <1>5. SideOf(f, d) => SideOf(f, s)
    BY <1>1, Zenon DEF SideOf
  <1>6. ReadyOf(f, d) => ReadyOf(f, s)
    BY <1>1, Zenon DEF ReadyOf
  <1>7. ASSUME MaxOf(f, d), GapOf(f, d) PROVE GapOf(f, s)
    <2>0. d.pass \in Early => d.n = 0
      BY <1>7 DEF MaxOf
    <2>1. ~(s.pass = "create" /\ d.pass \in Early)
      BY <1>1, <1>2, <2>0
    <2>2. d.gap \in Int /\ d.spec.replicas \in Nat /\ CountIn(f, CountedPhases) \in Nat
      BY SpecFacts, CountType
    <2> QED
      BY <1>1, <1>3, <1>7, <2>1, <2>2 DEF GapOf, Passes, Early, Late
  <1> QED
    BY <1>4, <1>5, <1>6, <1>7

(* The outcome of a step of the cycle: whatever it made of the rows, it    *)
(* has stayed within its limits.                                           *)
Within ==
    \E d \in CycleTypes : /\ d.snap = cyc.snap /\ d.spec = cyc.spec
                          /\ ~others' => (SideOf(phase', d) /\ ReadyOf(phase', d))

(* A step that sets the local variables to d and goes on keeps the         *)
(* invariant when it holds for d.                                          *)
LEMMA GoOnKeeps ==
    ASSUME TypeInv, spec' = spec, others' \in BOOLEAN, phase' \in [Rows -> RowPhases],
           NEW d \in CycleTypes, d.pass \in Passes, cyc' = Settle(d),
           MaxOf(phase', d),
           ~others' => (SideOf(phase', d) /\ GapOf(phase', d) /\ ReadyOf(phase', d))
    PROVE  /\ PoolInv'
           /\ (d.snap = cyc.snap /\ d.spec = cyc.spec) => Within
  <1>1. spec \in Specs
    BY DEF TypeInv
  <1>2. Goes(d, cyc')
    BY <1>1, SettleGoes
  <1>3. cyc' \in CycleTypes
    BY <1>2 DEF Goes
  <1>4. TypeInv'
    BY <1>1, <1>3, Zenon DEF TypeInv
  <1>5. GoingInv'
    BY <1>2, Zenon DEF GoingInv, Goes
  <1>6. PICK s, f : s = cyc' /\ f = phase'
    OBVIOUS
  <1>7. ASSUME s.pass # "idle"
        PROVE  /\ MaxOf(f, s)
               /\ ~others' => (SideOf(f, s) /\ GapOf(f, s) /\ ReadyOf(f, s))
    BY <1>2, <1>6, <1>7, GoesKeeps
  <1>8. MaxInv' /\ CountInv'
    BY <1>6, <1>7, Zenon DEF MaxInv, CountInv
  <1>9. (d.snap = cyc.snap /\ d.spec = cyc.spec) => Within
    BY Zenon DEF Within
  <1> QED
    BY <1>4, <1>5, <1>8, <1>9 DEF PoolInv

(* A transaction of a pass on one row.  It changes the counted fleet by    *)
(* what the pass takes off or adds to its gap, only in the direction of    *)
(* replicas, and takes a ready machine only above minReady.                *)
LEMMA DidKeeps ==
    ASSUME PoolInv, spec' = spec, others' = others,
           NEW r \in Rows, NEW to \in RowPhases, phase[r] # "none",
           phase' = [phase EXCEPT ![r] = to],
           cyc.pass \in Early \cup Late,
           NEW dgap \in {-1, 0, 1}, NEW dhot \in Int, NEW dready \in {-1, 0},
           Did(r, dgap, dhot, dready),
           One(to, CountedPhases) - One(phase[r], CountedPhases) = 0 - dgap,
           One(to, {"ready"}) - One(phase[r], {"ready"}) >= dready,
           dgap = -1 => (cyc.pass \in Early /\ cyc.gap > 0),
           dgap = 1 => (cyc.pass \in Late /\ cyc.gap < 0),
           dready = -1 => cyc.ready - 1 >= cyc.spec.minReady
    PROVE  PoolInv' /\ Within /\ LiveIn(phase') \subseteq LiveIn(phase)
  <1>1. TypeInv /\ MaxInv /\ CountInv
    BY DEF PoolInv
  <1>2. phase \in [Rows -> RowPhases] /\ others \in BOOLEAN /\ cyc \in CycleTypes
    BY <1>1 DEF TypeInv
  <1>3. PICK d : /\ d = [cyc EXCEPT !.todo = @ \ {r}, !.checked = {}, !.budget = @ - 1,
                                    !.gap = @ + dgap, !.hot = @ + dhot, !.ready = @ + dready]
                 /\ cyc' = Settle(d)
    BY Zenon DEF Did, GoOn
  <1>4. /\ cyc.gap \in Int /\ cyc.ready \in Int /\ cyc.budget \in Int /\ cyc.hot \in Int
        /\ cyc.spec.replicas \in Nat /\ cyc.spec.minReady \in Nat
        /\ CountIn(cyc.snap, CountedPhases) \in Nat /\ CountIn(cyc.snap, {"ready"}) \in Nat
    BY <1>2, SpecFacts
  <1>5. /\ d.pass = cyc.pass /\ d.snap = cyc.snap /\ d.spec = cyc.spec /\ d.n = cyc.n
        /\ d.gap = cyc.gap + dgap /\ d.ready = cyc.ready + dready
    BY <1>2, <1>3 DEF CycleTypes
  <1>6. d \in CycleTypes
    <2> DEFINE todo == cyc.todo \ {r}
               budget == cyc.budget - 1
               gap == cyc.gap + dgap
               hot == cyc.hot + dhot
               ready == cyc.ready + dready
    <2>1. /\ todo \in SUBSET Rows /\ budget \in Int /\ gap \in Int /\ hot \in Int
          /\ ready \in Int
      BY <1>2, <1>4 DEF CycleTypes
    <2>2. d = [cyc EXCEPT !.todo = todo, !.checked = {}, !.budget = budget,
                          !.gap = gap, !.hot = hot, !.ready = ready]
      BY <1>3, Zenon
    <2> HIDE DEF todo, budget, gap, hot, ready
    <2> QED
      BY <1>2, <2>1, <2>2 DEF CycleTypes
  <1>7. d.pass \in Passes /\ cyc.pass # "idle"
    BY <1>5 DEF Passes, Early, Late
  <1>8. phase' \in [Rows -> RowPhases] /\ LiveIn(phase') \subseteq LiveIn(phase)
    BY <1>2 DEF LiveIn
  <1>9. MaxOf(phase', d)
    BY <1>1, <1>5, <1>7, <1>8 DEF MaxInv, MaxOf, Early, Late
  <1>10. ASSUME ~others
         PROVE  SideOf(phase', d) /\ GapOf(phase', d) /\ ReadyOf(phase', d)
    <2>1. SideOf(phase, cyc) /\ GapOf(phase, cyc) /\ ReadyOf(phase, cyc)
      BY <1>1, <1>7, <1>10 DEF CountInv
    <2>2. PICK old, oldReady, new, newReady :
             /\ old = CountIn(phase, CountedPhases) /\ oldReady = CountIn(phase, {"ready"})
             /\ new = CountIn(phase', CountedPhases) /\ newReady = CountIn(phase', {"ready"})
      OBVIOUS
    <2>3. /\ old \in Nat /\ oldReady \in Nat /\ new \in Nat /\ newReady \in Nat
      BY <2>2, CountType
    <2>4. /\ new = old + One(to, CountedPhases) - One(phase[r], CountedPhases)
          /\ newReady = oldReady + One(to, {"ready"}) - One(phase[r], {"ready"})
      BY <1>2, <2>2, CountMove
    <2>5. \A p, ph : One(p, ph) \in {0, 1}
      BY DEF One
    <2>6. new = old - dgap /\ newReady >= oldReady + dready
      BY <2>3, <2>4, <2>5
    <2>7. SideOf(phase', d)
      BY <1>4, <1>5, <1>7, <2>1, <2>2, <2>3, <2>6 DEF SideOf, GapOf, Early, Late
    <2>8. GapOf(phase', d)
      BY <1>4, <1>5, <1>7, <2>1, <2>2, <2>3, <2>6 DEF GapOf, Early, Late
    <2>9. ReadyOf(phase', d)
      BY <1>4, <1>5, <2>1, <2>2, <2>3, <2>6 DEF ReadyOf, Min2
    <2> QED
      BY <2>7, <2>8, <2>9
  <1> QED
    BY <1>1, <1>2, <1>3, <1>5, <1>6, <1>7, <1>8, <1>9, <1>10, GoOnKeeps

(* The local variables change without the counts, and no row does.         *)
LEMMA QuietKeeps ==
    ASSUME PoolInv, spec' = spec, others' = others, phase' = phase,
           NEW d \in CycleTypes, cyc' = Settle(d),
           d.pass = cyc.pass, d.snap = cyc.snap, d.spec = cyc.spec, d.n = cyc.n,
           d.gap = cyc.gap, d.ready = cyc.ready, cyc.pass # "idle"
    PROVE  PoolInv' /\ Within
  <1>1. TypeInv /\ MaxInv /\ CountInv
    BY DEF PoolInv
  <1>2. phase \in [Rows -> RowPhases] /\ others \in BOOLEAN /\ cyc \in CycleTypes
    BY <1>1 DEF TypeInv
  <1>3. d.pass \in Passes
    BY <1>2 DEF CycleTypes
  <1>4. MaxOf(phase', d)
    BY <1>1, Zenon DEF MaxInv, MaxOf
  <1>5. ~others => (SideOf(phase', d) /\ GapOf(phase', d) /\ ReadyOf(phase', d))
    BY <1>1, Zenon DEF CountInv, SideOf, GapOf, ReadyOf
  <1> QED
    BY <1>1, <1>2, <1>3, <1>4, <1>5, GoOnKeeps

(* A row whose gate is closed is passed over.                              *)
LEMMA PassOverKeeps ==
    ASSUME PoolInv, spec' = spec, others' = others, NEW r \in Rows, PassOver(r),
           cyc.pass # "idle"
    PROVE  PoolInv' /\ Within /\ phase' = phase
  <1>1. cyc \in CycleTypes
    BY DEF PoolInv, TypeInv
  <1>2. PICK d : d = [cyc EXCEPT !.todo = @ \ {r}, !.checked = {}] /\ cyc' = Settle(d)
    BY Zenon DEF PassOver, GoOn
  <1>3. phase' = phase
    BY Zenon DEF PassOver, rowVars
  <1>4. /\ d \in CycleTypes
        /\ d.pass = cyc.pass /\ d.snap = cyc.snap /\ d.spec = cyc.spec /\ d.n = cyc.n
        /\ d.gap = cyc.gap /\ d.ready = cyc.ready
    BY <1>1, <1>2 DEF CycleTypes
  <1> QED
    BY <1>2, <1>3, <1>4, QuietKeeps

(* A pass that is under way in the loop of RunOnce: what its guard says.   *)
LEMMA GoingFacts ==
    ASSUME PoolInv
    PROVE  /\ cyc.pass = "undrain" => cyc.gap > 0
           /\ cyc.pass = "scaleup" => cyc.gap > 0
           /\ cyc.pass = "create" => cyc.n > 0
           /\ cyc.pass = "parked" => cyc.gap < 0
           /\ cyc.pass = "drain" => (cyc.gap < 0 /\ cyc.ready - 1 >= cyc.spec.minReady)
           /\ cyc.pass = "park" => cyc.ready - 1 >= cyc.spec.minReady
  <1>1. cyc.pass # "idle" => Going(cyc, cyc.pass, cyc.todo)
    BY DEF PoolInv, GoingInv
  <1>2. PICK p : p = cyc.pass
    OBVIOUS
  <1>3. p # "idle" => Going(cyc, p, cyc.todo)
    BY <1>1, <1>2
  <1>4. /\ p = "undrain" => cyc.gap > 0
        /\ p = "scaleup" => cyc.gap > 0
        /\ p = "create" => cyc.n > 0
    BY <1>3 DEF Going
  <1>5. /\ p = "parked" => cyc.gap < 0
        /\ p = "drain" => (cyc.gap < 0 /\ cyc.ready - 1 >= cyc.spec.minReady)
        /\ p = "park" => cyc.ready - 1 >= cyc.spec.minReady
    BY <1>3 DEF Going
  <1> QED
    BY <1>2, <1>4, <1>5

(* What a step of the cycle keeps: the invariant and its limits, and it    *)
(* makes a row only where there is room for it.                            *)
Keeps ==
    /\ PoolInv' /\ Within
    /\ \/ LiveIn(phase') \subseteq LiveIn(phase)
       \/ cyc.spec.maxResources > 0 =>
             Cardinality(LiveIn(phase')) <= cyc.spec.maxResources

(* A draining row returns: one less is missing.                            *)
LEMMA UndrainKeeps ==
    ASSUME PoolInv, spec' = spec, others' = others, NEW r \in Rows, Undrain(r)
    PROVE  Keeps
  <1>1. cyc.pass = "undrain"
    BY DEF Undrain, Visit
  <1>2. CASE phase[r] = "draining"
    <2>1. phase' = [phase EXCEPT ![r] = "ready"] /\ Did(r, -1, 0, 0)
      BY <1>2, Zenon DEF Undrain, CasPhase, Move
    <2>2. /\ One("ready", CountedPhases) - One(phase[r], CountedPhases) = 0 - (-1)
          /\ One("ready", {"ready"}) - One(phase[r], {"ready"}) >= 0
      BY <1>2 DEF One, CountedPhases
    <2>3. "ready" \in RowPhases /\ cyc.pass \in Early \cup Late /\ cyc.pass \in Early
      BY <1>1 DEF RowPhases, Phases, Early
    <2>4. cyc.gap > 0
      BY <1>1, GoingFacts
    <2>5. -1 \in {-1, 0, 1} /\ 0 \in {-1, 0} /\ 0 \in Int /\ -1 # 1 /\ 0 # -1
      OBVIOUS
    <2> QED
      BY <1>2, <2>1, <2>2, <2>3, <2>4, <2>5, DidKeeps DEF Keeps
  <1>3. CASE phase[r] # "draining"
    <2>1. PassOver(r)
      BY <1>3, Zenon DEF Undrain
    <2> QED
      BY <1>1, <2>1, PassOverKeeps DEF Keeps
  <1> QED
    BY <1>2, <1>3

(* A parked row is started; it counted before and counts after.            *)
LEMMA WarmUpKeeps ==
    ASSUME PoolInv, spec' = spec, others' = others, NEW r \in Rows, WarmUp(r)
    PROVE  Keeps
  <1>1. cyc.pass = "warmup"
    BY DEF WarmUp, Visit
  <1>2. CASE JournalStartGate(r)
    <2>1. phase' = [phase EXCEPT ![r] = "starting"] /\ Did(r, 0, 1, 0)
      BY <1>2, Zenon DEF WarmUp, CasPhase, Move
    <2>0. phase[r] = "parked"
      BY <1>2 DEF JournalStartGate
    <2>2. /\ One("starting", CountedPhases) - One(phase[r], CountedPhases) = 0 - 0
          /\ One("starting", {"ready"}) - One(phase[r], {"ready"}) >= 0
      BY <2>0 DEF One, CountedPhases
    <2>3. "starting" \in RowPhases /\ cyc.pass \in Early \cup Late
      BY <1>1 DEF RowPhases, Phases, Early
    <2>4. /\ 0 \in {-1, 0, 1} /\ 1 \in Int /\ 0 \in {-1, 0}
          /\ 0 # -1 /\ 0 # 1
      OBVIOUS
    <2> QED
      BY <2>0, <2>1, <2>2, <2>3, <2>4, DidKeeps DEF Keeps
  <1>3. CASE ~JournalStartGate(r)
    <2>1. PassOver(r)
      BY <1>3, Zenon DEF WarmUp
    <2> QED
      BY <1>1, <2>1, PassOverKeeps DEF Keeps
  <1> QED
    BY <1>2, <1>3

(* journalDeleteInTx leaves a row deleting or tombstoned.                  *)
LEMMA DeleteMoves ==
    ASSUME NEW r \in Rows, JournalDeleteInTx(r)
    PROVE  \E to \in {"deleting", "none"} : phase' = [phase EXCEPT ![r] = to]
  BY Zenon DEF JournalDeleteInTx, Move, Tombstone

(* A surplus parked row is deleted: the surplus shrinks by one.            *)
LEMMA ReclaimParkedKeeps ==
    ASSUME PoolInv, spec' = spec, others' = others, NEW r \in Rows, ReclaimParked(r)
    PROVE  Keeps
  <1>1. cyc.pass = "parked"
    BY DEF ReclaimParked, Visit
  <1>2. CASE CostReclaimGate(r)
    <2>1. JournalDeleteInTx(r) /\ Did(r, 1, 0, 0)
      BY <1>2, Zenon DEF ReclaimParked
    <2>2. PICK to \in {"deleting", "none"} : phase' = [phase EXCEPT ![r] = to]
      BY <2>1, DeleteMoves
    <2>0. phase[r] = "parked"
      BY <1>2 DEF CostReclaimGate
    <2>3. /\ One(to, CountedPhases) - One(phase[r], CountedPhases) = 0 - 1
          /\ One(to, {"ready"}) - One(phase[r], {"ready"}) >= 0
      BY <2>0 DEF One, CountedPhases
    <2>4. to \in RowPhases /\ cyc.pass \in Early \cup Late /\ cyc.pass \in Late
      BY <1>1 DEF RowPhases, Phases, Late
    <2>5. cyc.gap < 0
      BY <1>1, GoingFacts
    <2>6. 1 \in {-1, 0, 1} /\ 0 \in {-1, 0} /\ 0 \in Int /\ 1 # -1 /\ 0 # -1
      OBVIOUS
    <2> QED
      BY <2>0, <2>1, <2>2, <2>3, <2>4, <2>5, <2>6, DidKeeps DEF Keeps
  <1>3. CASE ~CostReclaimGate(r)
    <2>1. PassOver(r)
      BY <1>3, Zenon DEF ReclaimParked
    <2> QED
      BY <1>1, <2>1, PassOverKeeps DEF Keeps
  <1> QED
    BY <1>2, <1>3

(* A surplus ready row is drained, only above minReady.                    *)
LEMMA DrainReadyKeeps ==
    ASSUME PoolInv, spec' = spec, others' = others, NEW r \in Rows, DrainReady(r)
    PROVE  Keeps
  <1>1. cyc.pass = "drain"
    BY DEF DrainReady, Visit
  <1>2. CASE phase[r] = "ready"
    <2>1. phase' = [phase EXCEPT ![r] = "draining"] /\ Did(r, 1, 0, -1)
      BY <1>2, Zenon DEF DrainReady, CasPhase, Move
    <2>2. /\ One("draining", CountedPhases) - One(phase[r], CountedPhases) = 0 - 1
          /\ One("draining", {"ready"}) - One(phase[r], {"ready"}) >= -1
      BY <1>2 DEF One, CountedPhases
    <2>3. "draining" \in RowPhases /\ cyc.pass \in Early \cup Late /\ cyc.pass \in Late
      BY <1>1 DEF RowPhases, Phases, Late
    <2>4. cyc.gap < 0 /\ cyc.ready - 1 >= cyc.spec.minReady
      BY <1>1, GoingFacts
    <2>5. /\ -1 \in {-1, 0} /\ 1 \in {-1, 0, 1} /\ 0 \in Int
          /\ 1 # -1
      OBVIOUS
    <2> QED
      BY <1>2, <2>1, <2>2, <2>3, <2>4, <2>5, DidKeeps DEF Keeps
  <1>3. CASE phase[r] # "ready"
    <2>1. PassOver(r)
      BY <1>3, Zenon DEF DrainReady
    <2> QED
      BY <1>1, <2>1, PassOverKeeps DEF Keeps
  <1> QED
    BY <1>2, <1>3

(* Draining and failed rows do not count: deleting one changes no count.   *)
LEMMA DeleteDrainedKeeps ==
    ASSUME PoolInv, spec' = spec, others' = others, NEW r \in Rows, DeleteDrained(r)
    PROVE  Keeps
  <1>1. cyc.pass \in {"pipeline", "failed"}
    BY DEF DeleteDrained, Visit
  <1>2. CASE JournalDeleteGate(r)
    <2>1. JournalDeleteInTx(r) /\ Did(r, 0, 0, 0)
      BY <1>2, Zenon DEF DeleteDrained
    <2>2. PICK to \in {"deleting", "none"} : phase' = [phase EXCEPT ![r] = to]
      BY <2>1, DeleteMoves
    <2>0. phase[r] \in {"draining", "failed"}
      BY <1>2 DEF JournalDeleteGate
    <2>3. /\ One(to, CountedPhases) - One(phase[r], CountedPhases) = 0 - 0
          /\ One(to, {"ready"}) - One(phase[r], {"ready"}) >= 0
      BY <2>0 DEF One, CountedPhases
    <2>4. to \in RowPhases /\ cyc.pass \in Early \cup Late
      BY <1>1 DEF RowPhases, Phases, Late
    <2>5. 0 \in {-1, 0, 1} /\ 0 \in {-1, 0} /\ 0 \in Int /\ 0 # -1 /\ 0 # 1
      OBVIOUS
    <2> QED
      BY <2>0, <2>1, <2>2, <2>3, <2>4, <2>5, DidKeeps DEF Keeps
  <1>3. CASE ~JournalDeleteGate(r)
    <2>1. PassOver(r)
      BY <1>3, Zenon DEF DeleteDrained
    <2> QED
      BY <1>1, <2>1, PassOverKeeps DEF Keeps
  <1> QED
    BY <1>2, <1>3

(* An idle row is parked, only above minReady; it still counts.            *)
LEMMA ParkIdleKeeps ==
    ASSUME PoolInv, spec' = spec, others' = others, NEW r \in Rows, ParkIdle(r)
    PROVE  Keeps
  <1>1. cyc.pass = "park"
    BY DEF ParkIdle, Visit
  <1> DEFINE gate == JournalStopGate(r) /\ r \notin protected
  <1>2. CASE gate
    <2>1. phase' = [phase EXCEPT ![r] = "parking"] /\ Did(r, 0, -1, -1)
      BY <1>2, Zenon DEF ParkIdle, CasPhase, Move
    <2>0. phase[r] = "ready"
      BY <1>2 DEF JournalStopGate
    <2>2. /\ One("parking", CountedPhases) - One(phase[r], CountedPhases) = 0 - 0
          /\ One("parking", {"ready"}) - One(phase[r], {"ready"}) >= -1
      BY <2>0 DEF One, CountedPhases
    <2>3. "parking" \in RowPhases /\ cyc.pass \in Early \cup Late
      BY <1>1 DEF RowPhases, Phases, Late
    <2>4. cyc.ready - 1 >= cyc.spec.minReady
      BY <1>1, GoingFacts
    <2>5. 0 \in {-1, 0, 1} /\ -1 \in {-1, 0} /\ -1 \in Int /\ 0 # -1 /\ 0 # 1
      OBVIOUS
    <2> QED
      BY <2>0, <2>1, <2>2, <2>3, <2>4, <2>5, DidKeeps DEF Keeps
  <1>3. CASE ~gate
    <2>1. PassOver(r)
      BY <1>3, Zenon DEF ParkIdle
    <2> QED
      BY <1>1, <2>1, PassOverKeeps DEF Keeps
  <1> QED
    BY <1>2, <1>3

(* CountActive only notes the row that has no lease.                       *)
LEMMA CountActiveKeeps ==
    ASSUME PoolInv, spec' = spec, others' = others, NEW r \in Rows, CountActive(r)
    PROVE  Keeps
  <1>1. cyc.pass = "drain"
    BY DEF CountActive, Visit
  <1>2. CASE r \in leased
    <2>1. PassOver(r)
      BY <1>2, Zenon DEF CountActive
    <2> QED
      BY <1>1, <2>1, PassOverKeeps DEF Keeps
  <1>3. CASE r \notin leased
    <2>1. cyc' = [cyc EXCEPT !.checked = {r}] /\ phase' = phase
      BY <1>3, Zenon DEF CountActive, rowVars
    <2>2. TypeInv /\ GoingInv /\ MaxInv /\ CountInv
      BY DEF PoolInv
    <2>3. PICK s : s = cyc'
      OBVIOUS
    <2>4. /\ s \in CycleTypes /\ s.pass = cyc.pass /\ s.todo = cyc.todo
          /\ s.snap = cyc.snap /\ s.spec = cyc.spec /\ s.budget = cyc.budget
          /\ s.gap = cyc.gap /\ s.hot = cyc.hot /\ s.ready = cyc.ready /\ s.n = cyc.n
      BY <2>1, <2>2, <2>3 DEF TypeInv, CycleTypes
    <2>5. TypeInv'
      BY <2>1, <2>2, <2>3, <2>4, Zenon DEF TypeInv
    <2>6. GoingInv'
      BY <2>2, <2>3, <2>4, Zenon DEF GoingInv, Going
    <2>7. MaxInv'
      BY <2>1, <2>2, <2>3, <2>4, Zenon DEF MaxInv, MaxOf
    <2>8. CountInv'
      BY <2>1, <2>2, <2>3, <2>4, Zenon DEF CountInv, SideOf, GapOf, ReadyOf
    <2>9. Within
      <3>1. ~others' => (SideOf(phase', cyc) /\ ReadyOf(phase', cyc))
        BY <1>1, <2>1, <2>2, Zenon DEF CountInv
      <3>2. cyc \in CycleTypes
        BY <2>2 DEF TypeInv
      <3> QED
        BY <3>1, <3>2, Zenon DEF Within
    <2>10. PoolInv'
      BY <2>5, <2>6, <2>7, <2>8, Zenon DEF PoolInv
    <2> QED
      BY <2>1, <2>9, <2>10 DEF Keeps
  <1> QED
    BY <1>2, <1>3

(* The quota fits the gap and the room that the listed rows leave.         *)
LEMMA QuotaBounds ==
    ASSUME NEW c \in CycleTypes
    PROVE  /\ CreateQuota(c) \in Int /\ CreateQuota(c) <= c.gap
           /\ c.spec.maxResources > 0 =>
                 CreateQuota(c) + Cardinality(LiveIn(c.snap)) <= c.spec.maxResources
  <1>1. PICK live : live = Cardinality(LiveIn(c.snap))
    OBVIOUS
  <1>2. live \in Nat
    BY <1>1, CountType
  <1>3. c.gap \in Int /\ c.budget \in Int /\ c.spec.maxResources \in Nat
    BY SpecFacts
  <1>4. CreateQuota(c) = Min2(IF c.spec.maxResources > 0
                              THEN Min2(c.gap, c.spec.maxResources - live) ELSE c.gap,
                              c.budget)
    BY <1>1, Zenon DEF CreateQuota, LiveIn
  <1> QED
    BY <1>1, <1>2, <1>3, <1>4 DEF Min2

(* The creates of the cycle are decided on.                                *)
LEMMA ScaleUpKeeps ==
    ASSUME PoolInv, spec' = spec, others' = others, ScaleUp
    PROVE  Keeps
  <1>1. cyc.pass = "scaleup" /\ phase' = phase
    BY Zenon DEF ScaleUp, rowVars
  <1>2. TypeInv /\ MaxInv /\ CountInv
    BY DEF PoolInv
  <1>3. phase \in [Rows -> RowPhases] /\ others \in BOOLEAN /\ cyc \in CycleTypes
    BY <1>2 DEF TypeInv
  <1>4. PICK n, d : /\ n = IF backoff THEN 0 ELSE CreateQuota(cyc)
                    /\ d = [cyc EXCEPT !.pass = "create", !.n = n]
                    /\ cyc' = Settle(d)
    BY Zenon DEF ScaleUp, GoOn
  <1>5. n = 0 \/ n = CreateQuota(cyc)
    BY <1>4, Zenon
  <1>6. /\ n \in Int /\ cyc.gap > 0 /\ cyc.gap \in Int /\ cyc.spec.replicas \in Nat
        /\ cyc.spec.maxResources \in Nat
    BY <1>1, <1>3, <1>5, QuotaBounds, SpecFacts, GoingFacts
  <1>7. /\ d \in CycleTypes /\ d.pass = "create" /\ d.n = n /\ d.snap = cyc.snap
        /\ d.spec = cyc.spec /\ d.gap = cyc.gap /\ d.ready = cyc.ready
    BY <1>3, <1>4, <1>6 DEF CycleTypes, Passes
  <1>8. MaxOf(phase', d)
    <2>1. LiveIn(phase) \subseteq LiveIn(cyc.snap)
      BY <1>1, <1>2 DEF MaxInv, MaxOf, Early
    <2>2. Cardinality(LiveIn(phase)) <= Cardinality(LiveIn(cyc.snap))
      <3>1. IsFiniteSet(LiveIn(cyc.snap))
        BY RowsFinite DEF LiveIn
      <3> QED
        BY <2>1, <3>1, FS_Subset
    <2>3. Cardinality(LiveIn(phase)) \in Nat /\ Cardinality(LiveIn(cyc.snap)) \in Nat
      BY CountType
    <2>4. (n > 0 /\ cyc.spec.maxResources > 0) =>
             n + Cardinality(LiveIn(cyc.snap)) <= cyc.spec.maxResources
      BY <1>3, <1>5, QuotaBounds
    <2>5. (n > 0 /\ cyc.spec.maxResources > 0) =>
             Cardinality(LiveIn(phase)) + n <= cyc.spec.maxResources
      BY <1>6, <2>2, <2>3, <2>4
    <2> QED
      BY <1>1, <1>7, <2>5 DEF MaxOf, Early
  <1>9. ASSUME ~others
        PROVE  SideOf(phase', d) /\ GapOf(phase', d) /\ ReadyOf(phase', d)
    <2>1. SideOf(phase, cyc) /\ GapOf(phase, cyc) /\ ReadyOf(phase, cyc)
      BY <1>1, <1>2, <1>9 DEF CountInv
    <2>2. PICK k : k = CountIn(phase, CountedPhases)
      OBVIOUS
    <2>3. k \in Nat /\ cyc.gap = cyc.spec.replicas - k
      BY <1>1, <2>1, <2>2, CountType DEF GapOf, Early
    <2>4. n <= cyc.gap
      BY <1>3, <1>5, <1>6, QuotaBounds
    <2>5. GapOf(phase', d)
      BY <1>1, <1>6, <1>7, <2>2, <2>3, <2>4 DEF GapOf, Early, Late
    <2> QED
      BY <1>1, <1>7, <2>1, <2>5, Zenon DEF SideOf, ReadyOf
  <1>10. d.pass \in Passes
    BY <1>7 DEF Passes
  <1> QED
    BY <1>1, <1>2, <1>3, <1>4, <1>7, <1>8, <1>9, <1>10, GoOnKeeps DEF Keeps

(* One row is created.                                                     *)
LEMMA CreateOneKeeps ==
    ASSUME PoolInv, spec' = spec, others' = others, NEW r \in Rows, CreateOne(r)
    PROVE  Keeps
  <1>1. /\ cyc.pass = "create" /\ phase[r] = "none"
        /\ phase' = [phase EXCEPT ![r] = "provisioning"]
    BY Zenon DEF CreateOne, CasPhase, Move
  <1>2. TypeInv /\ MaxInv /\ CountInv
    BY DEF PoolInv
  <1>3. phase \in [Rows -> RowPhases] /\ others \in BOOLEAN /\ cyc \in CycleTypes
    BY <1>2 DEF TypeInv
  <1>4. PICK d : /\ d = [cyc EXCEPT !.n = @ - 1, !.budget = @ - 1]
                 /\ cyc' = Settle(d)
    BY Zenon DEF CreateOne, GoOn
  <1>5. /\ cyc.n \in Int /\ cyc.n > 0 /\ cyc.budget \in Int /\ cyc.gap \in Int
        /\ cyc.spec.replicas \in Nat /\ cyc.spec.maxResources \in Nat
        /\ CountIn(cyc.snap, CountedPhases) \in Nat
    BY <1>1, <1>3, SpecFacts, GoingFacts
  <1>6. /\ d \in CycleTypes /\ d.pass = "create" /\ d.n = cyc.n - 1 /\ d.snap = cyc.snap
        /\ d.spec = cyc.spec /\ d.gap = cyc.gap /\ d.ready = cyc.ready
    <2> DEFINE n == cyc.n - 1
               budget == cyc.budget - 1
    <2>1. n \in Int /\ budget \in Int /\ d = [cyc EXCEPT !.n = n, !.budget = budget]
      BY <1>4, <1>5
    <2> HIDE DEF n, budget
    <2>2. /\ d \in CycleTypes /\ d.pass = "create" /\ d.n = n /\ d.snap = cyc.snap
          /\ d.spec = cyc.spec /\ d.gap = cyc.gap /\ d.ready = cyc.ready
      BY <1>1, <1>3, <2>1 DEF CycleTypes
    <2> QED
      BY <2>2 DEF n
  <1>7. phase' \in [Rows -> RowPhases] /\ LiveIn(phase') = LiveIn(phase) \cup {r}
    BY <1>1, <1>3 DEF LiveIn, RowPhases, Phases
  <1>8. PICK live, live2 : /\ live = Cardinality(LiveIn(phase))
                           /\ live2 = Cardinality(LiveIn(phase'))
    OBVIOUS
  <1>9. live \in Nat /\ live2 = live + 1
    <2>1. IsFiniteSet(LiveIn(phase)) /\ r \notin LiveIn(phase)
      BY <1>1, RowsFinite DEF LiveIn
    <2>2. live2 = live + 1
      BY <1>7, <1>8, <2>1, FS_AddElement
    <2> QED
      BY <1>8, <2>2, CountType
  <1>10. cyc.spec.maxResources > 0 => live + cyc.n <= cyc.spec.maxResources
    BY <1>1, <1>2, <1>5, <1>8 DEF MaxInv, MaxOf
  <1>11. cyc.spec.maxResources > 0 =>
            (live2 + (cyc.n - 1) <= cyc.spec.maxResources /\ live2 <= cyc.spec.maxResources)
    BY <1>5, <1>9, <1>10
  <1>12. MaxOf(phase', d)
    BY <1>6, <1>8, <1>11 DEF MaxOf, Early
  <1>13. ASSUME ~others
         PROVE  SideOf(phase', d) /\ GapOf(phase', d) /\ ReadyOf(phase', d)
    <2>1. SideOf(phase, cyc) /\ GapOf(phase, cyc) /\ ReadyOf(phase, cyc)
      BY <1>1, <1>2, <1>13 DEF CountInv
    <2>2. PICK old, new : /\ old = CountIn(phase, CountedPhases)
                          /\ new = CountIn(phase', CountedPhases)
      OBVIOUS
    <2>3. /\ One("provisioning", CountedPhases) = 1 /\ One("none", CountedPhases) = 0
          /\ One("provisioning", {"ready"}) = 0 /\ One("none", {"ready"}) = 0
      BY DEF One, CountedPhases
    <2>4. /\ old \in Nat /\ new = old + 1
          /\ CountIn(phase', {"ready"}) = CountIn(phase, {"ready"})
      <3>1. \A ph : CountIn(phase', ph)
                     = CountIn(phase, ph) + One("provisioning", ph) - One("none", ph)
        <4> TAKE ph
        <4>1. CountIn([phase EXCEPT ![r] = "provisioning"], ph)
                = CountIn(phase, ph) + One("provisioning", ph) - One(phase[r], ph)
          BY <1>3, CountMove, Zenon
        <4> QED
          BY <1>1, <4>1, Zenon
      <3>2. PICK ready : ready = CountIn(phase, {"ready"})
        OBVIOUS
      <3>3. old \in Nat /\ ready \in Nat
        BY <2>2, <3>2, CountType
      <3>4. CountIn(phase', {"ready"}) = ready + 0 - 0
        BY <2>3, <3>1, <3>2
      <3>5. new = old + 1 - 0
        BY <2>2, <2>3, <3>1
      <3> QED
        BY <3>2, <3>3, <3>4, <3>5
    <2>5. old <= cyc.spec.replicas /\ cyc.n <= cyc.spec.replicas - old /\ cyc.gap > 0
      BY <1>1, <2>1, <2>2 DEF GapOf
    <2>6. GapOf(phase', d)
      BY <1>5, <1>6, <2>2, <2>4, <2>5 DEF GapOf, Early, Late
    <2>7. SideOf(phase', d)
      BY <1>5, <1>6, <2>1, <2>2, <2>4, <2>5 DEF SideOf
    <2>8. ReadyOf(phase', d)
      BY <1>6, <2>1, <2>4, Zenon DEF ReadyOf
    <2> QED
      BY <2>6, <2>7, <2>8
  <1>14. d.pass \in Passes
    BY <1>6 DEF Passes
  <1>15. PoolInv' /\ Within
    BY <1>2, <1>3, <1>4, <1>6, <1>7, <1>12, <1>13, <1>14, GoOnKeeps
  <1> QED
    BY <1>8, <1>11, <1>15 DEF Keeps

(* The loop of creates ends on the first error.                            *)
LEMMA CreateFailsKeeps ==
    ASSUME PoolInv, spec' = spec, others' = others, CreateFails
    PROVE  Keeps
  <1>1. cyc.pass = "create" /\ phase' = phase
    BY Zenon DEF CreateFails, rowVars
  <1>2. TypeInv /\ MaxInv /\ CountInv
    BY DEF PoolInv
  <1>3. phase \in [Rows -> RowPhases] /\ others \in BOOLEAN /\ cyc \in CycleTypes
    BY <1>2 DEF TypeInv
  <1>4. PICK d : d = [cyc EXCEPT !.n = 0] /\ cyc' = Settle(d)
    BY Zenon DEF CreateFails, GoOn
  <1>5. /\ d \in CycleTypes /\ d.pass = "create" /\ d.n = 0 /\ d.snap = cyc.snap
        /\ d.spec = cyc.spec /\ d.gap = cyc.gap /\ d.ready = cyc.ready
    BY <1>1, <1>3, <1>4 DEF CycleTypes
  <1>6. MaxOf(phase', d)
    BY <1>5 DEF MaxOf, Early
  <1>7. ASSUME ~others
        PROVE  SideOf(phase', d) /\ GapOf(phase', d) /\ ReadyOf(phase', d)
    <2>1. SideOf(phase, cyc) /\ GapOf(phase, cyc) /\ ReadyOf(phase, cyc)
      BY <1>1, <1>2, <1>7 DEF CountInv
    <2>2. CountIn(phase, CountedPhases) \in Nat /\ cyc.spec.replicas \in Nat
      BY <1>3, CountType, SpecFacts
    <2>3. GapOf(phase', d)
      BY <1>1, <1>5, <2>1, <2>2 DEF GapOf, Early, Late
    <2> QED
      BY <1>1, <1>5, <2>1, <2>3, Zenon DEF SideOf, ReadyOf
  <1>8. d.pass \in Passes
    BY <1>5 DEF Passes
  <1> QED
    BY <1>1, <1>2, <1>3, <1>4, <1>5, <1>6, <1>7, <1>8, GoOnKeeps DEF Keeps

(* A step of RunOnce, whichever pass it belongs to.                        *)
LEMMA RunOnceKeeps ==
    ASSUME PoolInv, RunOnce
    PROVE  Keeps /\ cyc.pass # "idle"
  <1>1. spec' = spec /\ others' = others
    BY Zenon DEF RunOnce
  <1>2. Keeps
    BY <1>1, ScaleUpKeeps, CreateFailsKeeps, UndrainKeeps, WarmUpKeeps, CreateOneKeeps,
       ReclaimParkedKeeps, CountActiveKeeps, DrainReadyKeeps, DeleteDrainedKeeps,
       ParkIdleKeeps, Zenon DEF RunOnce
  <1>3. cyc.pass # "idle"
    BY DEF RunOnce, ScaleUp, CreateFails, Undrain, WarmUp, CreateOne, ReclaimParked,
       CountActive, DrainReady, DeleteDrained, ParkIdle, Visit
  <1> QED
    BY <1>2, <1>3

(* RunOnce reads the spec, lists the rows and counts them.                 *)
LEMMA StartCycleKeeps ==
    ASSUME PoolInv, StartCycle
    PROVE  PoolInv' /\ phase' = phase
  <1>1. /\ phase' = phase /\ spec' = spec /\ others' = FALSE
    BY Zenon DEF StartCycle, rowVars
  <1>2. TypeInv
    BY DEF PoolInv
  <1>3. phase \in [Rows -> RowPhases] /\ spec \in Specs
    BY <1>2 DEF TypeInv
  <1> DEFINE cand == (In({"ready"}) \cap idle) \ protected
             gap == spec.replicas - Counted
             ready == Cardinality(In({"ready"}))
             c == [Idle EXCEPT
                    !.snap = phase, !.spec = spec, !.budget = MaxMutationsPerCycle,
                    !.cand = cand, !.gap = gap, !.hot = Hot, !.ready = ready,
                    !.pass = "undrain"]
             todo == Todo(c, "undrain")
             d == [c EXCEPT !.todo = todo]
  <1>4. cyc' = Settle(d)
    BY Zenon DEF StartCycle, GoOn
  <1>5. /\ Counted = CountIn(phase, CountedPhases) /\ ready = CountIn(phase, {"ready"})
        /\ Hot = CountIn(phase, HotPhases)
    BY DEF Counted, Hot, In, CountIn
  <1>6. /\ Counted \in Nat /\ ready \in Nat /\ Hot \in Nat /\ spec.replicas \in Nat
        /\ MaxMutationsPerCycle \in Int /\ cand \in SUBSET Rows /\ gap \in Int
        /\ spec.minReady \in Nat
    <2>1. cand \in SUBSET Rows
      BY DEF In
    <2>2. Counted \in Nat /\ ready \in Nat /\ Hot \in Nat
      BY <1>5, CountType
    <2> QED
      BY <1>3, <2>1, <2>2, SpecsAssumption, BoundsAssumption
  <1>7. gap = spec.replicas - CountIn(phase, CountedPhases)
    BY <1>5
  <1>8. ready = CountIn(phase, {"ready"})
    BY <1>5
  <1> HIDE DEF cand, gap, ready
  <1>9. /\ c \in CycleTypes /\ c.snap = phase /\ c.spec = spec /\ c.pass = "undrain"
        /\ c.gap = gap /\ c.ready = ready /\ c.n = 0
    <2>1. [r \in Rows |-> "none"] \in [Rows -> RowPhases] /\ "undrain" \in Passes
      BY DEF RowPhases, Passes, Early
    <2>2. Idle \in CycleTypes /\ Idle.n = 0
      BY <1>3, IdleType DEF Idle
    <2>3. PICK c0, hot : c0 = Idle /\ hot = Hot
      OBVIOUS
    <2>4. c = [c0 EXCEPT !.snap = phase, !.spec = spec, !.budget = MaxMutationsPerCycle,
                         !.cand = cand, !.gap = gap, !.hot = hot, !.ready = ready,
                         !.pass = "undrain"]
      BY <2>3, Zenon
    <2>5. PICK c1 : c1 = [c0 EXCEPT !.snap = phase, !.spec = spec,
                                    !.budget = MaxMutationsPerCycle, !.cand = cand]
      OBVIOUS
    <2>6. c1 \in CycleTypes /\ c1.snap = phase /\ c1.spec = spec /\ c1.n = 0
      BY <1>3, <1>6, <2>2, <2>3, <2>5 DEF CycleTypes
    <2>7. c = [c1 EXCEPT !.gap = gap, !.hot = hot, !.ready = ready, !.pass = "undrain"]
      BY <2>2, <2>3, <2>4, <2>5 DEF CycleTypes
    <2> HIDE DEF c
    <2>8. hot \in Int /\ gap \in Int /\ ready \in Int
      BY <1>6, <2>3
    <2> QED
      BY <2>1, <2>6, <2>7, <2>8 DEF CycleTypes
  <1> HIDE DEF c
  <1>10. todo \in SUBSET Rows
    BY <1>9, TodoType
  <1> HIDE DEF todo
  <1>11. /\ d \in CycleTypes /\ d.snap = phase /\ d.spec = spec /\ d.pass = "undrain"
         /\ d.gap = gap /\ d.ready = ready /\ d.n = 0
    BY <1>9, <1>10 DEF CycleTypes
  <1> HIDE DEF d
  <1>12. MaxOf(phase', d)
    BY <1>1, <1>11 DEF MaxOf
  <1>13. SideOf(phase', d)
    BY <1>1, <1>11, Zenon DEF SideOf
  <1>14. GapOf(phase', d)
    BY <1>1, <1>7, <1>11 DEF GapOf, Early, Late
  <1>15. ReadyOf(phase', d)
    BY <1>1, <1>6, <1>8, <1>11 DEF ReadyOf, Min2
  <1>16. d.pass \in Passes /\ others' \in BOOLEAN
    BY <1>1, <1>11 DEF Passes, Early
  <1> QED
    BY <1>1, <1>2, <1>3, <1>4, <1>11, <1>12, <1>13, <1>14, <1>15, <1>16, GoOnKeeps

(* The engine, the scheduler, the operator and crashes.                    *)
LEMMA ForeignKeeps ==
    ASSUME PoolInv, ForeignStep, cyc' = cyc \/ (cyc' = Idle /\ others')
    PROVE  /\ PoolInv' /\ (cyc.pass # "idle" => Within)
           /\ LiveIn(phase') \subseteq LiveIn(phase)
  <1>1. TypeInv /\ GoingInv /\ MaxInv /\ CountInv
    BY DEF PoolInv
  <1>2. /\ phase \in [Rows -> RowPhases] /\ spec \in Specs /\ cyc \in CycleTypes
        /\ phase' \in [Rows -> RowPhases] /\ spec' \in Specs /\ others' \in BOOLEAN
        /\ \A r \in Rows : phase[r] = "none" => phase'[r] = "none"
    BY <1>1 DEF TypeInv, ForeignStep
  <1>3. LiveIn(phase') \subseteq LiveIn(phase)
    BY <1>2 DEF LiveIn
  <1>4. CASE cyc' = Idle /\ others'
    <2>1. Idle \in CycleTypes /\ Idle.pass = "idle"
      BY <1>2, IdleType
    <2>2. TypeInv'
      BY <1>2, <1>4, <2>1, Zenon DEF TypeInv
    <2>3. cyc'.pass = "idle"
      BY <1>4, <2>1
    <2>4. GoingInv' /\ MaxInv' /\ CountInv'
      BY <2>3, Zenon DEF GoingInv, MaxInv, CountInv
    <2>5. Within
      BY <1>2, <1>4, Zenon DEF Within
    <2> QED
      BY <1>3, <2>2, <2>4, <2>5, Zenon DEF PoolInv
  <1>5. CASE cyc' = cyc
    <2>1. TypeInv'
      BY <1>2, <1>5, Zenon DEF TypeInv
    <2>2. GoingInv'
      BY <1>1, <1>5, Zenon DEF GoingInv
    <2>3. PICK f : f = phase'
      OBVIOUS
    <2>4. MaxInv'
      <3>1. IsFiniteSet(LiveIn(phase)) /\ LiveIn(f) \subseteq LiveIn(phase)
        BY <1>3, <2>3, RowsFinite DEF LiveIn
      <3>2. PICK a, b : a = Cardinality(LiveIn(f)) /\ b = Cardinality(LiveIn(phase))
        OBVIOUS
      <3>3. a \in Nat /\ b \in Nat /\ a <= b
        BY <3>1, <3>2, CountType, FS_Subset
      <3>4. cyc.n \in Int /\ cyc.spec.maxResources \in Nat
        BY <1>2, SpecFacts
      <3>5. cyc.pass # "idle" => MaxOf(phase, cyc)
        BY <1>1 DEF MaxInv
      <3>6. cyc.pass # "idle" => MaxOf(f, cyc)
        BY <3>1, <3>2, <3>3, <3>4, <3>5 DEF MaxOf
      <3> QED
        BY <1>5, <2>3, <3>6, Zenon DEF MaxInv
    <2>5. ASSUME cyc.pass # "idle", ~others'
          PROVE  SideOf(f, cyc) /\ GapOf(f, cyc) /\ ReadyOf(f, cyc)
      <3>1. /\ ~others
            /\ \/ phase' = phase
               \/ \E r \in Rows : \E to \in RowPhases :
                     phase' = [phase EXCEPT ![r] = to] /\ <<phase[r], to>> \in EngineMoves
        <4>1. /\ others' = others
              /\ \/ phase' = phase
                 \/ \E r \in Rows : \E to \in RowPhases :
                       phase' = [phase EXCEPT ![r] = to] /\ <<phase[r], to>> \in EngineMoves
          BY <2>5, Zenon DEF ForeignStep
        <4>2. ~others
          BY <2>5, <4>1
        <4> QED
          BY <4>1, <4>2, Zenon
      <3>2. SideOf(phase, cyc) /\ GapOf(phase, cyc) /\ ReadyOf(phase, cyc)
        BY <1>1, <2>5, <3>1 DEF CountInv
      <3>3. CASE phase' = phase
        BY <2>3, <3>2, <3>3, Zenon
      <3>4. ASSUME NEW r \in Rows, NEW to \in RowPhases,
                   phase' = [phase EXCEPT ![r] = to], <<phase[r], to>> \in EngineMoves
            PROVE  SideOf(f, cyc) /\ GapOf(f, cyc) /\ ReadyOf(f, cyc)
        <4>0. r \in Rows /\ to \in RowPhases /\ phase \in [Rows -> RowPhases]
          BY <1>2, <3>4
        <4>1. \A ph : CountIn(f, ph) = CountIn(phase, ph) + One(to, ph) - One(phase[r], ph)
          <5> TAKE ph
          <5>1. CountIn([phase EXCEPT ![r] = to], ph)
                  = CountIn(phase, ph) + One(to, ph) - One(phase[r], ph)
            BY <4>0, CountMove, Zenon
          <5>2. f = [phase EXCEPT ![r] = to]
            BY <2>3, <3>4, Zenon
          <5> QED
            BY <5>1, <5>2, Zenon
        <4>2. /\ One(to, CountedPhases) = One(phase[r], CountedPhases)
              /\ One(to, {"ready"}) >= One(phase[r], {"ready"})
          BY <3>4 DEF One, CountedPhases, EngineMoves
        <4>3. \A p, ph : One(p, ph) \in Int
          BY DEF One
        <4>4. /\ CountIn(f, CountedPhases) \in Nat /\ CountIn(phase, CountedPhases) \in Nat
              /\ CountIn(f, {"ready"}) \in Nat /\ CountIn(phase, {"ready"}) \in Nat
              /\ cyc.ready \in Int
          BY <1>2, CountType, SpecFacts
        <4>5. CountIn(f, CountedPhases) = CountIn(phase, CountedPhases)
          BY <4>1, <4>2, <4>3, <4>4
        <4>6. CountIn(f, {"ready"}) >= CountIn(phase, {"ready"})
          BY <4>1, <4>2, <4>3, <4>4
        <4>7. SideOf(f, cyc) /\ GapOf(f, cyc)
          BY <3>2, <4>5, Zenon DEF SideOf, GapOf
        <4>8. ReadyOf(f, cyc)
          BY <3>2, <4>4, <4>6 DEF ReadyOf
        <4> QED
          BY <4>7, <4>8
      <3> QED
        BY <3>1, <3>3, <3>4
    <2>6. CountInv'
      BY <1>5, <2>3, <2>5, Zenon DEF CountInv
    <2>7. cyc.pass # "idle" => Within
      BY <1>2, <2>3, <2>5, Zenon DEF Within
    <2> QED
      BY <1>3, <2>1, <2>2, <2>4, <2>6, <2>7, Zenon DEF PoolInv
  <1> QED
    BY <1>4, <1>5

-----------------------------------------------------------------------------
(* The invariant *)

(* Every step of the specification, with what the theorems need of it.     *)
LEMMA StepKeeps ==
    ASSUME PoolInv, Next
    PROVE  /\ PoolInv' /\ (cyc.pass # "idle" => Within)
           /\ \/ LiveIn(phase') \subseteq LiveIn(phase)
              \/ cyc.spec.maxResources > 0 =>
                    Cardinality(LiveIn(phase')) <= cyc.spec.maxResources
  <1>1. TypeInv
    BY DEF PoolInv
  <1>2. CASE StartCycle
    <2>1. cyc.pass = "idle"
      BY <1>2 DEF StartCycle
    <2> QED
      BY <1>2, <2>1, StartCycleKeeps, Zenon
  <1>3. CASE RunOnce
    BY <1>3, RunOnceKeeps, Zenon DEF Keeps
  <1>4. CASE Engine
    BY <1>1, <1>4, EngineSteps, ForeignKeeps, Zenon
  <1>5. CASE Outside
    BY <1>1, <1>5, OutsideSteps, ForeignKeeps, Zenon
  <1> QED
    BY <1>2, <1>3, <1>4, <1>5, Zenon DEF Next

(* It holds of the empty pool.                                             *)
LEMMA InitInv ==
    ASSUME Init
    PROVE  PoolInv
  <1>1. spec \in Specs /\ cyc = Idle /\ phase = [r \in Rows |-> "none"] /\ others = FALSE
    BY Zenon DEF Init
  <1>2. Idle \in CycleTypes /\ Idle.pass = "idle"
    BY <1>1, IdleType
  <1>3. [r \in Rows |-> "none"] \in [Rows -> RowPhases] /\ FALSE \in BOOLEAN
    BY DEF RowPhases
  <1>4. TypeInv
    BY <1>1, <1>2, <1>3, Zenon DEF TypeInv
  <1>5. cyc.pass = "idle"
    BY <1>1, <1>2
  <1> QED
    BY <1>4, <1>5, Zenon DEF PoolInv, GoingInv, MaxInv, CountInv

(* The bookkeeping of a cycle is right at every step of it: see PoolInv.   *)
THEOREM PoolInvAlways == Spec => []PoolInv
  <1>1. Init => PoolInv
    BY InitInv
  <1>2. PoolInv /\ [Next]_vars => PoolInv'
    <2>1. ASSUME PoolInv, Next PROVE PoolInv'
      BY <2>1, StepKeeps
    <2>2. ASSUME PoolInv, UNCHANGED vars PROVE PoolInv'
      <3>1. phase' = phase /\ spec' = spec /\ cyc' = cyc /\ others' = others
        BY <2>2, Zenon DEF vars, rowVars
      <3> QED
        BY <2>2, <3>1, Zenon DEF PoolInv, TypeInv, GoingInv, MaxInv, CountInv
    <2> QED
      BY <2>1, <2>2
  <1> QED
    BY <1>1, <1>2, PTL DEF Spec

(* createOne never takes the pool above maxResources, for every number of  *)
(* rows and every spec: what is left of the quota, computed from the rows  *)
(* as they were listed, still fits when the others have had their turns,   *)
(* because only the reconciler makes rows.                                 *)
THEOREM CreatesStayWithinMax == Spec => CreatesWithinMax
  <1> DEFINE A == (cyc.pass = "create" /\ Cardinality(Live') > Cardinality(Live)
                     /\ cyc.spec.maxResources > 0)
                    => Cardinality(Live') <= cyc.spec.maxResources
  <1>1. PoolInv /\ [Next]_vars => [A]_vars
    <2>1. ASSUME PoolInv, Next PROVE A
      <3>1. PICK a, b : a = LiveIn(phase) /\ b = LiveIn(phase')
        OBVIOUS
      <3>2. Live = a /\ Live' = b
        BY <3>1 DEF Live, LiveIn
      <3>3. b \subseteq a => ~(Cardinality(b) > Cardinality(a))
        <4>1. IsFiniteSet(a)
          BY <3>1, RowsFinite DEF LiveIn
        <4>2. ASSUME b \subseteq a PROVE ~(Cardinality(b) > Cardinality(a))
          <5>1. Cardinality(b) <= Cardinality(a)
            BY <4>1, <4>2, FS_Subset
          <5>2. Cardinality(a) \in Nat /\ Cardinality(b) \in Nat
            BY <3>1, CountType
          <5> QED
            BY <5>1, <5>2
        <4> QED
          BY <4>2
      <3>4. \/ b \subseteq a
            \/ cyc.spec.maxResources > 0 => Cardinality(b) <= cyc.spec.maxResources
        BY <2>1, <3>1, StepKeeps, Zenon
      <3> QED
        BY <3>2, <3>3, <3>4, Zenon
    <2> QED
      BY <2>1
  <1>2. Spec => [][A]_vars
    BY <1>1, PoolInvAlways, PTL DEF Spec
  <1> QED
    BY <1>2 DEF CreatesWithinMax

(* A cycle that nobody interferes with stays between the fleet it found    *)
(* and the fleet it is asked for: neither past replicas, in whichever      *)
(* direction, nor below minReady, whatever mix of passes it goes through.  *)
THEOREM CyclesDoNotOvershoot == Spec => NoOvershoot
  <1> DEFINE A == Undisturbed =>
        LET before == SnapCount(CountedPhases)  want == cyc.spec.replicas
        IN  /\ before <= want => Counted' <= want
            /\ before >= want => Counted' >= want
            /\ Cardinality(In({"ready"})')
                  >= Min2(cyc.spec.minReady, SnapCount({"ready"}))
  <1>1. PoolInv /\ [Next]_vars => [A]_vars
    <2>1. ASSUME PoolInv, Next PROVE A
      <3>0. SUFFICES ASSUME Undisturbed
                     PROVE  /\ SnapCount(CountedPhases) <= cyc.spec.replicas =>
                                  Counted' <= cyc.spec.replicas
                            /\ SnapCount(CountedPhases) >= cyc.spec.replicas =>
                                  Counted' >= cyc.spec.replicas
                            /\ Cardinality(In({"ready"})')
                                  >= Min2(cyc.spec.minReady, SnapCount({"ready"}))
        OBVIOUS
      <3>1. cyc.pass # "idle" /\ ~others'
        BY <3>0 DEF Undisturbed
      <3>2. Within
        BY <2>1, <3>1, StepKeeps
      <3>3. PICK d \in CycleTypes : /\ d.snap = cyc.snap /\ d.spec = cyc.spec
                                    /\ SideOf(phase', d) /\ ReadyOf(phase', d)
        BY <3>1, <3>2, Zenon DEF Within
      <3>4. \A ph : SnapCount(ph) = CountIn(d.snap, ph)
        BY <3>3, Zenon DEF SnapCount, CountIn
      <3>5. PICK f : f = phase'
        OBVIOUS
      <3>6. /\ Counted' = CountIn(f, CountedPhases)
            /\ Cardinality(In({"ready"})') = CountIn(f, {"ready"})
        BY <3>5 DEF Counted, In, CountIn
      <3>7. /\ SnapCount(CountedPhases) <= cyc.spec.replicas => Counted' <= cyc.spec.replicas
            /\ SnapCount(CountedPhases) >= cyc.spec.replicas => Counted' >= cyc.spec.replicas
        BY <3>3, <3>4, <3>5, <3>6, Zenon DEF SideOf
      <3>8. PICK a, b, m : a = CountIn(f, {"ready"}) /\ b = CountIn(d.snap, {"ready"})
                           /\ m = d.spec.minReady
        OBVIOUS
      <3>9. a \in Nat /\ b \in Nat /\ m \in Nat /\ d.ready \in Int
        BY <3>8, CountType, SpecFacts
      <3>10. a >= d.ready /\ d.ready >= Min2(m, b)
        BY <3>3, <3>5, <3>8, Zenon DEF ReadyOf
      <3>11. a >= Min2(m, b)
        BY <3>9, <3>10 DEF Min2
      <3>12. Cardinality(In({"ready"})') >= Min2(cyc.spec.minReady, SnapCount({"ready"}))
        BY <3>3, <3>4, <3>6, <3>8, <3>11, Zenon
      <3> QED
        BY <3>7, <3>12
    <2> QED
      BY <2>1
  <1>2. Spec => [][A]_vars
    BY <1>1, PoolInvAlways, PTL DEF Spec
  <1> QED
    BY <1>2 DEF NoOvershoot
=============================================================================
