------------------------ MODULE OperationEngineProofs ------------------------
(***************************************************************************)
(* Proofs about OperationEngine for any sets of rows, operations and       *)
(* machines and any number of faults.                                      *)
(***************************************************************************)
EXTENDS OperationEngine, TLAPS

(* The transition table stays within the phases.                           *)
LEMMA PhaseTable == \A p \in Phases : transitions[p] \subseteq Phases
  BY DEF transitions, Phases

(* So do the failure dispositions.                                         *)
LEMMA FailPhases ==
    \A k \in OpKinds : FailFrom(k) \in Phases /\ FailTo(k) \in Phases
  BY DEF OpKinds, FailFrom, FailTo, Phases

(* Every reading the goroutine starts from is well typed. *)
Readings == [answer : Answers, ref : Machines \cup {Null}, late : BOOLEAN]

(* A goroutine that holds no answer has a reading of the right type.       *)
LEMMA NoReadingType == NoReading \in Readings
  BY DEF Reading, NoReading, Readings, Answers

(* What the goroutine holds while it is inside a handler: a born operation *)
(* in a state that only the handler itself, or Resume, can change.         *)
CurOK ==
    /\ pc # "idle" =>
         /\ cur \in Ops
         /\ opState[cur] # "unborn"
         /\ opKind[cur] \in OpKinds
         /\ opRes[cur] \in Resources
    /\ \A o \in Ops : opState[o] # "unborn" =>
         opKind[o] \in OpKinds /\ opRes[o] \in Resources
    /\ wire \subseteq {o \in Ops : opState[o] # "unborn"}
    /\ \A o \in Ops : opState[o] = "external_accepted" => opRef[o] \in Machines
    /\ \A o \in Ops : opKind[o] \in {"delete", "stop", "start"} => opRef[o] \in Machines
    /\ pc = "apply" => seen = NoReading
    /\ pc = "called" /\ seen.answer = "accepted" => seen.ref \in Machines
    /\ pc = "looked" /\ seen.answer = "found" => seen.ref \in Machines

TypeInv == TypeOK /\ CurOK

(* An operation leaves its machine in one of the machine states.           *)
LEMMA EffectType ==
    ASSUME NEW k \in {"delete", "stop", "start"}, NEW st \in MachineStates
    PROVE  Effect(k, st) \in MachineStates
  BY DEF Effect, MachineStates

(* No request makes a machine appear or disappear at once. *)
LEMMA EffectExists ==
    ASSUME NEW k \in {"delete", "stop", "start"}, NEW st \in MachineStates \ {"absent", "gone"}
    PROVE  Effect(k, st) \notin {"absent", "gone"}
  BY DEF Effect, MachineStates

(* The types hold of an empty store.                                       *)
LEMMA InitTypeInv == Init => TypeInv
  BY NoReadingType DEF Init, TypeInv, TypeOK, CurOK, Readings, Reading, NoReading, Answers, OpKinds,
                 MachineStates, OpenStates, Terminal

(* The journaling handlers keep the types.                                 *)
LEMMA HandlersTypeInv == TypeInv /\ Handlers => TypeInv'
  <1> SUFFICES ASSUME TypeInv, Handlers PROVE TypeInv'
    OBVIOUS
  <1> USE ConstantsAssumption DEF TypeInv, TypeOK, CurOK, resVars, opVars, cloud,
          goroutine, recovery, OpKinds, OpenStates, Terminal
  <1>1. ASSUME NEW r \in Resources, NEW o \in Ops, Journal(r, o) PROVE TypeInv'
    BY <1>1 DEF Journal, Append, Phases
  <1>2. ASSUME NEW r \in Resources, NEW o \in Ops, JournalDelete(r, o) PROVE TypeInv'
    BY <1>2 DEF JournalDelete, Append, Phases
  <1>3. ASSUME NEW r \in Resources, NEW o \in Ops, JournalStop(r, o) PROVE TypeInv'
    BY <1>3 DEF JournalStop, Append, Phases
  <1>4. ASSUME NEW r \in Resources, NEW o \in Ops, JournalStart(r, o) PROVE TypeInv'
    BY <1>4 DEF JournalStart, Append, Phases
  <1>5. ASSUME NEW r \in Resources, TombstoneUnmaterialized(r) PROVE TypeInv'
    BY <1>5 DEF TombstoneUnmaterialized
  <1>6. ASSUME NEW r \in Resources, Reserve(r) PROVE TypeInv'
    BY <1>6 DEF Reserve, Phases
  <1>7. ASSUME NEW r \in Resources, EndLease(r) PROVE TypeInv'
    BY <1>7 DEF EndLease, Phases
  <1>8. ASSUME NEW o \in Ops, ResolveRetryVerification(o) PROVE TypeInv'
    BY <1>8 DEF ResolveRetryVerification, Transition
  <1>9. ASSUME NEW o \in Ops, ResolveMarkFailed(o) PROVE TypeInv'
    BY <1>9 DEF ResolveMarkFailed, Transition, TryCASPhase, Phases
  <1> QED
    BY <1>1, <1>2, <1>3, <1>4, <1>5, <1>6, <1>7, <1>8, <1>9 DEF Handlers

(* The goroutine's dispatch, poll and verify keep the types.               *)
LEMMA EngineTypeInv == TypeInv /\ EngineStep => TypeInv'
  <1> SUFFICES ASSUME TypeInv, EngineStep PROVE TypeInv'
    OBVIOUS
  <1> USE ConstantsAssumption DEF TypeInv, TypeOK, CurOK, resVars, opVars, cloud,
          goroutine, recovery, OpKinds, OpenStates, Terminal
  <1>1. ASSUME NEW o \in Ops, TxB(o) PROVE TypeInv'
    BY <1>1 DEF TxB, Transition, isParkOp, Reading, NoReading, Answers
  <1>2. ASSUME NEW o \in Ops, GiveUp(o) PROVE TypeInv'
    BY FailPhases, <1>2 DEF GiveUp, failOp, Transition, TryCASPhase
  <1>3. ASSUME NEW o \in Ops, PollObserve(o) PROVE TypeInv'
    BY <1>3 DEF PollObserve, ObserveOperation, Reading, NoReading, Answers
  <1>4. ASSUME NEW o \in Ops, VerifyPark(o) PROVE TypeInv'
    BY <1>4 DEF VerifyPark, MoveOnly, Transition
  <1>5. ASSUME NEW o \in Ops, FreezeUncertain(o) PROVE TypeInv'
    BY <1>5 DEF FreezeUncertain, MoveOnly, Transition
  <1>6. ASSUME NEW o \in Ops, VerifyCreate(o) PROVE TypeInv'
    BY <1>6 DEF VerifyCreate, Reading, NoReading, Answers
  <1>7. ASSUME NEW o \in Ops, VerifyDelete(o) PROVE TypeInv'
    BY <1>7 DEF VerifyDelete, Reading, NoReading, Answers
  <1>8. ASSUME ApplyCall PROVE TypeInv'
    BY <1>8 DEF ApplyCall, Reading, NoReading
  <1>9. ASSUME TxC PROVE TypeInv'
    BY <1>9 DEF TxC, Returned, Transition, Return, Reading, NoReading, Answers
  <1>10. ASSUME ApplyDeleteNotFound PROVE TypeInv'
    BY <1>10 DEF ApplyDeleteNotFound, Returned, succeedDelete, Transition, Return, Reading, NoReading, Answers
  <1>11. ASSUME ApplyFailed PROVE TypeInv'
    BY FailPhases, <1>11 DEF ApplyFailed, Returned, failOp, Transition, TryCASPhase, Return, Reading, NoReading, Answers
  <1>12. ASSUME ApplyRetry PROVE TypeInv'
    BY <1>12 DEF ApplyRetry, Returned, MoveOnly, Transition, Return, Reading, NoReading, Answers
  <1>13. ASSUME ApplyUncertain PROVE TypeInv'
    BY <1>13 DEF ApplyUncertain, Returned, MoveOnly, Transition, Return, Reading, NoReading, Answers
  <1>14. ASSUME ApplyRaced PROVE TypeInv'
    BY <1>14 DEF ApplyRaced, Return, Reading, NoReading, Answers
  <1>15. ASSUME PollNotFound PROVE TypeInv'
    BY FailPhases, <1>15 DEF PollNotFound, Polled, isParkOp, succeedDelete, failOp, TryCASPhase, MoveOnly, Transition, Return, Reading, NoReading, Answers
  <1>16. ASSUME PollSucceeded PROVE TypeInv'
    BY <1>16 DEF PollSucceeded, Polled, succeedDelete, succeed, CASPhase, Transition, Return, Reading, NoReading, Answers, Phases
  <1>17. ASSUME PollRolledBack PROVE TypeInv'
    BY <1>17 DEF PollRolledBack, Return, Reading, NoReading, Answers
  <1>18. ASSUME PollFailed PROVE TypeInv'
    BY FailPhases, <1>18 DEF PollFailed, Polled, failOp, TryCASPhase, Transition, Return, Reading, NoReading, Answers
  <1>19. ASSUME PollAgain PROVE TypeInv'
    BY <1>19 DEF PollAgain, Return, Reading, NoReading, Answers
  <1>20. ASSUME ReadinessExhausted PROVE TypeInv'
    BY FailPhases, <1>20 DEF ReadinessExhausted, Polled, TryCASPhase, Transition, Return, Reading, NoReading, Answers, Phases
  <1>21. ASSUME Discover PROVE TypeInv'
    BY <1>21 DEF Discover, ByLabel, Reading, Answers
  <1>22. ASSUME Adopt PROVE TypeInv'
    BY <1>22 DEF Adopt, Looked, Transition, Return, Reading, NoReading, Answers
  <1>23. ASSUME NotListed PROVE TypeInv'
    BY <1>23 DEF NotListed, Looked, MoveOnly, Transition, Return, Reading, NoReading, Answers
  <1>24. ASSUME DeleteVerified PROVE TypeInv'
    BY <1>24 DEF DeleteVerified, Looked, succeedDelete, MoveOnly, Transition, Return, Reading, NoReading, Answers
  <1>25. ASSUME ApplyDedup PROVE TypeInv'
    BY <1>25 DEF ApplyDedup, ByLabel, Reading, Answers
  <1> QED
    BY <1>1, <1>2, <1>3, <1>4, <1>5, <1>6, <1>7, <1>8, <1>9, <1>10, <1>11, <1>12, <1>13,
       <1>14, <1>15, <1>16, <1>17, <1>18, <1>19, <1>20, <1>21, <1>22, <1>23, <1>24, <1>25
       DEF EngineStep

(* Boot recovery keeps the types.                                          *)
LEMMA RecoveryTypeInv == TypeInv /\ Recovery => TypeInv'
  <1> SUFFICES ASSUME TypeInv, Recovery PROVE TypeInv'
    OBVIOUS
  <1> USE ConstantsAssumption DEF TypeInv, TypeOK, CurOK, resVars, opVars, cloud,
          goroutine, recovery, OpKinds, OpenStates, Terminal
  <1>1. ASSUME ResumeScan PROVE TypeInv'
    BY <1>1 DEF ResumeScan
  <1>2. ASSUME ResumeDone PROVE TypeInv'
    BY <1>2 DEF ResumeDone
  <1>3. ASSUME Restart PROVE TypeInv'
    BY <1>3 DEF Restart
  <1>4. ASSUME NEW o \in Ops, ResumeRoute(o) PROVE TypeInv'
    BY <1>4 DEF ResumeRoute, MoveOnly, Transition
  <1>5. ASSUME NEW o \in Ops, ResumeConflict(o) PROVE TypeInv'
    BY <1>5 DEF ResumeConflict
  <1> QED
    BY <1>1, <1>2, <1>3, <1>4, <1>5 DEF Recovery

(* The cloud keeps the types.                                              *)
LEMMA CloudTypeInv == TypeInv /\ CloudStep => TypeInv'
  <1> SUFFICES ASSUME TypeInv, CloudStep PROVE TypeInv'
    OBVIOUS
  <1> USE ConstantsAssumption DEF TypeInv, TypeOK, CurOK, resVars, opVars, cloud,
          goroutine, recovery, OpKinds, OpenStates, Terminal
  <1>1. ASSUME NEW o \in Ops, CloudCreate(o) PROVE TypeInv'
    BY <1>1 DEF CloudCreate, Answer, Awaited, Reading, Answers, MachineStates
  <1>2. ASSUME NEW o \in Ops, CloudApply(o) PROVE TypeInv'
    <2>1. opKind[o] \in {"delete", "stop", "start"} /\ opRef[o] \in Machines
      BY <1>2 DEF CloudApply
    <2>2. Effect(opKind[o], machine[opRef[o]]) \in MachineStates
      BY <2>1, EffectType
    <2>3. machine' \in [Machines -> MachineStates]
      BY <1>2, <2>1, <2>2 DEF CloudApply
    <2>4. seen' \in [answer : Answers, ref : Machines \cup {Null}, late : BOOLEAN]
      <3>1. PICK a \in {"accepted", "not_found"}, x \in Machines \cup {Null} : Answer(o, a, x)
        BY <1>2, <2>1 DEF CloudApply
      <3> QED
        BY <3>1 DEF Answer, Reading, Answers
    <2>5. CurOK'
      BY <1>2, <2>1 DEF CloudApply, Answer, Awaited, Reading
    <2> QED
      BY <1>2, <2>3, <2>4, <2>5 DEF CloudApply
  <1>3. ASSUME NEW x \in Machines, Progress(x) PROVE TypeInv'
    BY <1>3 DEF Progress, MachineStates
  <1>4. ASSUME NEW x \in Machines, BecomeListed(x) PROVE TypeInv'
    BY <1>4 DEF BecomeListed
  <1> QED
    BY <1>1, <1>2, <1>3, <1>4 DEF CloudStep

(* Crashes and failed commits keep the types.                              *)
LEMMA FaultsTypeInv == TypeInv /\ Faults => TypeInv'
  <1> SUFFICES ASSUME TypeInv, Faults PROVE TypeInv'
    OBVIOUS
  <1> USE ConstantsAssumption DEF TypeInv, TypeOK, CurOK, resVars, opVars, cloud,
          goroutine, recovery, OpKinds, OpenStates, Terminal
  <1>1. ASSUME Crash PROVE TypeInv'
    BY <1>1 DEF Crash, Return, Reading, NoReading, Answers
  <1>2. ASSUME ResponseLost PROVE TypeInv'
    BY <1>2 DEF ResponseLost, Reading, Answers
  <1>3. ASSUME TxAborted PROVE TypeInv'
    BY <1>3 DEF TxAborted, Return, Reading, NoReading, Answers
  <1>4. ASSUME NEW o \in Ops, CloudReject(o) PROVE TypeInv'
    BY <1>4 DEF CloudReject, Answer, Awaited, Reading, Answers
  <1>5. ASSUME NEW o \in Ops, RequestLost(o) PROVE TypeInv'
    BY <1>5 DEF RequestLost, Answer, Awaited, Reading, Answers
  <1>6. ASSUME NEW o \in Ops, CloudGivesUp(o) PROVE TypeInv'
    BY <1>6 DEF CloudGivesUp, MachineStates
  <1>7. ASSUME NEW x \in Machines, Vanish(x) PROVE TypeInv'
    BY <1>7 DEF Vanish, MachineStates
  <1>8. ASSUME NEW x \in Machines, StartDies(x) PROVE TypeInv'
    BY <1>8 DEF StartDies, MachineStates
  <1>9. ASSUME CallFailed PROVE TypeInv'
    BY <1>9 DEF CallFailed, Return, Reading, NoReading, Answers
  <1>10. ASSUME ResumeFails PROVE TypeInv'
    BY <1>10 DEF ResumeFails
  <1>11. ASSUME NEW o \in Ops, Unconfigured(o) PROVE TypeInv'
    BY FailPhases, <1>11 DEF Unconfigured, failOp, Transition, TryCASPhase
  <1> QED
    BY <1>1, <1>2, <1>3, <1>4, <1>5, <1>6, <1>7, <1>8, <1>9, <1>10, <1>11 DEF Faults

(* Every step keeps the types.                                             *)
LEMMA NextTypeInv == TypeInv /\ [Next]_vars => TypeInv'
  <1>1. ASSUME TypeInv, NEW o \in Ops, WindowElapses(o) PROVE TypeInv'
    BY <1>1 DEF WindowElapses, TypeInv, TypeOK, CurOK, resVars, cloud, goroutine, recovery
  <1>2. ASSUME TypeInv, UNCHANGED vars PROVE TypeInv'
    BY <1>2 DEF TypeInv, TypeOK, CurOK, vars, resVars, opVars, cloud, goroutine, recovery
  <1> QED
    BY <1>1, <1>2, HandlersTypeInv, EngineTypeInv, RecoveryTypeInv, CloudTypeInv,
       FaultsTypeInv DEF Next

(* Type correctness of the journal, the rows, the cloud and the engine's   *)
(* memory (the columns' CHECK constraints and the handlers' expectations). *)
THEOREM TypeCorrect == Spec => []TypeOK
  <1>1. Spec => []TypeInv
    BY InitTypeInv, NextTypeInv, PTL DEF Spec
  <1> QED
    BY <1>1, PTL DEF TypeInv

-----------------------------------------------------------------------------
(* The crash partition: RedispatchInv is inductive relative to TypeInv.    *)

(* It reads the journal states and kinds, the windows, the cloud and the   *)
(* goroutine, and nothing else.                                            *)
LEMMA RedispatchFrame ==
    RedispatchInv /\ UNCHANGED <<opState, opKind, elapsed, machine, label, listed, wire,
                                 pc, cur, seen>>
      => RedispatchInv'
  BY DEF RedispatchInv, SafeRedispatch, OneMachinePerCreate, WireInv, LabelInv,
         ElapsedInv, HandlerInv, NoTrace, Exists

(* A handler journals only new operations, which have no request and no    *)
(* machine.                                                                *)
LEMMA HandlersRedispatch ==
    ASSUME WindowCoversLag, TypeInv, RedispatchInv, Handlers
    PROVE  RedispatchInv'
  <1> USE DEF TypeInv, TypeOK, CurOK, RedispatchInv, SafeRedispatch, OneMachinePerCreate,
          WireInv, LabelInv, ElapsedInv, HandlerInv, NoTrace, Exists,
          resVars, opVars, cloud, goroutine, recovery
  <1>1. ASSUME NEW r \in Resources, NEW o \in Ops, Journal(r, o) PROVE RedispatchInv'
    BY <1>1 DEF Journal, Append
  <1>2. ASSUME NEW r \in Resources, NEW o \in Ops, JournalDelete(r, o) PROVE RedispatchInv'
    BY <1>2 DEF JournalDelete, Append
  <1>3. ASSUME NEW r \in Resources, NEW o \in Ops, JournalStop(r, o) PROVE RedispatchInv'
    BY <1>3 DEF JournalStop, Append
  <1>4. ASSUME NEW r \in Resources, NEW o \in Ops, JournalStart(r, o) PROVE RedispatchInv'
    BY <1>4 DEF JournalStart, Append
  <1>5. ASSUME NEW r \in Resources, TombstoneUnmaterialized(r) PROVE RedispatchInv'
    BY <1>5 DEF TombstoneUnmaterialized
  <1>6. ASSUME NEW r \in Resources, Reserve(r) PROVE RedispatchInv'
    BY <1>6 DEF Reserve
  <1>7. ASSUME NEW r \in Resources, EndLease(r) PROVE RedispatchInv'
    BY <1>7 DEF EndLease
  <1>8. ASSUME NEW o \in Ops, ResolveRetryVerification(o) PROVE RedispatchInv'
    BY <1>8 DEF ResolveRetryVerification, Transition
  <1>9. ASSUME NEW o \in Ops, ResolveMarkFailed(o) PROVE RedispatchInv'
    BY <1>9 DEF ResolveMarkFailed, Transition
  <1> QED
    BY <1>1, <1>2, <1>3, <1>4, <1>5, <1>6, <1>7, <1>8, <1>9 DEF Handlers

(* The goroutine sends an operation back to the journal only if its driver *)
(* or an empty list, read after the deadline, says that nothing is there.  *)
LEMMA EngineRedispatch ==
    ASSUME WindowCoversLag, TypeInv, RedispatchInv, EngineStep
    PROVE  RedispatchInv'
  <1> USE DEF TypeInv, TypeOK, CurOK, RedispatchInv, SafeRedispatch, OneMachinePerCreate,
          WireInv, LabelInv, ElapsedInv, HandlerInv, NoTrace, Exists,
          resVars, opVars, cloud, goroutine, recovery
  <1>1. ASSUME NEW o \in Ops, TxB(o) PROVE RedispatchInv'
    BY <1>1 DEF TxB, Transition, Reading, NoReading
  <1>2. ASSUME NEW o \in Ops, GiveUp(o) PROVE RedispatchInv'
    BY <1>2 DEF GiveUp, failOp, Transition, isParkOp
  <1>3. ASSUME NEW o \in Ops, PollObserve(o) PROVE RedispatchInv'
    BY <1>3 DEF PollObserve, Reading
  <1>4. ASSUME NEW o \in Ops, VerifyPark(o) PROVE RedispatchInv'
    BY <1>4 DEF VerifyPark, MoveOnly, Transition, isParkOp
  <1>5. ASSUME NEW o \in Ops, FreezeUncertain(o) PROVE RedispatchInv'
    BY <1>5 DEF FreezeUncertain, MoveOnly, Transition
  <1>6. ASSUME NEW o \in Ops, VerifyCreate(o) PROVE RedispatchInv'
    <2>1. seen'.answer = "pending" /\ (seen'.late => o \in elapsed)
      BY <1>6 DEF VerifyCreate, Reading
    <2> QED
      BY <1>6, <2>1 DEF VerifyCreate
  <1>7. ASSUME NEW o \in Ops, VerifyDelete(o) PROVE RedispatchInv'
    BY <1>7 DEF VerifyDelete, Reading
  <1>8. ASSUME ApplyCall PROVE RedispatchInv'
    BY <1>8 DEF ApplyCall, Reading, NoReading
  <1>9. ASSUME TxC PROVE RedispatchInv'
    BY <1>9 DEF TxC, Returned, Transition, Return, Reading, NoReading
  <1>10. ASSUME ApplyDeleteNotFound PROVE RedispatchInv'
    BY <1>10 DEF ApplyDeleteNotFound, Returned, succeedDelete, Transition, Return, Reading, NoReading
  <1>11. ASSUME ApplyFailed PROVE RedispatchInv'
    BY <1>11 DEF ApplyFailed, Returned, failOp, Transition, Return, Reading, NoReading
  <1>12. ASSUME ApplyRetry PROVE RedispatchInv'
    BY <1>12 DEF ApplyRetry, Returned, MoveOnly, Transition, Return, Reading, NoReading, isParkOp
  <1>13. ASSUME ApplyUncertain PROVE RedispatchInv'
    BY <1>13 DEF ApplyUncertain, Returned, MoveOnly, Transition, Return, Reading, NoReading
  <1>14. ASSUME ApplyRaced PROVE RedispatchInv'
    BY <1>14 DEF ApplyRaced, Return, Reading, NoReading
  <1>15. ASSUME PollNotFound PROVE RedispatchInv'
    BY <1>15 DEF PollNotFound, Polled, succeedDelete, failOp, MoveOnly, Transition, Return, Reading, NoReading
  <1>16. ASSUME PollSucceeded PROVE RedispatchInv'
    BY <1>16 DEF PollSucceeded, Polled, succeedDelete, succeed, Transition, Return, Reading, NoReading
  <1>17. ASSUME PollRolledBack PROVE RedispatchInv'
    BY <1>17 DEF PollRolledBack, Return, Reading, NoReading
  <1>18. ASSUME PollFailed PROVE RedispatchInv'
    BY <1>18 DEF PollFailed, Polled, failOp, Transition, Return, Reading, NoReading
  <1>19. ASSUME PollAgain PROVE RedispatchInv'
    BY <1>19 DEF PollAgain, Return, Reading, NoReading
  <1>20. ASSUME ReadinessExhausted PROVE RedispatchInv'
    BY <1>20 DEF ReadinessExhausted, Polled, Transition, Return, Reading, NoReading
  <1>21. ASSUME Discover PROVE RedispatchInv'
    <2>1. seen'.late = seen.late /\ seen'.answer \in {"found", "not_found"}
      BY <1>21 DEF Discover, Reading
    <2>2. seen'.answer = "found" => \E x \in Machines : Exists(x) /\ label[x] = cur
      BY <1>21 DEF Discover, ByLabel, Reading
    <2>3. seen'.answer = "not_found" =>
            \A x \in Machines : label[x] = cur /\ Exists(x) => x \notin listed
      BY <1>21 DEF Discover, ByLabel, Reading
    <2>4. cur \in Ops /\ opState[cur] = "verifying" /\ (seen.late => cur \in elapsed)
      BY <1>21 DEF Discover
    <2>5. (pc = "looked" /\ seen.answer = "found" => cur \notin wire)'
      BY <1>21, <2>2, <2>4 DEF Discover
    <2>6. (pc = "looked" /\ seen.answer = "not_found" /\ seen.late => NoTrace(cur))'
      BY <1>21, <2>1, <2>3, <2>4 DEF Discover
    <2> QED
      <3>1. UNCHANGED <<opState, opKind, elapsed, machine, label, listed, wire, cur>>
            /\ pc' = "looked"
        BY <1>21 DEF Discover
      <3>2. HandlerInv'
        BY <2>1, <2>4, <2>5, <2>6, <3>1
      <3> QED
        BY <3>1, <3>2
  <1>22. ASSUME Adopt PROVE RedispatchInv'
    BY <1>22 DEF Adopt, Looked, Transition, Return, Reading, NoReading
  <1>23. ASSUME NotListed PROVE RedispatchInv'
    BY <1>23 DEF NotListed, Looked, MoveOnly, Transition, Return, Reading, NoReading
  <1>24. ASSUME DeleteVerified PROVE RedispatchInv'
    BY <1>24 DEF DeleteVerified, Looked, succeedDelete, MoveOnly, Transition, Return, Reading, NoReading
  <1>25. ASSUME ApplyDedup PROVE RedispatchInv'
    BY <1>25 DEF ApplyDedup, ByLabel, Reading, Answers
  <1> QED
    BY <1>1, <1>2, <1>3, <1>4, <1>5, <1>6, <1>7, <1>8, <1>9, <1>10, <1>11, <1>12, <1>13,
       <1>14, <1>15, <1>16, <1>17, <1>18, <1>19, <1>20, <1>21, <1>22, <1>23, <1>24, <1>25
       DEF EngineStep

(* Resume routes to verification, never back to the journal.               *)
LEMMA RecoveryRedispatch ==
    ASSUME WindowCoversLag, TypeInv, RedispatchInv, Recovery
    PROVE  RedispatchInv'
  <1> USE DEF TypeInv, TypeOK, CurOK, RedispatchInv, SafeRedispatch, OneMachinePerCreate,
          WireInv, LabelInv, ElapsedInv, HandlerInv, NoTrace, Exists,
          resVars, opVars, cloud, goroutine, recovery
  <1>1. ASSUME ResumeScan PROVE RedispatchInv'
    BY <1>1 DEF ResumeScan
  <1>2. ASSUME ResumeDone PROVE RedispatchInv'
    BY <1>2 DEF ResumeDone
  <1>3. ASSUME Restart PROVE RedispatchInv'
    BY <1>3 DEF Restart
  <1>4. ASSUME NEW o \in Ops, ResumeRoute(o) PROVE RedispatchInv'
    BY <1>4 DEF ResumeRoute, MoveOnly, Transition
  <1>5. ASSUME NEW o \in Ops, ResumeConflict(o) PROVE RedispatchInv'
    BY <1>5 DEF ResumeConflict
  <1> QED
    BY <1>1, <1>2, <1>3, <1>4, <1>5 DEF Recovery

(* A request that lands is of an operation that is not in the journal to   *)
(* be sent again.                                                          *)
LEMMA CloudRedispatch ==
    ASSUME WindowCoversLag, TypeInv, RedispatchInv, CloudStep
    PROVE  RedispatchInv'
  <1> USE DEF TypeInv, TypeOK, CurOK, RedispatchInv, SafeRedispatch, OneMachinePerCreate,
          WireInv, LabelInv, ElapsedInv, HandlerInv, NoTrace, Exists,
          resVars, opVars, cloud, goroutine, recovery
  <1>1. ASSUME NEW o \in Ops, CloudCreate(o) PROVE RedispatchInv'
    BY <1>1 DEF CloudCreate, Answer, Awaited, Reading
  <1>2. ASSUME NEW o \in Ops, CloudApply(o) PROVE RedispatchInv'
    <2>1. opKind[o] \in {"delete", "stop", "start"} /\ opRef[o] \in Machines
      BY <1>2 DEF CloudApply, OpKinds
    <2>2. \A x \in Machines : /\ Exists(x)' <=> Exists(x)
                              /\ machine'[x] = "absent" <=> machine[x] = "absent"
      <3>1. CASE Exists(opRef[o])
        <4>1. Effect(opKind[o], machine[opRef[o]]) \notin {"absent", "gone"}
          BY <2>1, <3>1, EffectExists
        <4> QED
          BY <1>2, <2>1, <3>1, <4>1 DEF CloudApply
      <3>2. CASE ~Exists(opRef[o])
        BY <1>2, <3>2 DEF CloudApply
      <3> QED
        BY <3>1, <3>2
    <2>3. seen'.answer \in {seen.answer, "accepted", "not_found"} /\ seen'.late \in {seen.late, FALSE}
      <3>1. PICK a \in {"accepted", "not_found"}, x \in Machines \cup {Null} : Answer(o, a, x)
        BY <1>2, <2>1 DEF CloudApply
      <3> QED
        BY <3>1 DEF Answer, Reading
    <2>4. seen' # seen => pc = "called" /\ cur = o
      BY <1>2 DEF CloudApply, Answer, Awaited
    <2> QED
      BY <1>2, <2>1, <2>2, <2>3, <2>4 DEF CloudApply
  <1>3. ASSUME NEW x \in Machines, Progress(x) PROVE RedispatchInv'
    BY <1>3 DEF Progress
  <1>4. ASSUME NEW x \in Machines, BecomeListed(x) PROVE RedispatchInv'
    BY <1>4 DEF BecomeListed
  <1> QED
    BY <1>1, <1>2, <1>3, <1>4 DEF CloudStep

(* Faults lose requests, answers and memory, and send nothing back to the  *)
(* journal.                                                                *)
LEMMA FaultsRedispatch ==
    ASSUME WindowCoversLag, TypeInv, RedispatchInv, Faults
    PROVE  RedispatchInv'
  <1> USE DEF TypeInv, TypeOK, CurOK, RedispatchInv, SafeRedispatch, OneMachinePerCreate,
          WireInv, LabelInv, ElapsedInv, HandlerInv, NoTrace, Exists,
          resVars, opVars, cloud, goroutine, recovery
  <1>1. ASSUME Crash PROVE RedispatchInv'
    BY <1>1 DEF Crash, Return, Reading, NoReading
  <1>2. ASSUME ResponseLost PROVE RedispatchInv'
    BY <1>2 DEF ResponseLost, Reading
  <1>3. ASSUME TxAborted PROVE RedispatchInv'
    BY <1>3 DEF TxAborted, Return, Reading, NoReading
  <1>4. ASSUME CallFailed PROVE RedispatchInv'
    BY <1>4 DEF CallFailed, Return, Reading, NoReading
  <1>5. ASSUME ResumeFails PROVE RedispatchInv'
    BY <1>5 DEF ResumeFails
  <1>6. ASSUME NEW o \in Ops, CloudReject(o) PROVE RedispatchInv'
    BY <1>6 DEF CloudReject, Answer, Awaited, Reading
  <1>7. ASSUME NEW o \in Ops, RequestLost(o) PROVE RedispatchInv'
    BY <1>7 DEF RequestLost, Answer, Awaited, Reading
  <1>8. ASSUME NEW o \in Ops, CloudGivesUp(o) PROVE RedispatchInv'
    BY <1>8 DEF CloudGivesUp
  <1>9. ASSUME NEW o \in Ops, Unconfigured(o) PROVE RedispatchInv'
    BY <1>9 DEF Unconfigured, failOp, Transition
  <1>10. ASSUME NEW x \in Machines, Vanish(x) PROVE RedispatchInv'
    BY <1>10 DEF Vanish
  <1>11. ASSUME NEW x \in Machines, StartDies(x) PROVE RedispatchInv'
    BY <1>11 DEF StartDies
  <1> QED
    BY <1>1, <1>2, <1>3, <1>4, <1>5, <1>6, <1>7, <1>8, <1>9, <1>10, <1>11 DEF Faults

(* RedispatchInv is inductive, given the types.                            *)
LEMMA NextRedispatch == TypeInv /\ RedispatchInv /\ [Next]_vars => RedispatchInv'
  <1> SUFFICES ASSUME TypeInv, RedispatchInv, [Next]_vars, WindowCoversLag
               PROVE  RedispatchInv'
    BY DEF RedispatchInv
  <1>1. ASSUME NEW o \in Ops, WindowElapses(o) PROVE RedispatchInv'
    BY <1>1 DEF WindowElapses, TypeInv, TypeOK, CurOK, RedispatchInv, SafeRedispatch,
       OneMachinePerCreate, WireInv, LabelInv, ElapsedInv, HandlerInv, NoTrace, Exists,
       cloud, goroutine
  <1>2. ASSUME UNCHANGED vars PROVE RedispatchInv'
    BY <1>2, RedispatchFrame DEF vars, opVars, cloud, goroutine
  <1> QED
    BY <1>1, <1>2, HandlersRedispatch, EngineRedispatch, RecoveryRedispatch,
       CloudRedispatch, FaultsRedispatch DEF Next

(* It holds of an empty store.                                             *)
LEMMA InitRedispatch == Init => RedispatchInv
  BY ConstantsAssumption DEF Init, RedispatchInv, SafeRedispatch, OneMachinePerCreate, WireInv, LabelInv,
         ElapsedInv, HandlerInv, NoTrace, Exists

(* RedispatchInv always holds.                                             *)
LEMMA RedispatchInvariant == Spec => []RedispatchInv
  <1>1. Spec => [](TypeInv /\ RedispatchInv)
    BY InitTypeInv, NextTypeInv, InitRedispatch, NextRedispatch, PTL DEF Spec
  <1> QED
    BY <1>1, PTL

(* The crash partition of dispatch, handleApplyError, verify and Resume:   *)
(* whatever crashes, times out or lands late, a create that the engine     *)
(* will dispatch has no request under way and no machine.                  *)
THEOREM RedispatchIsSafe == Spec => []SafeRedispatch
  BY RedispatchInvariant, PTL DEF RedispatchInv, SafeRedispatch

(* Invariant 7 of the code: re-dispatching with the same operation ID      *)
(* never leaves two machines that carry its label.                         *)
THEOREM CreateIsUnique == Spec => []OneMachinePerCreate
  BY RedispatchInvariant, PTL DEF RedispatchInv, OneMachinePerCreate

-----------------------------------------------------------------------------
(* The rows and their operations.  JournalInv is inductive relative to     *)
(* TypeInv: an operation belongs to a row that exists; a row has at most   *)
(* one open operation, and none beside a create that is still open; only   *)
(* creates are frozen; a leased row is live and allocated.                 *)

RowsBorn ==
    \A o \in Ops : opState[o] # "unborn" => phase[opRes[o]] # "none"

OneOpen ==
    \A o, p \in Ops : Open(o) /\ Open(p) /\ opRes[o] = opRes[p] => o = p

CreateAlone ==
    \A o, p \in Ops :
        /\ Open(o) /\ opKind[o] = "create"
        /\ opState[p] # "unborn" /\ opRes[p] = opRes[o]
        => p = o

OnlyCreatesFreeze ==
    \A o \in Ops : opState[o] = "uncertain" => opKind[o] = "create"

LeasedAllocated ==
    \A r \in leased : Live(r) /\ phase[r] = "allocated"

JournalInv ==
    /\ RowsBorn /\ OneOpen /\ CreateAlone /\ OnlyCreatesFreeze
    /\ LeasedAllocated /\ TransientHasOp

(* failOp's disposition, per kind. *)
LEMMA FailTable ==
    /\ FailFrom("create") = "provisioning" /\ FailTo("create") = "failed"
    /\ FailFrom("delete") = "deleting" /\ FailTo("delete") = "failed"
    /\ FailFrom("stop") = "parking" /\ FailTo("stop") = "ready"
    /\ FailFrom("start") = "starting" /\ FailTo("start") = "parked"
  BY DEF FailFrom, FailTo

(* The phases that FailFrom names.                                         *)
LEMMA TransientPhases == Transient = {"provisioning", "deleting", "parking", "starting"}
  <1>1. \A p : p \in Transient <=> \E k \in OpKinds : p = FailFrom(k)
    BY Zenon DEF Transient
  <1> QED
    BY <1>1, FailTable DEF OpKinds

(* A handler journals only on a row without open operation, and moves the  *)
(* row with it.                                                            *)
LEMMA HandlersJournal ==
    ASSUME TypeInv, JournalInv, Handlers
    PROVE  JournalInv'
  <1> USE ConstantsAssumption, FailTable, TransientPhases DEF TypeInv, TypeOK, CurOK, JournalInv, RowsBorn, OneOpen,
          CreateAlone, OnlyCreatesFreeze, LeasedAllocated, TransientHasOp, Live,
          OpenOpsOf, Open, OpenStates, Terminal, OpKinds, isParkOp, resVars, opVars,
          cloud, goroutine, recovery
  <1>1. ASSUME NEW r \in Resources, NEW o \in Ops, Journal(r, o) PROVE JournalInv'
    BY <1>1 DEF Journal, Append
  <1>2. ASSUME NEW r \in Resources, NEW o \in Ops, JournalDelete(r, o) PROVE JournalInv'
    BY <1>2 DEF JournalDelete, Append
  <1>3. ASSUME NEW r \in Resources, NEW o \in Ops, JournalStop(r, o) PROVE JournalInv'
    BY <1>3 DEF JournalStop, Append
  <1>4. ASSUME NEW r \in Resources, NEW o \in Ops, JournalStart(r, o) PROVE JournalInv'
    BY <1>4 DEF JournalStart, Append
  <1>5. ASSUME NEW r \in Resources, TombstoneUnmaterialized(r) PROVE JournalInv'
    BY <1>5 DEF TombstoneUnmaterialized
  <1>6. ASSUME NEW r \in Resources, Reserve(r) PROVE JournalInv'
    BY <1>6 DEF Reserve
  <1>7. ASSUME NEW r \in Resources, EndLease(r) PROVE JournalInv'
    BY <1>7 DEF EndLease
  <1>8. ASSUME NEW o \in Ops, ResolveRetryVerification(o) PROVE JournalInv'
    BY <1>8 DEF ResolveRetryVerification, Transition
  <1>9. ASSUME NEW o \in Ops, ResolveMarkFailed(o) PROVE JournalInv'
    BY <1>9 DEF ResolveMarkFailed, Transition, TryCASPhase
  <1> QED
    BY <1>1, <1>2, <1>3, <1>4, <1>5, <1>6, <1>7, <1>8, <1>9 DEF Handlers

(* The goroutine ends an operation and moves its row in one transaction,   *)
(* or neither.                                                             *)
LEMMA EngineJournal ==
    ASSUME TypeInv, JournalInv, EngineStep
    PROVE  JournalInv'
  <1> USE ConstantsAssumption, FailTable, TransientPhases DEF TypeInv, TypeOK, CurOK, JournalInv, RowsBorn, OneOpen,
          CreateAlone, OnlyCreatesFreeze, LeasedAllocated, TransientHasOp, Live,
          OpenOpsOf, Open, OpenStates, Terminal, OpKinds, isParkOp, resVars, opVars,
          cloud, goroutine, recovery
  <1>1. ASSUME NEW o \in Ops, TxB(o) PROVE JournalInv'
    BY <1>1 DEF TxB, Transition
  <1>2. ASSUME NEW o \in Ops, GiveUp(o) PROVE JournalInv'
    BY <1>2 DEF GiveUp, failOp, Transition, TryCASPhase
  <1>3. ASSUME NEW o \in Ops, PollObserve(o) PROVE JournalInv'
    BY <1>3 DEF PollObserve
  <1>4. ASSUME NEW o \in Ops, VerifyPark(o) PROVE JournalInv'
    BY <1>4 DEF VerifyPark, MoveOnly, Transition
  <1>5. ASSUME NEW o \in Ops, FreezeUncertain(o) PROVE JournalInv'
    BY <1>5 DEF FreezeUncertain, MoveOnly, Transition
  <1>6. ASSUME NEW o \in Ops, VerifyCreate(o) PROVE JournalInv'
    BY <1>6 DEF VerifyCreate
  <1>7. ASSUME NEW o \in Ops, VerifyDelete(o) PROVE JournalInv'
    BY <1>7 DEF VerifyDelete
  <1>8. ASSUME ApplyCall PROVE JournalInv'
    BY <1>8 DEF ApplyCall
  <1>9. ASSUME ApplyDedup PROVE JournalInv'
    BY <1>9 DEF ApplyDedup
  <1>10. ASSUME TxC PROVE JournalInv'
    BY <1>10 DEF TxC, Returned, Transition, Return
  <1>11. ASSUME ApplyDeleteNotFound PROVE JournalInv'
    BY <1>11 DEF ApplyDeleteNotFound, Returned, succeedDelete, Transition, Return
  <1>12. ASSUME ApplyFailed PROVE JournalInv'
    BY <1>12 DEF ApplyFailed, Returned, failOp, Transition, TryCASPhase, Return
  <1>13. ASSUME ApplyRetry PROVE JournalInv'
    BY <1>13 DEF ApplyRetry, Returned, MoveOnly, Transition, Return
  <1>14. ASSUME ApplyUncertain PROVE JournalInv'
    BY <1>14 DEF ApplyUncertain, Returned, MoveOnly, Transition, Return
  <1>15. ASSUME ApplyRaced PROVE JournalInv'
    BY <1>15 DEF ApplyRaced, Return
  <1>16. ASSUME PollNotFound PROVE JournalInv'
    BY <1>16 DEF PollNotFound, Polled, succeedDelete, failOp, TryCASPhase, MoveOnly,
       Transition, Return
  <1>17. ASSUME PollSucceeded PROVE JournalInv'
    BY <1>17 DEF PollSucceeded, Polled, succeedDelete, succeed, CASPhase, Transition,
       Return
  <1>18. ASSUME PollRolledBack PROVE JournalInv'
    BY <1>18 DEF PollRolledBack, Return
  <1>19. ASSUME PollFailed PROVE JournalInv'
    BY <1>19 DEF PollFailed, Polled, failOp, TryCASPhase, Transition, Return
  <1>20. ASSUME PollAgain PROVE JournalInv'
    BY <1>20 DEF PollAgain, Return
  <1>21. ASSUME ReadinessExhausted PROVE JournalInv'
    BY <1>21 DEF ReadinessExhausted, Polled, TryCASPhase, Transition, Return
  <1>22. ASSUME Discover PROVE JournalInv'
    BY <1>22 DEF Discover
  <1>23. ASSUME Adopt PROVE JournalInv'
    BY <1>23 DEF Adopt, Looked, Transition, Return
  <1>24. ASSUME NotListed PROVE JournalInv'
    BY <1>24 DEF NotListed, Looked, MoveOnly, Transition, Return
  <1>25. ASSUME DeleteVerified PROVE JournalInv'
    BY <1>25 DEF DeleteVerified, Looked, succeedDelete, MoveOnly, Transition, Return
  <1> QED
    BY <1>1, <1>2, <1>3, <1>4, <1>5, <1>6, <1>7, <1>8, <1>9, <1>10, <1>11, <1>12, <1>13,
       <1>14, <1>15, <1>16, <1>17, <1>18, <1>19, <1>20, <1>21, <1>22, <1>23, <1>24,
       <1>25 DEF EngineStep

(* Resume leaves the rows alone and ends nothing.                          *)
LEMMA RecoveryJournal ==
    ASSUME TypeInv, JournalInv, Recovery
    PROVE  JournalInv'
  <1> USE ConstantsAssumption, FailTable, TransientPhases DEF TypeInv, TypeOK, CurOK, JournalInv, RowsBorn, OneOpen,
          CreateAlone, OnlyCreatesFreeze, LeasedAllocated, TransientHasOp, Live,
          OpenOpsOf, Open, OpenStates, Terminal, OpKinds, isParkOp, resVars, opVars,
          cloud, goroutine, recovery
  <1>1. ASSUME ResumeScan PROVE JournalInv'
    BY <1>1 DEF ResumeScan
  <1>2. ASSUME ResumeDone PROVE JournalInv'
    BY <1>2 DEF ResumeDone
  <1>3. ASSUME Restart PROVE JournalInv'
    BY <1>3 DEF Restart
  <1>4. ASSUME NEW o \in Ops, ResumeRoute(o) PROVE JournalInv'
    BY <1>4 DEF ResumeRoute, MoveOnly, Transition
  <1>5. ASSUME NEW o \in Ops, ResumeConflict(o) PROVE JournalInv'
    BY <1>5 DEF ResumeConflict
  <1> QED
    BY <1>1, <1>2, <1>3, <1>4, <1>5 DEF Recovery

(* The cloud writes no row.                                                *)
LEMMA CloudJournal ==
    ASSUME TypeInv, JournalInv, CloudStep
    PROVE  JournalInv'
  <1> USE ConstantsAssumption, FailTable, TransientPhases DEF TypeInv, TypeOK, CurOK, JournalInv, RowsBorn, OneOpen,
          CreateAlone, OnlyCreatesFreeze, LeasedAllocated, TransientHasOp, Live,
          OpenOpsOf, Open, OpenStates, Terminal, OpKinds, isParkOp, resVars, opVars,
          cloud, goroutine, recovery
  <1>1. ASSUME NEW o \in Ops, CloudCreate(o) PROVE JournalInv'
    BY <1>1 DEF CloudCreate
  <1>2. ASSUME NEW o \in Ops, CloudApply(o) PROVE JournalInv'
    BY <1>2 DEF CloudApply
  <1>3. ASSUME NEW x \in Machines, Progress(x) PROVE JournalInv'
    BY <1>3 DEF Progress
  <1>4. ASSUME NEW x \in Machines, BecomeListed(x) PROVE JournalInv'
    BY <1>4 DEF BecomeListed
  <1> QED
    BY <1>1, <1>2, <1>3, <1>4 DEF CloudStep

(* Crashes and failed commits write nothing, and what fails for want of a  *)
(* driver moves its row too.                                               *)
LEMMA FaultsJournal ==
    ASSUME TypeInv, JournalInv, Faults
    PROVE  JournalInv'
  <1> USE ConstantsAssumption, FailTable, TransientPhases DEF TypeInv, TypeOK, CurOK, JournalInv, RowsBorn, OneOpen,
          CreateAlone, OnlyCreatesFreeze, LeasedAllocated, TransientHasOp, Live,
          OpenOpsOf, Open, OpenStates, Terminal, OpKinds, isParkOp, resVars, opVars,
          cloud, goroutine, recovery
  <1>1. ASSUME Crash PROVE JournalInv'
    BY <1>1 DEF Crash, Return
  <1>2. ASSUME ResponseLost PROVE JournalInv'
    BY <1>2 DEF ResponseLost
  <1>3. ASSUME TxAborted PROVE JournalInv'
    BY <1>3 DEF TxAborted, Return
  <1>4. ASSUME CallFailed PROVE JournalInv'
    BY <1>4 DEF CallFailed, Return
  <1>5. ASSUME ResumeFails PROVE JournalInv'
    BY <1>5 DEF ResumeFails
  <1>6. ASSUME NEW o \in Ops, CloudReject(o) PROVE JournalInv'
    BY <1>6 DEF CloudReject
  <1>7. ASSUME NEW o \in Ops, RequestLost(o) PROVE JournalInv'
    BY <1>7 DEF RequestLost
  <1>8. ASSUME NEW o \in Ops, CloudGivesUp(o) PROVE JournalInv'
    BY <1>8 DEF CloudGivesUp
  <1>9. ASSUME NEW o \in Ops, Unconfigured(o) PROVE JournalInv'
    BY <1>9 DEF Unconfigured, failOp, Transition, TryCASPhase
  <1>10. ASSUME NEW x \in Machines, Vanish(x) PROVE JournalInv'
    BY <1>10 DEF Vanish
  <1>11. ASSUME NEW x \in Machines, StartDies(x) PROVE JournalInv'
    BY <1>11 DEF StartDies
  <1> QED
    BY <1>1, <1>2, <1>3, <1>4, <1>5, <1>6, <1>7, <1>8, <1>9, <1>10, <1>11 DEF Faults

(* JournalInv is inductive, given the types.                               *)
LEMMA NextJournal == TypeInv /\ JournalInv /\ [Next]_vars => JournalInv'
  <1> SUFFICES ASSUME TypeInv, JournalInv, [Next]_vars PROVE JournalInv'
    OBVIOUS
  <1>1. ASSUME NEW o \in Ops, WindowElapses(o) PROVE JournalInv'
    BY <1>1 DEF WindowElapses, JournalInv, RowsBorn, OneOpen, CreateAlone,
       OnlyCreatesFreeze, LeasedAllocated, TransientHasOp, Live, OpenOpsOf, Open, resVars, cloud, goroutine, recovery
  <1>2. CASE UNCHANGED vars
    BY <1>2 DEF vars, JournalInv, RowsBorn, OneOpen, CreateAlone,
       OnlyCreatesFreeze, LeasedAllocated, TransientHasOp, Live, OpenOpsOf, Open, resVars, opVars, cloud, goroutine, recovery
  <1> QED
    BY <1>1, <1>2, HandlersJournal, EngineJournal, RecoveryJournal, CloudJournal, FaultsJournal
       DEF Next

(* JournalInv always holds.                                                *)
LEMMA JournalInvariant == Spec => [](TypeInv /\ JournalInv)
  <1>1. Init => JournalInv
    BY DEF Init, JournalInv, RowsBorn, OneOpen, CreateAlone, OnlyCreatesFreeze,
       LeasedAllocated, TransientHasOp, Live, OpenOpsOf, Open, OpenStates
  <1> QED
    BY <1>1, InitTypeInv, NextTypeInv, NextJournal, PTL DEF Spec

(* The phase of a live row and its open operation are always in step,      *)
(* although handlers, engine, operator and Resume write them in separate   *)
(* transactions: no row is wedged in provisioning, deleting, parking or    *)
(* starting, and no operation works on a row that went elsewhere.          *)
THEOREM TransientRowsHaveOps == Spec => []TransientHasOp
  BY JournalInvariant, PTL DEF JournalInv

-----------------------------------------------------------------------------
(* Phases move along the table of phase.go: the CAS of each writer names a *)
(* pair the table allows.                                                  *)

(* The moves of the table that the engine and the handlers make.           *)
LEMMA LegalMoves ==
    /\ CanTransition("provisioning", "ready") /\ CanTransition("provisioning", "failed")
    /\ CanTransition("ready", "allocated") /\ CanTransition("allocated", "ready")
    /\ CanTransition("ready", "parking") /\ CanTransition("parking", "parked")
    /\ CanTransition("parking", "ready") /\ CanTransition("parked", "starting")
    /\ CanTransition("starting", "ready") /\ CanTransition("starting", "parked")
    /\ CanTransition("starting", "failed") /\ CanTransition("deleting", "failed")
  BY DEF CanTransition, transitions, Phases

LegalStep ==
    \A r \in Resources :
        phase[r] \notin {"none", phase'[r]} => CanTransition(phase[r], phase'[r])

(* Every step moves phases along the table.                                *)
LEMMA NextLegal == TypeInv /\ [Next]_vars => LegalStep
  <1> SUFFICES ASSUME TypeInv, [Next]_vars PROVE LegalStep
    OBVIOUS
  <1> USE LegalMoves, FailTable DEF LegalStep, TypeInv, TypeOK, CurOK, OpKinds, OpenStates
  <1>1. ASSUME NEW r \in Resources, NEW o \in Ops, Journal(r, o) PROVE LegalStep
    BY <1>1 DEF Journal, Append
  <1>2. ASSUME NEW r \in Resources, NEW o \in Ops, JournalDelete(r, o) PROVE LegalStep
    BY <1>2 DEF JournalDelete, Append
  <1>3. ASSUME NEW r \in Resources, NEW o \in Ops, JournalStop(r, o) PROVE LegalStep
    BY <1>3 DEF JournalStop, Append
  <1>4. ASSUME NEW r \in Resources, NEW o \in Ops, JournalStart(r, o) PROVE LegalStep
    BY <1>4 DEF JournalStart, Append
  <1>5. ASSUME NEW r \in Resources, Reserve(r) PROVE LegalStep
    BY <1>5 DEF Reserve
  <1>6. ASSUME NEW r \in Resources, EndLease(r) PROVE LegalStep
    BY <1>6 DEF EndLease
  <1>7. ASSUME NEW o \in Ops, ResolveMarkFailed(o) PROVE LegalStep
    BY <1>7 DEF ResolveMarkFailed, Transition, TryCASPhase
  <1>8. ASSUME NEW o \in Ops, GiveUp(o) PROVE LegalStep
    BY <1>8 DEF GiveUp, failOp, Transition, TryCASPhase, isParkOp
  <1>9. ASSUME ApplyFailed PROVE LegalStep
    BY <1>9 DEF ApplyFailed, Returned, failOp, Transition, TryCASPhase, Return
  <1>10. ASSUME PollNotFound PROVE LegalStep
    BY <1>10 DEF PollNotFound, Polled, succeedDelete, failOp, TryCASPhase, MoveOnly,
       Transition, Return, isParkOp, resVars
  <1>11. ASSUME PollSucceeded PROVE LegalStep
    BY <1>11 DEF PollSucceeded, Polled, succeedDelete, succeed, CASPhase, Transition,
       Return
  <1>12. ASSUME PollFailed PROVE LegalStep
    BY <1>12 DEF PollFailed, Polled, failOp, TryCASPhase, Transition, Return
  <1>13. ASSUME ReadinessExhausted PROVE LegalStep
    BY <1>13 DEF ReadinessExhausted, Polled, TryCASPhase, Transition, Return
  <1>14. ASSUME NEW o \in Ops, Unconfigured(o) PROVE LegalStep
    BY <1>14 DEF Unconfigured, failOp, Transition, TryCASPhase
  <1>15. CASE UNCHANGED phase
    BY <1>15
  <1> DEFINE Writes ==
        \/ UNCHANGED phase
        \/ \E r \in Resources, o \in Ops :
              Journal(r, o) \/ JournalDelete(r, o) \/ JournalStop(r, o) \/ JournalStart(r, o)
        \/ \E r \in Resources : Reserve(r) \/ EndLease(r)
        \/ \E o \in Ops : ResolveMarkFailed(o) \/ GiveUp(o) \/ Unconfigured(o)
        \/ ApplyFailed \/ PollNotFound \/ PollSucceeded \/ PollFailed \/ ReadinessExhausted
  <1>16. Handlers => Writes
    BY DEF Handlers, TombstoneUnmaterialized, ResolveRetryVerification, Transition,
       resVars
  <1>17. EngineStep => Writes
    BY DEF EngineStep, TxB, Transition, PollObserve, VerifyPark, MoveOnly,
       FreezeUncertain, VerifyCreate, VerifyDelete, ApplyCall, ApplyDedup, TxC,
       ApplyDeleteNotFound, succeedDelete, ApplyRetry, ApplyUncertain, ApplyRaced,
       PollRolledBack, PollAgain, Discover, Adopt, NotListed, DeleteVerified, resVars
  <1>18. Recovery => Writes
    BY DEF Recovery, ResumeScan, ResumeDone, Restart, ResumeRoute, MoveOnly, Transition,
       ResumeConflict, resVars
  <1>19. CloudStep => Writes
    BY DEF CloudStep, CloudCreate, CloudApply, Progress, BecomeListed, resVars
  <1>20. Faults => Writes
    BY DEF Faults, Crash, ResponseLost, TxAborted, CallFailed, ResumeFails, CloudReject,
       RequestLost, CloudGivesUp, Vanish, StartDies, resVars
  <1>21. Writes
    BY <1>16, <1>17, <1>18, <1>19, <1>20 DEF Next, WindowElapses, vars, resVars
  <1> QED
    BY <1>1, <1>2, <1>3, <1>4, <1>5, <1>6, <1>7, <1>8, <1>9, <1>10, <1>11, <1>12, <1>13,
       <1>14, <1>15, <1>21

(* Every phase a handler, the engine or the operator writes is a successor *)
(* of the phase it replaces in the table of phase.go, although the store's *)
(* CAS never looks at that table.                                          *)
THEOREM PhasesMoveLegally == Spec => PhaseStepsLegal
  <1>1. TypeInv /\ [Next]_vars =>
          [\A r \in Resources :
             phase[r] \notin {"none", phase'[r]} => CanTransition(phase[r], phase'[r])]_phase
    BY NextLegal DEF LegalStep
  <1>2. Spec => []TypeInv
    BY InitTypeInv, NextTypeInv, PTL DEF Spec
  <1> QED
    BY <1>1, <1>2, PTL DEF Spec, PhaseStepsLegal

-----------------------------------------------------------------------------
(* The rows and their machines.  MachineInv is inductive relative to       *)
(* TypeInv and JournalInv.                                                 *)

(* A machine carries the label of the create that made it, for ever. *)
LabelBorn ==
    \A x \in Machines :
        /\ Exists(x) => label[x] \in Ops
        /\ label[x] \in Ops =>
             /\ opState[label[x]] # "unborn" /\ opKind[label[x]] = "create"
             /\ machine[x] # "absent"

(* A row's machine was made by the row's own create, so no two rows share  *)
(* a machine.                                                              *)
ExtLabelled ==
    \A r \in Resources : ext[r] # Null =>
        label[ext[r]] \in Ops /\ opRes[label[ext[r]]] = r

(* A delete works on its own row's machine, and the row never becomes      *)
(* usable again, not even when the delete fails.                           *)
DeleteRow ==
    \A o \in Ops : opState[o] # "unborn" /\ opKind[o] = "delete" =>
        /\ phase[opRes[o]] \in {"deleting", "failed"}
        /\ opRef[o] = ext[opRes[o]]

(* What the goroutine may conclude from the answer it holds. *)
SeenInv ==
    /\ pc = "discover" => opKind[cur] = "create"
    /\ pc = "called" /\ seen.answer = "accepted" =>
         IF opKind[cur] = "create" THEN label[seen.ref] = cur
                                   ELSE seen.ref = opRef[cur]
    /\ pc = "looked" /\ seen.answer = "found" => label[seen.ref] = cur
    /\ /\ \/ pc \in {"called", "observed", "looked"} /\ seen.answer = "not_found"
          \/ pc = "observed" /\ seen.answer = "succeeded"
       /\ opKind[cur] = "delete"
       => machine[opRef[cur]] = "gone"

MachineInv == LabelBorn /\ ExtLabelled /\ DeleteRow /\ SeenInv

(* Handlers make no machine and bind none.                                 *)
LEMMA HandlersMachine ==
    ASSUME TypeInv, JournalInv, MachineInv, Handlers
    PROVE  MachineInv'
  <1> USE ConstantsAssumption, FailTable DEF TypeInv, TypeOK, CurOK, JournalInv, RowsBorn, OneOpen,
          CreateAlone, LeasedAllocated, Live, Open, OpenStates, Terminal, OpKinds,
          isParkOp, MachineInv, LabelBorn, ExtLabelled, DeleteRow, SeenInv, Exists,
          Reading, NoReading, resVars, opVars, cloud, goroutine, recovery
  <1>1. ASSUME NEW r \in Resources, NEW o \in Ops, Journal(r, o) PROVE MachineInv'
    BY <1>1 DEF Journal, Append
  <1>2. ASSUME NEW r \in Resources, NEW o \in Ops, JournalDelete(r, o) PROVE MachineInv'
    BY <1>2 DEF JournalDelete, Append, CanTransition, transitions, Phases
  <1>3. ASSUME NEW r \in Resources, NEW o \in Ops, JournalStop(r, o) PROVE MachineInv'
    BY <1>3 DEF JournalStop, Append
  <1>4. ASSUME NEW r \in Resources, NEW o \in Ops, JournalStart(r, o) PROVE MachineInv'
    BY <1>4 DEF JournalStart, Append
  <1>5. ASSUME NEW r \in Resources, TombstoneUnmaterialized(r) PROVE MachineInv'
    BY <1>5 DEF TombstoneUnmaterialized
  <1>6. ASSUME NEW r \in Resources, Reserve(r) PROVE MachineInv'
    BY <1>6 DEF Reserve
  <1>7. ASSUME NEW r \in Resources, EndLease(r) PROVE MachineInv'
    BY <1>7 DEF EndLease
  <1>8. ASSUME NEW o \in Ops, ResolveRetryVerification(o) PROVE MachineInv'
    BY <1>8 DEF ResolveRetryVerification, Transition
  <1>9. ASSUME NEW o \in Ops, ResolveMarkFailed(o) PROVE MachineInv'
    BY <1>9 DEF ResolveMarkFailed, Transition, TryCASPhase
  <1> QED
    BY <1>1, <1>2, <1>3, <1>4, <1>5, <1>6, <1>7, <1>8, <1>9 DEF Handlers

(* The goroutine binds and sends only what the answer it holds entitles it *)
(* to.                                                                     *)
LEMMA EngineMachine ==
    ASSUME TypeInv, JournalInv, MachineInv, EngineStep
    PROVE  MachineInv'
  <1> USE ConstantsAssumption, FailTable DEF TypeInv, TypeOK, CurOK, JournalInv, RowsBorn, OneOpen,
          CreateAlone, LeasedAllocated, Live, Open, OpenStates, Terminal, OpKinds,
          isParkOp, MachineInv, LabelBorn, ExtLabelled, DeleteRow, SeenInv, Exists,
          Reading, NoReading, resVars, opVars, cloud, goroutine, recovery
  <1>1. ASSUME NEW o \in Ops, TxB(o) PROVE MachineInv'
    BY <1>1 DEF TxB, Transition
  <1>2. ASSUME NEW o \in Ops, GiveUp(o) PROVE MachineInv'
    BY <1>2 DEF GiveUp, failOp, Transition, TryCASPhase
  <1>3. ASSUME NEW o \in Ops, PollObserve(o) PROVE MachineInv'
    BY <1>3 DEF PollObserve, ObserveOperation
  <1>4. ASSUME NEW o \in Ops, VerifyPark(o) PROVE MachineInv'
    BY <1>4 DEF VerifyPark, MoveOnly, Transition
  <1>5. ASSUME NEW o \in Ops, FreezeUncertain(o) PROVE MachineInv'
    BY <1>5 DEF FreezeUncertain, MoveOnly, Transition
  <1>6. ASSUME NEW o \in Ops, VerifyCreate(o) PROVE MachineInv'
    BY <1>6 DEF VerifyCreate
  <1>7. ASSUME NEW o \in Ops, VerifyDelete(o) PROVE MachineInv'
    BY <1>7 DEF VerifyDelete
  <1>8. ASSUME ApplyCall PROVE MachineInv'
    BY <1>8 DEF ApplyCall
  <1>9. ASSUME ApplyDedup PROVE MachineInv'
    BY <1>9 DEF ApplyDedup, ByLabel
  <1>10. ASSUME TxC PROVE MachineInv'
    BY <1>10 DEF TxC, Returned, Transition, Return
  <1>11. ASSUME ApplyDeleteNotFound PROVE MachineInv'
    BY <1>11 DEF ApplyDeleteNotFound, Returned, succeedDelete, Transition, Return
  <1>12. ASSUME ApplyFailed PROVE MachineInv'
    BY <1>12 DEF ApplyFailed, Returned, failOp, Transition, TryCASPhase, Return
  <1>13. ASSUME ApplyRetry PROVE MachineInv'
    BY <1>13 DEF ApplyRetry, Returned, MoveOnly, Transition, Return
  <1>14. ASSUME ApplyUncertain PROVE MachineInv'
    BY <1>14 DEF ApplyUncertain, Returned, MoveOnly, Transition, Return
  <1>15. ASSUME ApplyRaced PROVE MachineInv'
    BY <1>15 DEF ApplyRaced, Return
  <1>16. ASSUME PollNotFound PROVE MachineInv'
    BY <1>16 DEF PollNotFound, Polled, succeedDelete, failOp, TryCASPhase, MoveOnly,
       Transition, Return
  <1>17. ASSUME PollSucceeded PROVE MachineInv'
    BY <1>17 DEF PollSucceeded, Polled, succeedDelete, succeed, CASPhase, Transition,
       Return
  <1>18. ASSUME PollRolledBack PROVE MachineInv'
    BY <1>18 DEF PollRolledBack, Return
  <1>19. ASSUME PollFailed PROVE MachineInv'
    BY <1>19 DEF PollFailed, Polled, failOp, TryCASPhase, Transition, Return
  <1>20. ASSUME PollAgain PROVE MachineInv'
    BY <1>20 DEF PollAgain, Return
  <1>21. ASSUME ReadinessExhausted PROVE MachineInv'
    BY <1>21 DEF ReadinessExhausted, Polled, TryCASPhase, Transition, Return
  <1>22. ASSUME Discover PROVE MachineInv'
    <2>1. opKind[cur] = "create" /\ pc' = "looked" /\ UNCHANGED <<resVars, opVars, cloud, cur>>
      BY <1>22 DEF Discover
    <2>2. seen'.answer = "found" => label[seen'.ref] = cur
      BY <1>22 DEF Discover, ByLabel
    <2> QED
      BY <2>1, <2>2
  <1>23. ASSUME Adopt PROVE MachineInv'
    BY <1>23 DEF Adopt, Looked, Transition, Return
  <1>24. ASSUME NotListed PROVE MachineInv'
    BY <1>24 DEF NotListed, Looked, MoveOnly, Transition, Return
  <1>25. ASSUME DeleteVerified PROVE MachineInv'
    BY <1>25 DEF DeleteVerified, Looked, succeedDelete, MoveOnly, Transition, Return
  <1> QED
    BY <1>1, <1>2, <1>3, <1>4, <1>5, <1>6, <1>7, <1>8, <1>9, <1>10, <1>11, <1>12, <1>13,
       <1>14, <1>15, <1>16, <1>17, <1>18, <1>19, <1>20, <1>21, <1>22, <1>23, <1>24,
       <1>25 DEF EngineStep

(* Resume knows nothing of machines.                                       *)
LEMMA RecoveryMachine ==
    ASSUME TypeInv, JournalInv, MachineInv, Recovery
    PROVE  MachineInv'
  <1> USE ConstantsAssumption, FailTable DEF TypeInv, TypeOK, CurOK, JournalInv, RowsBorn, OneOpen,
          CreateAlone, LeasedAllocated, Live, Open, OpenStates, Terminal, OpKinds,
          isParkOp, MachineInv, LabelBorn, ExtLabelled, DeleteRow, SeenInv, Exists,
          Reading, NoReading, resVars, opVars, cloud, goroutine, recovery
  <1>1. ASSUME ResumeScan PROVE MachineInv'
    BY <1>1 DEF ResumeScan
  <1>2. ASSUME ResumeDone PROVE MachineInv'
    BY <1>2 DEF ResumeDone
  <1>3. ASSUME Restart PROVE MachineInv'
    BY <1>3 DEF Restart
  <1>4. ASSUME NEW o \in Ops, ResumeRoute(o) PROVE MachineInv'
    BY <1>4 DEF ResumeRoute, MoveOnly, Transition
  <1>5. ASSUME NEW o \in Ops, ResumeConflict(o) PROVE MachineInv'
    BY <1>5 DEF ResumeConflict
  <1> QED
    BY <1>1, <1>2, <1>3, <1>4, <1>5 DEF Recovery

(* A machine is labelled with the create whose request landed.             *)
LEMMA CloudMachine ==
    ASSUME TypeInv, JournalInv, MachineInv, CloudStep
    PROVE  MachineInv'
  <1> USE ConstantsAssumption, FailTable DEF TypeInv, TypeOK, CurOK, JournalInv, RowsBorn, OneOpen,
          CreateAlone, LeasedAllocated, Live, Open, OpenStates, Terminal, OpKinds,
          isParkOp, MachineInv, LabelBorn, ExtLabelled, DeleteRow, SeenInv, Exists,
          Reading, NoReading, resVars, opVars, cloud, goroutine, recovery
  <1>1. ASSUME NEW o \in Ops, CloudCreate(o) PROVE MachineInv'
    BY <1>1 DEF CloudCreate, Answer, Awaited
  <1>2. ASSUME NEW o \in Ops, CloudApply(o) PROVE MachineInv'
    <2>1. opKind[o] \in {"delete", "stop", "start"} /\ opRef[o] \in Machines
      BY <1>2 DEF CloudApply
    <2>2. \A x \in Machines :
            /\ Exists(x)' <=> Exists(x)
            /\ machine'[x] = "absent" <=> machine[x] = "absent"
            /\ machine'[x] = "gone" <=> machine[x] = "gone"
      <3>1. CASE Exists(opRef[o])
        <4>1. Effect(opKind[o], machine[opRef[o]]) \notin {"absent", "gone"}
          BY <2>1, <3>1, EffectExists
        <4> QED
          BY <1>2, <2>1, <3>1, <4>1 DEF CloudApply
      <3>2. CASE ~Exists(opRef[o])
        BY <1>2, <3>2 DEF CloudApply
      <3> QED
        BY <3>1, <3>2
    <2>3. UNCHANGED <<resVars, opVars, label, pc, cur>>
      BY <1>2 DEF CloudApply
    <2>4. LabelBorn' /\ ExtLabelled' /\ DeleteRow'
      BY <2>2, <2>3
    <2>5. CASE UNCHANGED seen
      BY <2>2, <2>3, <2>4, <2>5
    <2>6. CASE seen' # seen
      <3>1. pc = "called" /\ cur = o
        BY <1>2, <2>6 DEF CloudApply, Answer, Awaited
      <3>2. \/ Exists(opRef[o]) /\ seen' = Reading("accepted", opRef[o], FALSE)
            \/ ~Exists(opRef[o]) /\ opKind[o] = "delete"
                 /\ seen' = Reading("accepted", opRef[o], FALSE)
            \/ ~Exists(opRef[o]) /\ seen' = Reading("not_found", Null, FALSE)
        BY <1>2, <2>6 DEF CloudApply, Answer
      <3>3. opKind[o] = "delete" /\ ~Exists(opRef[o]) => machine[opRef[o]] = "gone"
        BY <2>1, <3>1
      <3> QED
        BY <2>1, <2>2, <2>3, <2>4, <3>1, <3>2, <3>3
    <2> QED
      BY <2>5, <2>6
  <1>3. ASSUME NEW x \in Machines, Progress(x) PROVE MachineInv'
    BY <1>3 DEF Progress
  <1>4. ASSUME NEW x \in Machines, BecomeListed(x) PROVE MachineInv'
    BY <1>4 DEF BecomeListed
  <1> QED
    BY <1>1, <1>2, <1>3, <1>4 DEF CloudStep

(* A crash takes the goroutine's answer away with its conclusions.         *)
LEMMA FaultsMachine ==
    ASSUME TypeInv, JournalInv, MachineInv, Faults
    PROVE  MachineInv'
  <1> USE ConstantsAssumption, FailTable DEF TypeInv, TypeOK, CurOK, JournalInv, RowsBorn, OneOpen,
          CreateAlone, LeasedAllocated, Live, Open, OpenStates, Terminal, OpKinds,
          isParkOp, MachineInv, LabelBorn, ExtLabelled, DeleteRow, SeenInv, Exists,
          Reading, NoReading, resVars, opVars, cloud, goroutine, recovery
  <1>1. ASSUME Crash PROVE MachineInv'
    BY <1>1 DEF Crash, Return
  <1>2. ASSUME ResponseLost PROVE MachineInv'
    BY <1>2 DEF ResponseLost
  <1>3. ASSUME TxAborted PROVE MachineInv'
    BY <1>3 DEF TxAborted, Return
  <1>4. ASSUME CallFailed PROVE MachineInv'
    BY <1>4 DEF CallFailed, Return
  <1>5. ASSUME ResumeFails PROVE MachineInv'
    BY <1>5 DEF ResumeFails
  <1>6. ASSUME NEW o \in Ops, CloudReject(o) PROVE MachineInv'
    BY <1>6 DEF CloudReject, Answer, Awaited
  <1>7. ASSUME NEW o \in Ops, RequestLost(o) PROVE MachineInv'
    BY <1>7 DEF RequestLost, Answer, Awaited
  <1>8. ASSUME NEW o \in Ops, CloudGivesUp(o) PROVE MachineInv'
    BY <1>8 DEF CloudGivesUp
  <1>9. ASSUME NEW o \in Ops, Unconfigured(o) PROVE MachineInv'
    BY <1>9 DEF Unconfigured, failOp, Transition, TryCASPhase
  <1>10. ASSUME NEW x \in Machines, Vanish(x) PROVE MachineInv'
    BY <1>10 DEF Vanish
  <1>11. ASSUME NEW x \in Machines, StartDies(x) PROVE MachineInv'
    BY <1>11 DEF StartDies
  <1> QED
    BY <1>1, <1>2, <1>3, <1>4, <1>5, <1>6, <1>7, <1>8, <1>9, <1>10, <1>11 DEF Faults

(* MachineInv is inductive, given types and journal.                       *)
LEMMA NextMachine == TypeInv /\ JournalInv /\ MachineInv /\ [Next]_vars => MachineInv'
  <1> SUFFICES ASSUME TypeInv, JournalInv, MachineInv, [Next]_vars PROVE MachineInv'
    OBVIOUS
  <1>1. ASSUME NEW o \in Ops, WindowElapses(o) PROVE MachineInv'
    BY <1>1 DEF WindowElapses, MachineInv, LabelBorn, ExtLabelled, DeleteRow,
       SeenInv, Exists, resVars, cloud, goroutine, recovery
  <1>2. CASE UNCHANGED vars
    BY <1>2 DEF vars, MachineInv, LabelBorn, ExtLabelled, DeleteRow,
       SeenInv, Exists, resVars, opVars, cloud, goroutine, recovery
  <1> QED
    BY <1>1, <1>2, HandlersMachine, EngineMachine, RecoveryMachine, CloudMachine, FaultsMachine
       DEF Next

(* MachineInv always holds.                                                *)
LEMMA MachineInvariant == Spec => [](TypeInv /\ JournalInv /\ MachineInv)
  <1>1. Init => MachineInv
    BY ConstantsAssumption DEF Init, MachineInv, LabelBorn, ExtLabelled, DeleteRow, SeenInv,
       Exists, NoReading, Reading
  <1> QED
    BY <1>1, JournalInvariant, NextMachine, PTL DEF Spec

(* Invariant 3 of the code: while a lease is active the row stays live and *)
(* allocated, and no delete request for its machine is under way, neither  *)
(* the row's own nor another row's, neither current nor delayed.           *)
THEOREM LeasesAreProtected == Spec => []LeaseProtected
  <1>1. TypeInv /\ JournalInv /\ MachineInv => LeaseProtected
    <2> SUFFICES ASSUME TypeInv, JournalInv, MachineInv, NEW r \in leased
                 PROVE  /\ Live(r) /\ phase[r] = "allocated"
                        /\ \A o \in wire : opKind[o] = "delete" => opRef[o] # ext[r]
      BY DEF LeaseProtected
    <2>1. Live(r) /\ phase[r] = "allocated"
      BY DEF JournalInv, LeasedAllocated
    <2>2. ASSUME NEW o \in wire, opKind[o] = "delete", opRef[o] = ext[r] PROVE FALSE
      <3>1. o \in Ops /\ opState[o] # "unborn" /\ opRes[o] \in Resources /\ opRef[o] \in Machines
        BY <2>2 DEF TypeInv, TypeOK, CurOK
      <3>2. phase[opRes[o]] \in {"deleting", "failed"} /\ ext[opRes[o]] = ext[r]
        BY <2>2, <3>1 DEF MachineInv, DeleteRow
      <3>3. opRes[o] = r
        BY <2>2, <3>1, <3>2, ConstantsAssumption
           DEF MachineInv, ExtLabelled, TypeInv, TypeOK
      <3> QED
        BY <2>1, <3>2, <3>3
    <2> QED
      BY <2>1, <2>2
  <1> QED
    BY <1>1, MachineInvariant, PTL

-----------------------------------------------------------------------------
(* Under a calibrated window the machine of an accepted create is the one  *)
(* the row points at, and the one the goroutine is about to write there.   *)
OwnMachine ==
    WindowCoversLag =>
        \A x \in Machines : Exists(x) =>
            /\ opState[label[x]] = "external_accepted" => ext[opRes[label[x]]] = x
            /\ /\ label[x] = cur
               /\ \/ pc = "called" /\ seen.answer = "accepted"
                  \/ pc = "looked" /\ seen.answer = "found"
               => seen.ref = x

AccountedInv == OwnMachine /\ MachineAccounted

(* A tombstone under an open create leaves the machine to the create.      *)
LEMMA HandlersAccounted ==
    ASSUME TypeInv, JournalInv, MachineInv, RedispatchInv, AccountedInv, Handlers
    PROVE  AccountedInv'
  <1> USE ConstantsAssumption, FailTable DEF TypeInv, TypeOK, CurOK, JournalInv, CreateAlone,
          RowsBorn, Live, Open, OpenStates, Terminal, OpKinds, isParkOp, MachineInv,
          LabelBorn, ExtLabelled, DeleteRow, SeenInv, RedispatchInv,
          OneMachinePerCreate, WireInv, HandlerInv, AccountedInv, OwnMachine,
          MachineAccounted, Exists, Reading, NoReading, resVars, opVars, cloud,
          goroutine, recovery
  <1>1. ASSUME NEW r \in Resources, NEW o \in Ops, Journal(r, o) PROVE AccountedInv'
    BY <1>1 DEF Journal, Append
  <1>2. ASSUME NEW r \in Resources, NEW o \in Ops, JournalDelete(r, o) PROVE AccountedInv'
    BY <1>2 DEF JournalDelete, Append
  <1>3. ASSUME NEW r \in Resources, NEW o \in Ops, JournalStop(r, o) PROVE AccountedInv'
    BY <1>3 DEF JournalStop, Append
  <1>4. ASSUME NEW r \in Resources, NEW o \in Ops, JournalStart(r, o) PROVE AccountedInv'
    BY <1>4 DEF JournalStart, Append
  <1>5. ASSUME NEW r \in Resources, TombstoneUnmaterialized(r) PROVE AccountedInv'
    BY <1>5 DEF TombstoneUnmaterialized
  <1>6. ASSUME NEW r \in Resources, Reserve(r) PROVE AccountedInv'
    BY <1>6 DEF Reserve
  <1>7. ASSUME NEW r \in Resources, EndLease(r) PROVE AccountedInv'
    BY <1>7 DEF EndLease
  <1>8. ASSUME NEW o \in Ops, ResolveRetryVerification(o) PROVE AccountedInv'
    BY <1>8 DEF ResolveRetryVerification, Transition
  <1>9. ASSUME NEW o \in Ops, ResolveMarkFailed(o) PROVE AccountedInv'
    BY <1>9 DEF ResolveMarkFailed, Transition, TryCASPhase
  <1> QED
    BY <1>1, <1>2, <1>3, <1>4, <1>5, <1>6, <1>7, <1>8, <1>9 DEF Handlers

(* A create succeeds with the row naming its machine, and fails or stays   *)
(* open otherwise; a delete succeeds when the machine is gone.             *)
LEMMA EngineAccounted ==
    ASSUME TypeInv, JournalInv, MachineInv, RedispatchInv, AccountedInv, EngineStep
    PROVE  AccountedInv'
  <1> USE ConstantsAssumption, FailTable DEF TypeInv, TypeOK, CurOK, JournalInv, CreateAlone,
          RowsBorn, Live, Open, OpenStates, Terminal, OpKinds, isParkOp, MachineInv,
          LabelBorn, ExtLabelled, DeleteRow, SeenInv, RedispatchInv,
          OneMachinePerCreate, WireInv, HandlerInv, AccountedInv, OwnMachine,
          MachineAccounted, Exists, Reading, NoReading, resVars, opVars, cloud,
          goroutine, recovery
  <1>1. ASSUME NEW o \in Ops, TxB(o) PROVE AccountedInv'
    BY <1>1 DEF TxB, Transition
  <1>2. ASSUME NEW o \in Ops, GiveUp(o) PROVE AccountedInv'
    BY <1>2 DEF GiveUp, failOp, Transition, TryCASPhase
  <1>3. ASSUME NEW o \in Ops, PollObserve(o) PROVE AccountedInv'
    BY <1>3 DEF PollObserve
  <1>4. ASSUME NEW o \in Ops, VerifyPark(o) PROVE AccountedInv'
    BY <1>4 DEF VerifyPark, MoveOnly, Transition
  <1>5. ASSUME NEW o \in Ops, FreezeUncertain(o) PROVE AccountedInv'
    BY <1>5 DEF FreezeUncertain, MoveOnly, Transition
  <1>6. ASSUME NEW o \in Ops, VerifyCreate(o) PROVE AccountedInv'
    BY <1>6 DEF VerifyCreate
  <1>7. ASSUME NEW o \in Ops, VerifyDelete(o) PROVE AccountedInv'
    BY <1>7 DEF VerifyDelete
  <1>8. ASSUME ApplyCall PROVE AccountedInv'
    BY <1>8 DEF ApplyCall
  <1>9. ASSUME ApplyDedup PROVE AccountedInv'
    BY <1>9 DEF ApplyDedup, ByLabel
  <1>10. ASSUME TxC PROVE AccountedInv'
    BY <1>10 DEF TxC, Returned, Transition, Return
  <1>11. ASSUME ApplyDeleteNotFound PROVE AccountedInv'
    BY <1>11 DEF ApplyDeleteNotFound, Returned, succeedDelete, Transition, Return
  <1>12. ASSUME ApplyFailed PROVE AccountedInv'
    BY <1>12 DEF ApplyFailed, Returned, failOp, Transition, TryCASPhase, Return
  <1>13. ASSUME ApplyRetry PROVE AccountedInv'
    BY <1>13 DEF ApplyRetry, Returned, MoveOnly, Transition, Return
  <1>14. ASSUME ApplyUncertain PROVE AccountedInv'
    BY <1>14 DEF ApplyUncertain, Returned, MoveOnly, Transition, Return
  <1>15. ASSUME ApplyRaced PROVE AccountedInv'
    BY <1>15 DEF ApplyRaced, Return
  <1>16. ASSUME PollNotFound PROVE AccountedInv'
    BY <1>16 DEF PollNotFound, Polled, succeedDelete, failOp, TryCASPhase, MoveOnly,
       Transition, Return
  <1>17. ASSUME PollSucceeded PROVE AccountedInv'
    BY <1>17 DEF PollSucceeded, Polled, succeedDelete, succeed, CASPhase, Transition,
       Return
  <1>18. ASSUME PollRolledBack PROVE AccountedInv'
    BY <1>18 DEF PollRolledBack, Polled, Return
  <1>19. ASSUME PollFailed PROVE AccountedInv'
    BY <1>19 DEF PollFailed, Polled, failOp, TryCASPhase, Transition, Return
  <1>20. ASSUME PollAgain PROVE AccountedInv'
    BY <1>20 DEF PollAgain, Return
  <1>21. ASSUME ReadinessExhausted PROVE AccountedInv'
    BY <1>21 DEF ReadinessExhausted, Polled, TryCASPhase, Transition, Return
  <1>22. ASSUME Discover PROVE AccountedInv'
    BY <1>22 DEF Discover, ByLabel
  <1>23. ASSUME Adopt PROVE AccountedInv'
    BY <1>23 DEF Adopt, Looked, Transition, Return
  <1>24. ASSUME NotListed PROVE AccountedInv'
    BY <1>24 DEF NotListed, Looked, MoveOnly, Transition, Return
  <1>25. ASSUME DeleteVerified PROVE AccountedInv'
    BY <1>25 DEF DeleteVerified, Looked, succeedDelete, MoveOnly, Transition, Return
  <1> QED
    BY <1>1, <1>2, <1>3, <1>4, <1>5, <1>6, <1>7, <1>8, <1>9, <1>10, <1>11, <1>12, <1>13,
       <1>14, <1>15, <1>16, <1>17, <1>18, <1>19, <1>20, <1>21, <1>22, <1>23, <1>24,
       <1>25 DEF EngineStep

(* Resume ends no operation.                                               *)
LEMMA RecoveryAccounted ==
    ASSUME TypeInv, JournalInv, MachineInv, RedispatchInv, AccountedInv, Recovery
    PROVE  AccountedInv'
  <1> USE ConstantsAssumption, FailTable DEF TypeInv, TypeOK, CurOK, JournalInv, CreateAlone,
          RowsBorn, Live, Open, OpenStates, Terminal, OpKinds, isParkOp, MachineInv,
          LabelBorn, ExtLabelled, DeleteRow, SeenInv, RedispatchInv,
          OneMachinePerCreate, WireInv, HandlerInv, AccountedInv, OwnMachine,
          MachineAccounted, Exists, Reading, NoReading, resVars, opVars, cloud,
          goroutine, recovery
  <1>1. ASSUME ResumeScan PROVE AccountedInv'
    BY <1>1 DEF ResumeScan
  <1>2. ASSUME ResumeDone PROVE AccountedInv'
    BY <1>2 DEF ResumeDone
  <1>3. ASSUME Restart PROVE AccountedInv'
    BY <1>3 DEF Restart
  <1>4. ASSUME NEW o \in Ops, ResumeRoute(o) PROVE AccountedInv'
    BY <1>4 DEF ResumeRoute, MoveOnly, Transition
  <1>5. ASSUME NEW o \in Ops, ResumeConflict(o) PROVE AccountedInv'
    BY <1>5 DEF ResumeConflict
  <1> QED
    BY <1>1, <1>2, <1>3, <1>4, <1>5 DEF Recovery

(* A machine that appears has a create that answers for it.                *)
LEMMA CloudAccounted ==
    ASSUME TypeInv, JournalInv, MachineInv, RedispatchInv, AccountedInv, CloudStep
    PROVE  AccountedInv'
  <1> USE ConstantsAssumption, FailTable DEF TypeInv, TypeOK, CurOK, JournalInv, CreateAlone,
          RowsBorn, Live, Open, OpenStates, Terminal, OpKinds, isParkOp, MachineInv,
          LabelBorn, ExtLabelled, DeleteRow, SeenInv, RedispatchInv,
          OneMachinePerCreate, WireInv, HandlerInv, AccountedInv, OwnMachine,
          MachineAccounted, Exists, Reading, NoReading, resVars, opVars, cloud,
          goroutine, recovery
  <1>1. ASSUME NEW o \in Ops, CloudCreate(o) PROVE AccountedInv'
    BY <1>1 DEF CloudCreate, Answer, Awaited
  <1>2. ASSUME NEW o \in Ops, CloudApply(o) PROVE AccountedInv'
    BY <1>2 DEF CloudApply, Answer, Awaited
  <1>3. ASSUME NEW x \in Machines, Progress(x) PROVE AccountedInv'
    BY <1>3 DEF Progress
  <1>4. ASSUME NEW x \in Machines, BecomeListed(x) PROVE AccountedInv'
    BY <1>4 DEF BecomeListed
  <1> QED
    BY <1>1, <1>2, <1>3, <1>4 DEF CloudStep

(* A fault ends an operation only as failed.                               *)
LEMMA FaultsAccounted ==
    ASSUME TypeInv, JournalInv, MachineInv, RedispatchInv, AccountedInv, Faults
    PROVE  AccountedInv'
  <1> USE ConstantsAssumption, FailTable DEF TypeInv, TypeOK, CurOK, JournalInv, CreateAlone,
          RowsBorn, Live, Open, OpenStates, Terminal, OpKinds, isParkOp, MachineInv,
          LabelBorn, ExtLabelled, DeleteRow, SeenInv, RedispatchInv,
          OneMachinePerCreate, WireInv, HandlerInv, AccountedInv, OwnMachine,
          MachineAccounted, Exists, Reading, NoReading, resVars, opVars, cloud,
          goroutine, recovery
  <1>1. ASSUME Crash PROVE AccountedInv'
    BY <1>1 DEF Crash, Return
  <1>2. ASSUME ResponseLost PROVE AccountedInv'
    BY <1>2 DEF ResponseLost
  <1>3. ASSUME TxAborted PROVE AccountedInv'
    BY <1>3 DEF TxAborted, Return
  <1>4. ASSUME CallFailed PROVE AccountedInv'
    BY <1>4 DEF CallFailed, Return
  <1>5. ASSUME ResumeFails PROVE AccountedInv'
    BY <1>5 DEF ResumeFails
  <1>6. ASSUME NEW o \in Ops, CloudReject(o) PROVE AccountedInv'
    BY <1>6 DEF CloudReject, Answer, Awaited
  <1>7. ASSUME NEW o \in Ops, RequestLost(o) PROVE AccountedInv'
    BY <1>7 DEF RequestLost, Answer, Awaited
  <1>8. ASSUME NEW o \in Ops, CloudGivesUp(o) PROVE AccountedInv'
    BY <1>8 DEF CloudGivesUp
  <1>9. ASSUME NEW o \in Ops, Unconfigured(o) PROVE AccountedInv'
    BY <1>9 DEF Unconfigured, failOp, Transition, TryCASPhase
  <1>10. ASSUME NEW x \in Machines, Vanish(x) PROVE AccountedInv'
    BY <1>10 DEF Vanish
  <1>11. ASSUME NEW x \in Machines, StartDies(x) PROVE AccountedInv'
    BY <1>11 DEF StartDies
  <1> QED
    BY <1>1, <1>2, <1>3, <1>4, <1>5, <1>6, <1>7, <1>8, <1>9, <1>10, <1>11 DEF Faults

(* AccountedInv is inductive, given the other invariants.                  *)
LEMMA NextAccounted == TypeInv /\ JournalInv /\ MachineInv /\ RedispatchInv /\ AccountedInv /\ [Next]_vars => AccountedInv'
  <1> SUFFICES ASSUME TypeInv, JournalInv, MachineInv, RedispatchInv, AccountedInv, [Next]_vars PROVE AccountedInv'
    OBVIOUS
  <1>1. ASSUME NEW o \in Ops, WindowElapses(o) PROVE AccountedInv'
    BY <1>1 DEF WindowElapses, AccountedInv, OwnMachine, MachineAccounted,
       Live, Open, Exists, resVars, cloud, goroutine, recovery
  <1>2. CASE UNCHANGED vars
    BY <1>2 DEF vars, AccountedInv, OwnMachine, MachineAccounted,
       Live, Open, Exists, resVars, opVars, cloud, goroutine, recovery
  <1> QED
    BY <1>1, <1>2, HandlersAccounted, EngineAccounted, RecoveryAccounted, CloudAccounted, FaultsAccounted
       DEF Next

(* No machine is forgotten: whatever the engine, the handlers, crashes and *)
(* delayed requests do, a machine at the cloud belongs to a live row that  *)
(* points at it, to a create the verifier still works on or to a failed    *)
(* create.  Without a calibrated verify window it may also be the double   *)
(* of a create that succeeded with another machine.                        *)
THEOREM MachinesAreAccounted == Spec => []MachineAccounted
  <1>1. Init => AccountedInv
    BY DEF Init, AccountedInv, OwnMachine, MachineAccounted, Exists
  <1>2. Spec => []AccountedInv
    BY <1>1, MachineInvariant, RedispatchInvariant, NextAccounted, PTL DEF Spec
  <1> QED
    BY <1>2, PTL DEF AccountedInv

-----------------------------------------------------------------------------
(* Boot recovery.  From the scan on, an operation in flight is one that    *)
(* Resume has still to route or that the goroutine is dispatching.         *)
Dispatching(o) == cur = o /\ pc \in {"apply", "called"}

OwnedInv ==
    ~StoreMayFail =>
        \A o \in Ops : opState[o] = "in_flight" =>
            /\ boot = "resuming" => o \in toResume \/ Dispatching(o)
            /\ boot = "ready" => Dispatching(o)

(* Handlers put nothing in flight.                                         *)
LEMMA HandlersOwned ==
    ASSUME TypeInv, OwnedInv, Handlers
    PROVE  OwnedInv'
  <1> USE ConstantsAssumption DEF TypeInv, TypeOK, CurOK, OwnedInv, Dispatching,
          resVars, opVars, cloud, goroutine, recovery
  <1>1. ASSUME NEW r \in Resources, NEW o \in Ops, Journal(r, o) PROVE OwnedInv'
    BY <1>1 DEF Journal, Append
  <1>2. ASSUME NEW r \in Resources, NEW o \in Ops, JournalDelete(r, o) PROVE OwnedInv'
    BY <1>2 DEF JournalDelete, Append
  <1>3. ASSUME NEW r \in Resources, NEW o \in Ops, JournalStop(r, o) PROVE OwnedInv'
    BY <1>3 DEF JournalStop, Append
  <1>4. ASSUME NEW r \in Resources, NEW o \in Ops, JournalStart(r, o) PROVE OwnedInv'
    BY <1>4 DEF JournalStart, Append
  <1>5. ASSUME NEW r \in Resources, TombstoneUnmaterialized(r) PROVE OwnedInv'
    BY <1>5 DEF TombstoneUnmaterialized
  <1>6. ASSUME NEW r \in Resources, Reserve(r) PROVE OwnedInv'
    BY <1>6 DEF Reserve
  <1>7. ASSUME NEW r \in Resources, EndLease(r) PROVE OwnedInv'
    BY <1>7 DEF EndLease
  <1>8. ASSUME NEW o \in Ops, ResolveRetryVerification(o) PROVE OwnedInv'
    BY <1>8 DEF ResolveRetryVerification, Transition
  <1>9. ASSUME NEW o \in Ops, ResolveMarkFailed(o) PROVE OwnedInv'
    BY <1>9 DEF ResolveMarkFailed, Transition, TryCASPhase
  <1> QED
    BY <1>1, <1>2, <1>3, <1>4, <1>5, <1>6, <1>7, <1>8, <1>9 DEF Handlers

(* What the goroutine put in flight it takes out again, unless the commit  *)
(* fails.                                                                  *)
LEMMA EngineOwned ==
    ASSUME TypeInv, OwnedInv, EngineStep
    PROVE  OwnedInv'
  <1> USE ConstantsAssumption DEF TypeInv, TypeOK, CurOK, OwnedInv, Dispatching,
          resVars, opVars, cloud, goroutine, recovery
  <1>1. ASSUME NEW o \in Ops, TxB(o) PROVE OwnedInv'
    BY <1>1 DEF TxB, Transition
  <1>2. ASSUME NEW o \in Ops, GiveUp(o) PROVE OwnedInv'
    BY <1>2 DEF GiveUp, failOp, Transition, TryCASPhase, isParkOp
  <1>3. ASSUME NEW o \in Ops, PollObserve(o) PROVE OwnedInv'
    BY <1>3 DEF PollObserve
  <1>4. ASSUME NEW o \in Ops, VerifyPark(o) PROVE OwnedInv'
    BY <1>4 DEF VerifyPark, MoveOnly, Transition
  <1>5. ASSUME NEW o \in Ops, FreezeUncertain(o) PROVE OwnedInv'
    BY <1>5 DEF FreezeUncertain, MoveOnly, Transition
  <1>6. ASSUME NEW o \in Ops, VerifyCreate(o) PROVE OwnedInv'
    BY <1>6 DEF VerifyCreate
  <1>7. ASSUME NEW o \in Ops, VerifyDelete(o) PROVE OwnedInv'
    BY <1>7 DEF VerifyDelete
  <1>8. ASSUME ApplyCall PROVE OwnedInv'
    BY <1>8 DEF ApplyCall
  <1>9. ASSUME ApplyDedup PROVE OwnedInv'
    BY <1>9 DEF ApplyDedup
  <1>10. ASSUME TxC PROVE OwnedInv'
    BY <1>10 DEF TxC, Returned, Transition, Return
  <1>11. ASSUME ApplyDeleteNotFound PROVE OwnedInv'
    BY <1>11 DEF ApplyDeleteNotFound, Returned, succeedDelete, Transition, Return
  <1>12. ASSUME ApplyFailed PROVE OwnedInv'
    BY <1>12 DEF ApplyFailed, Returned, failOp, Transition, TryCASPhase, Return
  <1>13. ASSUME ApplyRetry PROVE OwnedInv'
    BY <1>13 DEF ApplyRetry, Returned, MoveOnly, Transition, Return
  <1>14. ASSUME ApplyUncertain PROVE OwnedInv'
    BY <1>14 DEF ApplyUncertain, Returned, MoveOnly, Transition, Return
  <1>15. ASSUME ApplyRaced PROVE OwnedInv'
    BY <1>15 DEF ApplyRaced, Return
  <1>16. ASSUME PollNotFound PROVE OwnedInv'
    BY <1>16 DEF PollNotFound, Polled, succeedDelete, failOp, TryCASPhase, MoveOnly,
       Transition, Return
  <1>17. ASSUME PollSucceeded PROVE OwnedInv'
    BY <1>17 DEF PollSucceeded, Polled, succeedDelete, succeed, CASPhase, Transition,
       Return
  <1>18. ASSUME PollRolledBack PROVE OwnedInv'
    BY <1>18 DEF PollRolledBack, Polled, Return
  <1>19. ASSUME PollFailed PROVE OwnedInv'
    BY <1>19 DEF PollFailed, Polled, failOp, TryCASPhase, Transition, Return
  <1>20. ASSUME PollAgain PROVE OwnedInv'
    BY <1>20 DEF PollAgain, Return
  <1>21. ASSUME ReadinessExhausted PROVE OwnedInv'
    BY <1>21 DEF ReadinessExhausted, Polled, TryCASPhase, Transition, Return
  <1>22. ASSUME Discover PROVE OwnedInv'
    BY <1>22 DEF Discover
  <1>23. ASSUME Adopt PROVE OwnedInv'
    BY <1>23 DEF Adopt, Looked, Transition, Return
  <1>24. ASSUME NotListed PROVE OwnedInv'
    BY <1>24 DEF NotListed, Looked, MoveOnly, Transition, Return
  <1>25. ASSUME DeleteVerified PROVE OwnedInv'
    BY <1>25 DEF DeleteVerified, Looked, succeedDelete, MoveOnly, Transition, Return
  <1> QED
    BY <1>1, <1>2, <1>3, <1>4, <1>5, <1>6, <1>7, <1>8, <1>9, <1>10, <1>11, <1>12, <1>13,
       <1>14, <1>15, <1>16, <1>17, <1>18, <1>19, <1>20, <1>21, <1>22, <1>23, <1>24,
       <1>25 DEF EngineStep

(* Resume declares readiness when nothing it scanned is left.              *)
LEMMA RecoveryOwned ==
    ASSUME TypeInv, OwnedInv, Recovery
    PROVE  OwnedInv'
  <1> USE ConstantsAssumption DEF TypeInv, TypeOK, CurOK, OwnedInv, Dispatching,
          resVars, opVars, cloud, goroutine, recovery
  <1>1. ASSUME ResumeScan PROVE OwnedInv'
    BY <1>1 DEF ResumeScan
  <1>2. ASSUME ResumeDone PROVE OwnedInv'
    BY <1>2 DEF ResumeDone
  <1>3. ASSUME Restart PROVE OwnedInv'
    BY <1>3 DEF Restart
  <1>4. ASSUME NEW o \in Ops, ResumeRoute(o) PROVE OwnedInv'
    BY <1>4 DEF ResumeRoute, MoveOnly, Transition
  <1>5. ASSUME NEW o \in Ops, ResumeConflict(o) PROVE OwnedInv'
    BY <1>5 DEF ResumeConflict
  <1> QED
    BY <1>1, <1>2, <1>3, <1>4, <1>5 DEF Recovery

(* The cloud does not touch the journal.                                   *)
LEMMA CloudOwned ==
    ASSUME TypeInv, OwnedInv, CloudStep
    PROVE  OwnedInv'
  <1> USE ConstantsAssumption DEF TypeInv, TypeOK, CurOK, OwnedInv, Dispatching,
          resVars, opVars, cloud, goroutine, recovery
  <1>1. ASSUME NEW o \in Ops, CloudCreate(o) PROVE OwnedInv'
    BY <1>1 DEF CloudCreate
  <1>2. ASSUME NEW o \in Ops, CloudApply(o) PROVE OwnedInv'
    BY <1>2 DEF CloudApply
  <1>3. ASSUME NEW x \in Machines, Progress(x) PROVE OwnedInv'
    BY <1>3 DEF Progress
  <1>4. ASSUME NEW x \in Machines, BecomeListed(x) PROVE OwnedInv'
    BY <1>4 DEF BecomeListed
  <1> QED
    BY <1>1, <1>2, <1>3, <1>4 DEF CloudStep

(* A crash takes readiness away, and everything in flight is scanned       *)
(* again.                                                                  *)
LEMMA FaultsOwned ==
    ASSUME TypeInv, OwnedInv, Faults
    PROVE  OwnedInv'
  <1> USE ConstantsAssumption DEF TypeInv, TypeOK, CurOK, OwnedInv, Dispatching,
          resVars, opVars, cloud, goroutine, recovery
  <1>1. ASSUME Crash PROVE OwnedInv'
    BY <1>1 DEF Crash, Return
  <1>2. ASSUME ResponseLost PROVE OwnedInv'
    BY <1>2 DEF ResponseLost
  <1>3. ASSUME TxAborted PROVE OwnedInv'
    BY <1>3 DEF TxAborted, Return
  <1>4. ASSUME CallFailed PROVE OwnedInv'
    BY <1>4 DEF CallFailed, Return
  <1>5. ASSUME ResumeFails PROVE OwnedInv'
    BY <1>5 DEF ResumeFails
  <1>6. ASSUME NEW o \in Ops, CloudReject(o) PROVE OwnedInv'
    BY <1>6 DEF CloudReject
  <1>7. ASSUME NEW o \in Ops, RequestLost(o) PROVE OwnedInv'
    BY <1>7 DEF RequestLost
  <1>8. ASSUME NEW o \in Ops, CloudGivesUp(o) PROVE OwnedInv'
    BY <1>8 DEF CloudGivesUp
  <1>9. ASSUME NEW o \in Ops, Unconfigured(o) PROVE OwnedInv'
    BY <1>9 DEF Unconfigured, failOp, Transition, TryCASPhase
  <1>10. ASSUME NEW x \in Machines, Vanish(x) PROVE OwnedInv'
    BY <1>10 DEF Vanish
  <1>11. ASSUME NEW x \in Machines, StartDies(x) PROVE OwnedInv'
    BY <1>11 DEF StartDies
  <1> QED
    BY <1>1, <1>2, <1>3, <1>4, <1>5, <1>6, <1>7, <1>8, <1>9, <1>10, <1>11 DEF Faults

(* OwnedInv is inductive, given the types.                                 *)
LEMMA NextOwned == TypeInv /\ OwnedInv /\ [Next]_vars => OwnedInv'
  <1> SUFFICES ASSUME TypeInv, OwnedInv, [Next]_vars PROVE OwnedInv'
    OBVIOUS
  <1>1. ASSUME NEW o \in Ops, WindowElapses(o) PROVE OwnedInv'
    BY <1>1 DEF WindowElapses, OwnedInv, Dispatching, resVars, cloud, goroutine, recovery
  <1>2. CASE UNCHANGED vars
    BY <1>2 DEF vars, OwnedInv, Dispatching, resVars, opVars, cloud, goroutine, recovery
  <1> QED
    BY <1>1, <1>2, HandlersOwned, EngineOwned, RecoveryOwned, CloudOwned, FaultsOwned
       DEF Next

(* Boot recovery is complete: once Resume has declared the process ready,  *)
(* an operation in flight is the one the goroutine is dispatching, however *)
(* the scan raced the running engine.  A store whose commits may fail can  *)
(* leave one behind, so the store is assumed to work.                      *)
THEOREM NothingLeftInFlight == Spec => [](~StoreMayFail => InFlightOwned)
  <1>1. Init => OwnedInv
    BY DEF Init, OwnedInv
  <1>2. Spec => []OwnedInv
    <2>1. Spec => []TypeInv
      BY InitTypeInv, NextTypeInv, PTL DEF Spec
    <2> QED
      BY <1>1, <2>1, NextOwned, PTL DEF Spec
  <1>3. OwnedInv => (~StoreMayFail => InFlightOwned)
    BY DEF OwnedInv, InFlightOwned, Dispatching
  <1> QED
    BY <1>2, <1>3, PTL

-----------------------------------------------------------------------------
(* The contract of the engine with scheduler and reconciler, RowLife.  Its *)
(* steps need JournalInv, so that an operation that ends finds its row in  *)
(* the phase of its kind, and LifeInv: which rows may be tombstoned        *)
(* without a delete, and what may still be open for a tombstoned row.      *)

(* A row without a machine is still being created, or its create failed.   *)
Materialized ==
    \A r \in Resources :
        Live(r) /\ phase[r] \notin {"provisioning", "failed"} => ext[r] # Null

(* The driver's answer brought the machine of an accepted create.           *)
AcceptedHasMachine ==
    \A o \in Ops : opState[o] = "external_accepted" /\ opKind[o] = "create"
                      => ext[opRes[o]] # Null

(* The only open operation of a tombstoned row is its create.              *)
ForgottenCreates ==
    \A o \in Ops : Open(o) /\ opRes[o] \in deleted => opKind[o] = "create"

(* Only rows that exist are tombstoned.                                    *)
TombstonesBorn == \A r \in deleted : phase[r] # "none"

LifeInv == Materialized /\ AcceptedHasMachine /\ ForgottenCreates /\ TombstonesBorn

(* A handler tombstones only rows that nothing but a create works on.      *)
LEMMA HandlersLife ==
    ASSUME TypeInv, JournalInv, LifeInv, Handlers
    PROVE  LifeInv'
  <1> USE ConstantsAssumption, FailTable, TransientPhases DEF TypeInv, TypeOK, CurOK, JournalInv, OneOpen,
          CreateAlone, OnlyCreatesFreeze, LeasedAllocated, TransientHasOp, RowsBorn,
          Live, OpenOpsOf, Open, OpenStates, Terminal, OpKinds, isParkOp, LifeInv,
          Materialized, AcceptedHasMachine, ForgottenCreates, TombstonesBorn, resVars,
          opVars, cloud, goroutine, recovery
  <1>1. ASSUME NEW r \in Resources, NEW o \in Ops, Journal(r, o) PROVE LifeInv'
    BY <1>1 DEF Journal, Append
  <1>2. ASSUME NEW r \in Resources, NEW o \in Ops, JournalDelete(r, o) PROVE LifeInv'
    BY <1>2 DEF JournalDelete, Append, CanTransition, transitions, Phases
  <1>3. ASSUME NEW r \in Resources, NEW o \in Ops, JournalStop(r, o) PROVE LifeInv'
    BY <1>3 DEF JournalStop, Append
  <1>4. ASSUME NEW r \in Resources, NEW o \in Ops, JournalStart(r, o) PROVE LifeInv'
    BY <1>4 DEF JournalStart, Append
  <1>5. ASSUME NEW r \in Resources, TombstoneUnmaterialized(r) PROVE LifeInv'
    BY <1>5 DEF TombstoneUnmaterialized
  <1>6. ASSUME NEW r \in Resources, Reserve(r) PROVE LifeInv'
    BY <1>6 DEF Reserve
  <1>7. ASSUME NEW r \in Resources, EndLease(r) PROVE LifeInv'
    BY <1>7 DEF EndLease
  <1>8. ASSUME NEW o \in Ops, ResolveRetryVerification(o) PROVE LifeInv'
    BY <1>8 DEF ResolveRetryVerification, Transition
  <1>9. ASSUME NEW o \in Ops, ResolveMarkFailed(o) PROVE LifeInv'
    BY <1>9 DEF ResolveMarkFailed, Transition, TryCASPhase
  <1> QED
    BY <1>1, <1>2, <1>3, <1>4, <1>5, <1>6, <1>7, <1>8, <1>9 DEF Handlers

(* What the engine accepts or ends has its machine in the row.             *)
LEMMA EngineLife ==
    ASSUME TypeInv, JournalInv, LifeInv, EngineStep
    PROVE  LifeInv'
  <1> USE ConstantsAssumption, FailTable, TransientPhases DEF TypeInv, TypeOK, CurOK, JournalInv, OneOpen,
          CreateAlone, OnlyCreatesFreeze, LeasedAllocated, TransientHasOp, RowsBorn,
          Live, OpenOpsOf, Open, OpenStates, Terminal, OpKinds, isParkOp, LifeInv,
          Materialized, AcceptedHasMachine, ForgottenCreates, TombstonesBorn, resVars,
          opVars, cloud, goroutine, recovery
  <1>1. ASSUME NEW o \in Ops, TxB(o) PROVE LifeInv'
    BY <1>1 DEF TxB, Transition
  <1>2. ASSUME NEW o \in Ops, GiveUp(o) PROVE LifeInv'
    BY <1>2 DEF GiveUp, failOp, Transition, TryCASPhase
  <1>3. ASSUME NEW o \in Ops, PollObserve(o) PROVE LifeInv'
    BY <1>3 DEF PollObserve
  <1>4. ASSUME NEW o \in Ops, VerifyPark(o) PROVE LifeInv'
    BY <1>4 DEF VerifyPark, MoveOnly, Transition
  <1>5. ASSUME NEW o \in Ops, FreezeUncertain(o) PROVE LifeInv'
    BY <1>5 DEF FreezeUncertain, MoveOnly, Transition
  <1>6. ASSUME NEW o \in Ops, VerifyCreate(o) PROVE LifeInv'
    BY <1>6 DEF VerifyCreate
  <1>7. ASSUME NEW o \in Ops, VerifyDelete(o) PROVE LifeInv'
    BY <1>7 DEF VerifyDelete
  <1>8. ASSUME ApplyCall PROVE LifeInv'
    BY <1>8 DEF ApplyCall
  <1>9. ASSUME ApplyDedup PROVE LifeInv'
    BY <1>9 DEF ApplyDedup
  <1>10. ASSUME TxC PROVE LifeInv'
    BY <1>10 DEF TxC, Returned, Transition, Return
  <1>11. ASSUME ApplyDeleteNotFound PROVE LifeInv'
    BY <1>11 DEF ApplyDeleteNotFound, Returned, succeedDelete, Transition, Return
  <1>12. ASSUME ApplyFailed PROVE LifeInv'
    BY <1>12 DEF ApplyFailed, Returned, failOp, Transition, TryCASPhase, Return
  <1>13. ASSUME ApplyRetry PROVE LifeInv'
    BY <1>13 DEF ApplyRetry, Returned, MoveOnly, Transition, Return
  <1>14. ASSUME ApplyUncertain PROVE LifeInv'
    BY <1>14 DEF ApplyUncertain, Returned, MoveOnly, Transition, Return
  <1>15. ASSUME ApplyRaced PROVE LifeInv'
    BY <1>15 DEF ApplyRaced, Return
  <1>16. ASSUME PollNotFound PROVE LifeInv'
    BY <1>16 DEF PollNotFound, Polled, succeedDelete, failOp, TryCASPhase, MoveOnly,
       Transition, Return
  <1>17. ASSUME PollSucceeded PROVE LifeInv'
    BY <1>17 DEF PollSucceeded, Polled, succeedDelete, succeed, CASPhase, Transition,
       Return
  <1>18. ASSUME PollRolledBack PROVE LifeInv'
    BY <1>18 DEF PollRolledBack, Polled, Return
  <1>19. ASSUME PollFailed PROVE LifeInv'
    BY <1>19 DEF PollFailed, Polled, failOp, TryCASPhase, Transition, Return
  <1>20. ASSUME PollAgain PROVE LifeInv'
    BY <1>20 DEF PollAgain, Return
  <1>21. ASSUME ReadinessExhausted PROVE LifeInv'
    BY <1>21 DEF ReadinessExhausted, Polled, TryCASPhase, Transition, Return
  <1>22. ASSUME Discover PROVE LifeInv'
    BY <1>22 DEF Discover
  <1>23. ASSUME Adopt PROVE LifeInv'
    BY <1>23 DEF Adopt, Looked, Transition, Return
  <1>24. ASSUME NotListed PROVE LifeInv'
    BY <1>24 DEF NotListed, Looked, MoveOnly, Transition, Return
  <1>25. ASSUME DeleteVerified PROVE LifeInv'
    BY <1>25 DEF DeleteVerified, Looked, succeedDelete, MoveOnly, Transition, Return
  <1> QED
    BY <1>1, <1>2, <1>3, <1>4, <1>5, <1>6, <1>7, <1>8, <1>9, <1>10, <1>11, <1>12, <1>13,
       <1>14, <1>15, <1>16, <1>17, <1>18, <1>19, <1>20, <1>21, <1>22, <1>23, <1>24,
       <1>25 DEF EngineStep

(* Resume gives up no machine and tombstones nothing.                      *)
LEMMA RecoveryLife ==
    ASSUME TypeInv, JournalInv, LifeInv, Recovery
    PROVE  LifeInv'
  <1> USE ConstantsAssumption, FailTable, TransientPhases DEF TypeInv, TypeOK, CurOK, JournalInv, OneOpen,
          CreateAlone, OnlyCreatesFreeze, LeasedAllocated, TransientHasOp, RowsBorn,
          Live, OpenOpsOf, Open, OpenStates, Terminal, OpKinds, isParkOp, LifeInv,
          Materialized, AcceptedHasMachine, ForgottenCreates, TombstonesBorn, resVars,
          opVars, cloud, goroutine, recovery
  <1>1. ASSUME ResumeScan PROVE LifeInv'
    BY <1>1 DEF ResumeScan
  <1>2. ASSUME ResumeDone PROVE LifeInv'
    BY <1>2 DEF ResumeDone
  <1>3. ASSUME Restart PROVE LifeInv'
    BY <1>3 DEF Restart
  <1>4. ASSUME NEW o \in Ops, ResumeRoute(o) PROVE LifeInv'
    BY <1>4 DEF ResumeRoute, MoveOnly, Transition
  <1>5. ASSUME NEW o \in Ops, ResumeConflict(o) PROVE LifeInv'
    BY <1>5 DEF ResumeConflict
  <1> QED
    BY <1>1, <1>2, <1>3, <1>4, <1>5 DEF Recovery

(* The cloud writes no row.                                                *)
LEMMA CloudLife ==
    ASSUME TypeInv, JournalInv, LifeInv, CloudStep
    PROVE  LifeInv'
  <1> USE ConstantsAssumption, FailTable, TransientPhases DEF TypeInv, TypeOK, CurOK, JournalInv, OneOpen,
          CreateAlone, OnlyCreatesFreeze, LeasedAllocated, TransientHasOp, RowsBorn,
          Live, OpenOpsOf, Open, OpenStates, Terminal, OpKinds, isParkOp, LifeInv,
          Materialized, AcceptedHasMachine, ForgottenCreates, TombstonesBorn, resVars,
          opVars, cloud, goroutine, recovery
  <1>1. ASSUME NEW o \in Ops, CloudCreate(o) PROVE LifeInv'
    BY <1>1 DEF CloudCreate
  <1>2. ASSUME NEW o \in Ops, CloudApply(o) PROVE LifeInv'
    BY <1>2 DEF CloudApply
  <1>3. ASSUME NEW x \in Machines, Progress(x) PROVE LifeInv'
    BY <1>3 DEF Progress
  <1>4. ASSUME NEW x \in Machines, BecomeListed(x) PROVE LifeInv'
    BY <1>4 DEF BecomeListed
  <1> QED
    BY <1>1, <1>2, <1>3, <1>4 DEF CloudStep

(* A failed operation leaves the row its machine.                          *)
LEMMA FaultsLife ==
    ASSUME TypeInv, JournalInv, LifeInv, Faults
    PROVE  LifeInv'
  <1> USE ConstantsAssumption, FailTable, TransientPhases DEF TypeInv, TypeOK, CurOK, JournalInv, OneOpen,
          CreateAlone, OnlyCreatesFreeze, LeasedAllocated, TransientHasOp, RowsBorn,
          Live, OpenOpsOf, Open, OpenStates, Terminal, OpKinds, isParkOp, LifeInv,
          Materialized, AcceptedHasMachine, ForgottenCreates, TombstonesBorn, resVars,
          opVars, cloud, goroutine, recovery
  <1>1. ASSUME Crash PROVE LifeInv'
    BY <1>1 DEF Crash, Return
  <1>2. ASSUME ResponseLost PROVE LifeInv'
    BY <1>2 DEF ResponseLost
  <1>3. ASSUME TxAborted PROVE LifeInv'
    BY <1>3 DEF TxAborted, Return
  <1>4. ASSUME CallFailed PROVE LifeInv'
    BY <1>4 DEF CallFailed, Return
  <1>5. ASSUME ResumeFails PROVE LifeInv'
    BY <1>5 DEF ResumeFails
  <1>6. ASSUME NEW o \in Ops, CloudReject(o) PROVE LifeInv'
    BY <1>6 DEF CloudReject
  <1>7. ASSUME NEW o \in Ops, RequestLost(o) PROVE LifeInv'
    BY <1>7 DEF RequestLost
  <1>8. ASSUME NEW o \in Ops, CloudGivesUp(o) PROVE LifeInv'
    BY <1>8 DEF CloudGivesUp
  <1>9. ASSUME NEW o \in Ops, Unconfigured(o) PROVE LifeInv'
    BY <1>9 DEF Unconfigured, failOp, Transition, TryCASPhase
  <1>10. ASSUME NEW x \in Machines, Vanish(x) PROVE LifeInv'
    BY <1>10 DEF Vanish
  <1>11. ASSUME NEW x \in Machines, StartDies(x) PROVE LifeInv'
    BY <1>11 DEF StartDies
  <1> QED
    BY <1>1, <1>2, <1>3, <1>4, <1>5, <1>6, <1>7, <1>8, <1>9, <1>10, <1>11 DEF Faults

(* LifeInv is inductive, given types and JournalInv.                       *)
LEMMA NextLife == TypeInv /\ JournalInv /\ LifeInv /\ [Next]_vars => LifeInv'
  <1> SUFFICES ASSUME TypeInv, JournalInv, LifeInv, [Next]_vars PROVE LifeInv'
    OBVIOUS
  <1> USE DEF LifeInv, Materialized, AcceptedHasMachine, ForgottenCreates, TombstonesBorn, Live, Open
  <1>1. ASSUME NEW o \in Ops, WindowElapses(o) PROVE LifeInv'
    BY <1>1 DEF WindowElapses, resVars
  <1>2. CASE UNCHANGED vars
    BY <1>2 DEF vars, resVars, opVars
  <1> QED
    BY <1>1, <1>2, HandlersLife, EngineLife, RecoveryLife, CloudLife, FaultsLife DEF Next

(* The tables of RowLife and of the engine agree.                          *)
LEMMA LifeTables ==
    /\ Life!Kinds = OpKinds
    /\ \A k \in OpKinds : Life!During[k] = FailFrom(k) /\ FailTo(k) \in Life!Setbacks[k]
    /\ "failed" \in Life!Setbacks["create"] /\ "failed" \in Life!Setbacks["start"]
    /\ Life!Goal["create"] = "ready" /\ Life!Goal["delete"] = "deleted"
    /\ Life!Goal["stop"] = "parked" /\ Life!Goal["start"] = "ready"
    /\ Life!Entries["create"] = {"none"} /\ Life!Entries["stop"] = {"ready"}
    /\ Life!Entries["start"] = {"parked"}
    /\ Life!Entries["delete"] = {p \in Phases : CanTransition(p, "deleting")}
  BY DEF Life!Kinds, OpKinds, Life!During, Life!Setbacks, Life!Goal, Life!Entries, FailFrom, FailTo,
     Life!CanTransition, Life!Phases, Life!transitions, CanTransition, Phases, transitions

(* A phase CAS on a live row moves its life.                               *)
LEMMA LifeMoves ==
    ASSUME TypeOK, NEW r \in Resources, r \notin deleted, NEW to,
           phase' = [phase EXCEPT ![r] = to], UNCHANGED deleted
    PROVE  LifeOf' = [LifeOf EXCEPT ![r] = to]
  BY DEF LifeOf, TypeOK

(* A tombstone ends the life of its row.                                   *)
LEMMA LifeEnds ==
    ASSUME TypeOK, NEW r \in Resources, deleted' = deleted \cup {r}, UNCHANGED phase
    PROVE  LifeOf' = [LifeOf EXCEPT ![r] = "deleted"]
  BY DEF LifeOf, TypeOK

(* Nothing else changes it.                                                *)
LEMMA LifeStays ==
    ASSUME UNCHANGED <<phase, deleted>>
    PROVE  LifeOf' = LifeOf
  BY Zenon DEF LifeOf

(* What a journal CAS shows of an operation.                               *)
LEMMA OutcomeMoves ==
    ASSUME TypeOK, NEW o \in Ops,
           NEW to \in OpenStates \cup Terminal, opState' = [opState EXCEPT ![o] = to]
    PROVE  OutcomeOf' = [OutcomeOf EXCEPT ![o] = IF to \in OpenStates THEN "open" ELSE to]
  BY DEF OutcomeOf, TypeOK, Open, OpenStates, Terminal

(* Outcomes change with the journal only.                                  *)
LEMMA OutcomeStays ==
    ASSUME UNCHANGED opState
    PROVE  OutcomeOf' = OutcomeOf
  BY Zenon DEF OutcomeOf, Open

(* An operation that moves between open states is no event for others.     *)
LEMMA OpenMoves ==
    ASSUME TypeOK, NEW o \in Ops, Open(o), NEW to \in OpenStates,
           opState' = [opState EXCEPT ![o] = to]
    PROVE  OutcomeOf' = OutcomeOf
  BY DEF OutcomeOf, TypeOK, Open, OpenStates, Terminal

(* A step of RowLife, or none.                                             *)
LifeStep == Life!Next \/ UNCHANGED Life!vars

(* A journaled operation begins.                                           *)
LEMMA Begins ==
    ASSUME TypeInv, JournalInv, LifeInv,
           NEW r \in Resources, NEW o \in Ops, NEW k \in OpKinds, NEW ref,
           r \notin deleted, r \notin leased, phase[r] \in Life!Entries[k],
           phase' = [phase EXCEPT ![r] = FailFrom(k)], Append(o, k, r, ref),
           UNCHANGED <<deleted, leased>>
    PROVE  LifeStep
  <1>1. LifeOf' = [LifeOf EXCEPT ![r] = Life!During[k]]
    BY LifeMoves, LifeTables DEF TypeInv
  <1>2. OutcomeOf' = [OutcomeOf EXCEPT ![o] = "open"]
    BY OutcomeMoves DEF Append, TypeInv, OpenStates
  <1>3. OutcomeOf[o] = "none" /\ LifeOf[r] = phase[r]
    BY DEF OutcomeOf, LifeOf, Append
  <1>4. Life!Idle(r)
    BY DEF Life!Idle, OutcomeOf, Append, OpenOpsOf, Open, OpenStates, Terminal, TypeInv, TypeOK
  <1>5. Life!Begin(r, o, k)
    BY <1>1, <1>2, <1>3, <1>4, Zenon DEF Life!Begin, Append
  <1> QED
    BY <1>5, LifeTables DEF LifeStep, Life!Next

(* An operation succeeds, and its row goes where it was to lead.           *)
LEMMA Succeeds ==
    ASSUME TypeInv, NEW o \in Ops, Open(o), opKind[o] \in OpKinds, opRes[o] \in Resources,
           opState' = [opState EXCEPT ![o] = "succeeded"],
           CASPhase(opRes[o], FailFrom(opKind[o]), Life!Goal[opKind[o]]),
           UNCHANGED <<deleted, leased, opKind, opRes>>
    PROVE  LifeStep
  <1>1. LifeOf' = [LifeOf EXCEPT ![opRes[o]] = Life!Goal[opKind[o]]]
    BY LifeMoves DEF TypeInv, CASPhase
  <1>2. OutcomeOf' = [OutcomeOf EXCEPT ![o] = "succeeded"]
    BY OutcomeMoves DEF TypeInv, OpenStates, Terminal
  <1>3. OutcomeOf[o] = "open" /\ LifeOf[opRes[o]] = Life!During[opKind[o]]
    BY LifeTables DEF OutcomeOf, LifeOf, CASPhase, Open, OpenStates
  <1>4. Life!Succeed(o)
    BY <1>1, <1>2, <1>3, Zenon DEF Life!Succeed, Life!Ends
  <1> QED
    BY <1>4 DEF LifeStep, Life!Next

(* A delete succeeds: the tombstone comes with the outcome.                *)
LEMMA DeleteSucceeds ==
    ASSUME TypeInv, JournalInv, NEW o \in Ops, NEW from \in OpenStates,
           opKind[o] = "delete", succeedDelete(o, from)
    PROVE  LifeStep
  <1>1. Open(o) /\ opRes[o] \in Resources /\ opRes[o] \notin deleted
    BY DEF succeedDelete, Transition, Open, TypeInv, CurOK, OpenStates
  <1>2. LifeOf' = [LifeOf EXCEPT ![opRes[o]] = Life!Goal[opKind[o]]]
    BY <1>1, LifeEnds, LifeTables DEF TypeInv, succeedDelete
  <1>3. OutcomeOf' = [OutcomeOf EXCEPT ![o] = "succeeded"]
    BY OutcomeMoves DEF TypeInv, OpenStates, Terminal, succeedDelete, Transition
  <1>4. phase[opRes[o]] = FailFrom(opKind[o])
    BY <1>1 DEF JournalInv, TransientHasOp, RowsBorn, Live, OpenOpsOf, Open, OpenStates
  <1>5. OutcomeOf[o] = "open" /\ LifeOf[opRes[o]] = Life!During[opKind[o]]
    BY <1>1, <1>4, LifeTables DEF OutcomeOf, LifeOf, Open, OpenStates, OpKinds
  <1>6. Life!Succeed(o)
    BY <1>2, <1>3, <1>5, Zenon DEF Life!Succeed, Life!Ends, succeedDelete
  <1> QED
    BY <1>6 DEF LifeStep, Life!Next

(* An operation fails, and its row falls back, unless it was tombstoned.   *)
LEMMA Fails ==
    ASSUME TypeInv, JournalInv, LifeInv, NEW o \in Ops, NEW from \in OpenStates,
           Transition(o, from, "failed"), NEW to \in Life!Setbacks[opKind[o]],
           TryCASPhase(opRes[o], FailFrom(opKind[o]), to),
           UNCHANGED <<deleted, leased, opKind, opRes>>
    PROVE  LifeStep
  <1>1. Open(o) /\ opRes[o] \in Resources /\ opKind[o] \in OpKinds
    BY DEF Transition, Open, TypeInv, CurOK, OpenStates
  <1>2. OutcomeOf' = [OutcomeOf EXCEPT ![o] = "failed"]
    BY OutcomeMoves DEF TypeInv, OpenStates, Terminal, Transition
  <1>3. OutcomeOf[o] = "open"
    BY <1>1 DEF OutcomeOf, Open, OpenStates
  <1>4. CASE opRes[o] \in deleted
    <2>1. UNCHANGED <<phase, deleted>>
      BY <1>4 DEF TryCASPhase
    <2>2. LifeOf' = LifeOf /\ LifeOf[opRes[o]] = "deleted"
      BY <1>1, <1>4, <2>1, LifeStays DEF LifeOf
    <2>3. opKind[o] = "create"
      BY <1>1, <1>4 DEF LifeInv, ForgottenCreates
    <2>4. Life!FailForgotten(o)
      BY <1>2, <1>3, <2>2, <2>3, Zenon DEF Life!FailForgotten
    <2> QED
      BY <2>4 DEF LifeStep, Life!Next
  <1>5. CASE opRes[o] \notin deleted
    <2>1. phase[opRes[o]] = FailFrom(opKind[o])
      BY <1>1, <1>5 DEF JournalInv, TransientHasOp, RowsBorn, Live, OpenOpsOf, Open, OpenStates
    <2>2. LifeOf' = [LifeOf EXCEPT ![opRes[o]] = to]
      BY <1>1, <1>5, <2>1, LifeMoves DEF TryCASPhase, TypeInv
    <2>3. LifeOf[opRes[o]] = Life!During[opKind[o]]
      BY <1>1, <1>5, <2>1, LifeTables DEF LifeOf
    <2>4. Life!Ends(o, "failed", to)
      BY <1>2, <1>3, <2>2, <2>3, Zenon DEF Life!Ends
    <2>5. Life!Fail(o)
      BY <1>3, <2>4, Zenon DEF Life!Fail
    <2> QED
      BY <2>5 DEF LifeStep, Life!Next
  <1> QED
    BY <1>4, <1>5

(* failOp falls back to what its table says.                               *)
LEMMA FailOpFails ==
    ASSUME TypeInv, JournalInv, LifeInv, NEW o \in Ops, NEW from \in OpenStates, failOp(o, from)
    PROVE  LifeStep
  <1>1. opKind[o] \in OpKinds
    BY DEF failOp, Transition, TypeInv, CurOK, OpenStates
  <1>2. FailTo(opKind[o]) \in Life!Setbacks[opKind[o]]
    BY <1>1, LifeTables
  <1> QED
    BY <1>2, Fails DEF failOp

(* A step that leaves rows and outcomes alone is a stutter of RowLife.     *)
LEMMA Unseen ==
    ASSUME UNCHANGED <<phase, deleted, leased, opKind, opRes>>, OutcomeOf' = OutcomeOf
    PROVE  LifeStep
  <1>1. LifeOf' = LifeOf
    BY LifeStays
  <1> QED
    BY <1>1, Zenon DEF LifeStep, Life!vars

(* A journal CAS between open states is not seen.                          *)
LEMMA MoveUnseen ==
    ASSUME TypeInv, NEW o \in Ops, NEW from \in OpenStates, NEW to \in OpenStates,
           Transition(o, from, to), UNCHANGED <<phase, deleted, leased, opKind, opRes>>
    PROVE  LifeStep
  <1>1. OutcomeOf' = OutcomeOf
    BY OpenMoves DEF Transition, Open, TypeInv
  <1> QED
    BY <1>1, Unseen

(* Nor is a step that writes neither rows nor journal.                     *)
LEMMA RowsUnseen ==
    ASSUME UNCHANGED resVars, UNCHANGED opVars
    PROVE  LifeStep
  BY OutcomeStays, Unseen DEF resVars, opVars

(* Handlers begin operations, forget rows and move leases.                 *)
LEMMA HandlersSeen ==
    ASSUME TypeInv, JournalInv, LifeInv, Handlers
    PROVE  LifeStep
  <1>1. ASSUME NEW r \in Resources, NEW o \in Ops, Journal(r, o) PROVE LifeStep
    BY <1>1, Begins, FailTable, LifeTables DEF Journal, OpKinds, JournalInv, LeasedAllocated,
       LifeInv, TombstonesBorn, Live, TypeInv, TypeOK
  <1>2. ASSUME NEW r \in Resources, NEW o \in Ops, JournalDelete(r, o) PROVE LifeStep
    BY <1>2, Begins, FailTable, LifeTables DEF JournalDelete, OpKinds, JournalInv, LeasedAllocated,
       LifeInv, TombstonesBorn, Live, TypeInv, TypeOK
  <1>3. ASSUME NEW r \in Resources, NEW o \in Ops, JournalStop(r, o) PROVE LifeStep
    BY <1>3, Begins, FailTable, LifeTables DEF JournalStop, OpKinds, JournalInv, LeasedAllocated,
       LifeInv, TombstonesBorn, Live, TypeInv, TypeOK
  <1>4. ASSUME NEW r \in Resources, NEW o \in Ops, JournalStart(r, o) PROVE LifeStep
    BY <1>4, Begins, FailTable, LifeTables DEF JournalStart, OpKinds, JournalInv, LeasedAllocated,
       LifeInv, TombstonesBorn, Live, TypeInv, TypeOK
  <1>5. ASSUME NEW r \in Resources, TombstoneUnmaterialized(r) PROVE LifeStep
    <2>1. LifeOf' = [LifeOf EXCEPT ![r] = "deleted"]
      BY <1>5, LifeEnds DEF TombstoneUnmaterialized, TypeInv
    <2>2. OutcomeOf' = OutcomeOf
      BY <1>5, OutcomeStays DEF TombstoneUnmaterialized, opVars
    <2>3. LifeOf[r] \in {"provisioning", "failed"}
      BY <1>5 DEF TombstoneUnmaterialized, LifeOf, LifeInv, Materialized, Live
    <2>4. Life!Forget(r)
      BY <1>5, <2>1, <2>2, <2>3, Zenon DEF Life!Forget, TombstoneUnmaterialized, opVars
    <2> QED
      BY <2>4 DEF LifeStep, Life!Next
  <1>6. ASSUME NEW r \in Resources, Reserve(r) PROVE LifeStep
    <2>1. r \notin deleted /\ phase[r] = "ready"
      BY <1>6 DEF Reserve, Live, JournalInv, LeasedAllocated
    <2>2. LifeOf' = [LifeOf EXCEPT ![r] = "allocated"]
      BY <1>6, <2>1, LifeMoves DEF Reserve, TypeInv, TypeOK
    <2>3. OutcomeOf' = OutcomeOf
      BY <1>6, OutcomeStays DEF Reserve, opVars
    <2>4. LifeOf[r] = "ready"
      BY <2>1 DEF LifeOf
    <2>5. Life!Lease(r)
      BY <1>6, <2>2, <2>3, <2>4, Zenon DEF Life!Lease, Reserve, opVars
    <2> QED
      BY <2>5 DEF LifeStep, Life!Next
  <1>7. ASSUME NEW r \in Resources, EndLease(r) PROVE LifeStep
    <2>1. r \notin deleted /\ phase[r] = "allocated"
      BY <1>7 DEF EndLease, Live, JournalInv, LeasedAllocated
    <2>2. LifeOf' = [LifeOf EXCEPT ![r] = "ready"]
      BY <1>7, <2>1, LifeMoves DEF EndLease, TypeInv, TypeOK
    <2>3. OutcomeOf' = OutcomeOf
      BY <1>7, OutcomeStays DEF EndLease, opVars
    <2>4. LifeOf[r] = "allocated"
      BY <2>1 DEF LifeOf
    <2>5. Life!EndLease(r)
      BY <1>7, <2>2, <2>3, <2>4, Zenon DEF Life!EndLease, EndLease, opVars
    <2> QED
      BY <2>5 DEF LifeStep, Life!Next
  <1>8. ASSUME NEW o \in Ops, ResolveRetryVerification(o) PROVE LifeStep
    BY <1>8, MoveUnseen DEF ResolveRetryVerification, OpenStates, resVars
  <1>9. ASSUME NEW o \in Ops, ResolveMarkFailed(o) PROVE LifeStep
    <2>1. opKind[o] = "create"
      BY <1>9 DEF ResolveMarkFailed, Transition, JournalInv, OnlyCreatesFreeze
    <2>2. "failed" \in Life!Setbacks[opKind[o]] /\ FailFrom(opKind[o]) = "provisioning"
      BY <2>1, FailTable, LifeTables
    <2>3. TryCASPhase(opRes[o], FailFrom(opKind[o]), "failed")
      BY <1>9, <2>1, <2>2 DEF ResolveMarkFailed
    <2> QED
      BY <1>9, <2>2, <2>3, Fails DEF ResolveMarkFailed, OpenStates
  <1> QED
    BY <1>1, <1>2, <1>3, <1>4, <1>5, <1>6, <1>7, <1>8, <1>9 DEF Handlers

(* The engine ends operations, or does what nobody else sees.              *)
LEMMA EngineSeen ==
    ASSUME TypeInv, JournalInv, LifeInv, EngineStep
    PROVE  LifeStep
  <1>1. ASSUME NEW o \in Ops, TxB(o) PROVE LifeStep
    BY <1>1, MoveUnseen DEF TxB, OpenStates, resVars
  <1>2. ASSUME NEW o \in Ops, GiveUp(o) PROVE LifeStep
    BY <1>2, FailOpFails DEF GiveUp, OpenStates
  <1>3. ASSUME NEW o \in Ops, PollObserve(o) PROVE LifeStep
    BY <1>3, RowsUnseen DEF PollObserve
  <1>4. ASSUME NEW o \in Ops, VerifyPark(o) PROVE LifeStep
    BY <1>4, MoveUnseen DEF VerifyPark, MoveOnly, OpenStates, resVars
  <1>5. ASSUME NEW o \in Ops, FreezeUncertain(o) PROVE LifeStep
    BY <1>5, MoveUnseen DEF FreezeUncertain, MoveOnly, OpenStates, resVars
  <1>6. ASSUME NEW o \in Ops, VerifyCreate(o) PROVE LifeStep
    BY <1>6, RowsUnseen DEF VerifyCreate
  <1>7. ASSUME NEW o \in Ops, VerifyDelete(o) PROVE LifeStep
    BY <1>7, RowsUnseen DEF VerifyDelete
  <1>8. ASSUME ApplyCall PROVE LifeStep
    BY <1>8, RowsUnseen DEF ApplyCall
  <1>9. ASSUME ApplyDedup PROVE LifeStep
    BY <1>9, RowsUnseen DEF ApplyDedup
  <1>10. ASSUME TxC PROVE LifeStep
    BY <1>10, MoveUnseen DEF TxC, Returned, Looked, OpenStates, CurOK, TypeInv
  <1>11. ASSUME ApplyDeleteNotFound PROVE LifeStep
    BY <1>11, DeleteSucceeds DEF ApplyDeleteNotFound, Returned, OpenStates, CurOK, TypeInv
  <1>12. ASSUME ApplyFailed PROVE LifeStep
    BY <1>12, FailOpFails DEF ApplyFailed, Returned, OpenStates, CurOK, TypeInv
  <1>13. ASSUME ApplyRetry PROVE LifeStep
    BY <1>13, MoveUnseen DEF ApplyRetry, MoveOnly, Returned, OpenStates, resVars, CurOK,
       TypeInv
  <1>14. ASSUME ApplyUncertain PROVE LifeStep
    BY <1>14, MoveUnseen DEF ApplyUncertain, MoveOnly, Returned, OpenStates, resVars, CurOK,
       TypeInv
  <1>15. ASSUME ApplyRaced PROVE LifeStep
    BY <1>15, RowsUnseen DEF ApplyRaced
  <1>16. ASSUME PollNotFound PROVE LifeStep
    <2>0. cur \in Ops /\ "external_accepted" \in OpenStates /\ "verifying" \in OpenStates
      BY <1>16 DEF PollNotFound, Polled, TypeInv, CurOK, OpenStates
    <2>1. CASE opKind[cur] = "delete"
      BY <1>16, <2>0, <2>1, DeleteSucceeds DEF PollNotFound, isParkOp
    <2>2. CASE isParkOp(opKind[cur])
      BY <1>16, <2>0, <2>2, FailOpFails DEF PollNotFound, isParkOp
    <2>3. CASE opKind[cur] # "delete" /\ ~isParkOp(opKind[cur])
      BY <1>16, <2>0, <2>3, MoveUnseen DEF PollNotFound, MoveOnly, resVars
    <2> QED
      BY <2>1, <2>2, <2>3
  <1>17. ASSUME PollSucceeded PROVE LifeStep
    <2>0. /\ cur \in Ops /\ "external_accepted" \in OpenStates
          /\ opKind[cur] \in OpKinds /\ opRes[cur] \in Resources
      BY <1>17 DEF PollSucceeded, Polled, TypeInv, CurOK, OpenStates
    <2>1. CASE opKind[cur] = "delete"
      BY <1>17, <2>0, <2>1, DeleteSucceeds DEF PollSucceeded
    <2>2. CASE opKind[cur] # "delete"
      <3>1. succeed(cur, FailFrom(opKind[cur]), Life!Goal[opKind[cur]])
        BY <1>17, <2>0, <2>2, FailTable, LifeTables DEF PollSucceeded, OpKinds
      <3> QED
        BY <2>0, <3>1, Succeeds DEF succeed, Transition, Open
    <2> QED
      BY <2>1, <2>2
  <1>18. ASSUME PollRolledBack PROVE LifeStep
    BY <1>18, RowsUnseen DEF PollRolledBack
  <1>19. ASSUME PollFailed PROVE LifeStep
    BY <1>19, FailOpFails DEF PollFailed, Polled, OpenStates, CurOK, TypeInv
  <1>20. ASSUME PollAgain PROVE LifeStep
    BY <1>20, RowsUnseen DEF PollAgain
  <1>21. ASSUME ReadinessExhausted PROVE LifeStep
    <2>1. cur \in Ops /\ "failed" \in Life!Setbacks[opKind[cur]]
      BY <1>21, LifeTables DEF ReadinessExhausted, Polled, TypeInv, CurOK
    <2> QED
      BY <1>21, <2>1, Fails DEF ReadinessExhausted, OpenStates
  <1>22. ASSUME Discover PROVE LifeStep
    BY <1>22, RowsUnseen DEF Discover
  <1>23. ASSUME Adopt PROVE LifeStep
    BY <1>23, MoveUnseen DEF Adopt, Returned, Looked, OpenStates, CurOK, TypeInv
  <1>24. ASSUME NotListed PROVE LifeStep
    <2>1. cur \in Ops
      BY <1>24 DEF NotListed, Looked, TypeInv, CurOK
    <2>2. CASE seen.late
      BY <1>24, <2>1, <2>2, MoveUnseen DEF NotListed, MoveOnly, OpenStates, resVars
    <2>3. CASE ~seen.late
      BY <1>24, <2>3, RowsUnseen DEF NotListed
    <2> QED
      BY <2>2, <2>3
  <1>25. ASSUME DeleteVerified PROVE LifeStep
    <2>1. cur \in Ops
      BY <1>25 DEF DeleteVerified, TypeInv, CurOK
    <2>2. CASE succeedDelete(cur, "verifying")
      BY <1>25, <2>1, <2>2, DeleteSucceeds DEF DeleteVerified, OpenStates
    <2>3. CASE MoveOnly(cur, "verifying", "journaled")
      BY <2>1, <2>3, MoveUnseen DEF MoveOnly, OpenStates, resVars
    <2> QED
      BY <1>25, <2>2, <2>3 DEF DeleteVerified
  <1> QED
    BY <1>1, <1>2, <1>3, <1>4, <1>5, <1>6, <1>7, <1>8, <1>9, <1>10, <1>11, <1>12, <1>13,
       <1>14, <1>15, <1>16, <1>17, <1>18, <1>19, <1>20, <1>21, <1>22, <1>23, <1>24,
       <1>25 DEF EngineStep

(* Recovery is not seen.                                                   *)
LEMMA RecoverySeen ==
    ASSUME TypeInv, JournalInv, LifeInv, Recovery
    PROVE  LifeStep
  <1>1. ASSUME ResumeScan PROVE LifeStep
    BY <1>1, RowsUnseen DEF ResumeScan
  <1>2. ASSUME ResumeDone PROVE LifeStep
    BY <1>2, RowsUnseen DEF ResumeDone
  <1>3. ASSUME Restart PROVE LifeStep
    BY <1>3, RowsUnseen DEF Restart
  <1>4. ASSUME NEW o \in Ops, ResumeRoute(o) PROVE LifeStep
    BY <1>4, MoveUnseen DEF ResumeRoute, MoveOnly, OpenStates, resVars
  <1>5. ASSUME NEW o \in Ops, ResumeConflict(o) PROVE LifeStep
    BY <1>5, RowsUnseen DEF ResumeConflict
  <1> QED
    BY <1>1, <1>2, <1>3, <1>4, <1>5 DEF Recovery

(* Nor is the cloud.                                                       *)
LEMMA CloudSeen ==
    ASSUME TypeInv, JournalInv, LifeInv, CloudStep
    PROVE  LifeStep
  <1>1. ASSUME NEW o \in Ops, CloudCreate(o) PROVE LifeStep
    BY <1>1, RowsUnseen DEF CloudCreate
  <1>2. ASSUME NEW o \in Ops, CloudApply(o) PROVE LifeStep
    BY <1>2, RowsUnseen DEF CloudApply
  <1>3. ASSUME NEW x \in Machines, Progress(x) PROVE LifeStep
    BY <1>3, RowsUnseen DEF Progress
  <1>4. ASSUME NEW x \in Machines, BecomeListed(x) PROVE LifeStep
    BY <1>4, RowsUnseen DEF BecomeListed
  <1> QED
    BY <1>1, <1>2, <1>3, <1>4 DEF CloudStep

(* A fault is seen only where it fails an operation.                       *)
LEMMA FaultsSeen ==
    ASSUME TypeInv, JournalInv, LifeInv, Faults
    PROVE  LifeStep
  <1>1. ASSUME Crash PROVE LifeStep
    BY <1>1, RowsUnseen DEF Crash
  <1>2. ASSUME ResponseLost PROVE LifeStep
    BY <1>2, RowsUnseen DEF ResponseLost
  <1>3. ASSUME TxAborted PROVE LifeStep
    BY <1>3, RowsUnseen DEF TxAborted
  <1>4. ASSUME CallFailed PROVE LifeStep
    BY <1>4, RowsUnseen DEF CallFailed
  <1>5. ASSUME ResumeFails PROVE LifeStep
    BY <1>5, RowsUnseen DEF ResumeFails
  <1>6. ASSUME NEW o \in Ops, CloudReject(o) PROVE LifeStep
    BY <1>6, RowsUnseen DEF CloudReject
  <1>7. ASSUME NEW o \in Ops, RequestLost(o) PROVE LifeStep
    BY <1>7, RowsUnseen DEF RequestLost
  <1>8. ASSUME NEW o \in Ops, CloudGivesUp(o) PROVE LifeStep
    BY <1>8, RowsUnseen DEF CloudGivesUp
  <1>9. ASSUME NEW o \in Ops, Unconfigured(o) PROVE LifeStep
    BY <1>9, FailOpFails DEF Unconfigured, OpenStates
  <1>10. ASSUME NEW x \in Machines, Vanish(x) PROVE LifeStep
    BY <1>10, RowsUnseen DEF Vanish
  <1>11. ASSUME NEW x \in Machines, StartDies(x) PROVE LifeStep
    BY <1>11, RowsUnseen DEF StartDies
  <1> QED
    BY <1>1, <1>2, <1>3, <1>4, <1>5, <1>6, <1>7, <1>8, <1>9, <1>10, <1>11 DEF Faults

(* Every step is a step of RowLife, or none.                               *)
LEMMA NextSeen == TypeInv /\ JournalInv /\ LifeInv /\ [Next]_vars => LifeStep
  <1> SUFFICES ASSUME TypeInv, JournalInv, LifeInv, [Next]_vars PROVE LifeStep
    OBVIOUS
  <1>1. ASSUME NEW o \in Ops, WindowElapses(o) PROVE LifeStep
    BY <1>1, OutcomeStays, Unseen DEF WindowElapses, resVars
  <1>2. CASE UNCHANGED vars
    BY <1>2, RowsUnseen DEF vars
  <1> QED
    BY <1>1, <1>2, HandlersSeen, EngineSeen, RecoverySeen, CloudSeen, FaultsSeen DEF Next

(* The engine keeps the contract of RowLife: rows and operations move      *)
(* together, one operation at a time, to where the outcome says.           *)
THEOREM ContractIsKept == Spec => RowContract
  <1>1. Init => Life!Init
    BY DEF Init, Life!Init, LifeOf, OutcomeOf
  <1>2. Init => LifeInv
    BY DEF Init, LifeInv, Materialized, AcceptedHasMachine, ForgottenCreates, TombstonesBorn, Live, Open
  <1>3. TypeInv /\ JournalInv /\ LifeInv /\ [Next]_vars => [Life!Next]_(Life!vars)
    BY NextSeen DEF LifeStep
  <1> QED
    BY <1>1, <1>2, <1>3, NextLife, JournalInvariant, PTL DEF Spec, Life!Spec, RowContract
=============================================================================
