----------------------------- MODULE MCEngineLive -----------------------------
(***************************************************************************)
(* An instance of OperationEngine for liveness: two rows, so that two      *)
(* operations are open at once and boot recovery of the one meets the      *)
(* engine at work on the other.  TLC cannot use symmetry when it checks    *)
(* liveness; instead rows, operations and machines, which are              *)
(* interchangeable, come into use in a fixed order.                        *)
(***************************************************************************)
EXTENDS OperationEngine

CONSTANTS r1, r2, o1, o2, x1, x2, x3

ASSUME InstanceAssumption ==
    Resources = {r1, r2} /\ Ops = {o1, o2} /\ Machines = {x1, x2, x3}

(* A process that has just recovered an empty journal, over no rows or     *)
(* over a stopped machine that discovery minted as parked.                 *)
LiveInit ==
    \E minted \in SUBSET {r1} :
        /\ phase = [r \in Resources |-> IF r \in minted THEN "parked" ELSE "none"]
        /\ ext = [r \in Resources |-> IF r \in minted THEN x1 ELSE Null]
        /\ machine = [x \in Machines |->
                         IF x = x1 /\ minted # {} THEN "stopped" ELSE "absent"]
        /\ listed = {x \in Machines : Exists(x)}
        /\ label = [x \in Machines |-> Null]
        /\ opState = [o \in Ops |-> "unborn"]
        /\ opKind = [o \in Ops |-> "none"]
        /\ opRes = [o \in Ops |-> Null]
        /\ opRef = [o \in Ops |-> Null]
        /\ attempt = [o \in Ops |-> 0]
        /\ deleted = {} /\ leased = {} /\ elapsed = {} /\ wire = {} /\ botched = {}
        /\ boot = "ready" /\ toResume = {}
        /\ pc = "idle" /\ cur = Null /\ seen = NoReading
        /\ faults = 0

InOrder ==
    LET RowUsed(r)     == phase[r] # "none"
        OpUsed(o)      == opState[o] # "unborn"
        MachineUsed(x) == machine[x] # "absent"
    IN  /\ RowUsed(r2) => RowUsed(r1)
        /\ OpUsed(o2) => OpUsed(o1)
        /\ MachineUsed(x2) => MachineUsed(x1)
        /\ MachineUsed(x3) => MachineUsed(x2)

LiveSpec == LiveInit /\ [][Next /\ InOrder']_vars /\ Fairness
=============================================================================
