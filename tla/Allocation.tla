----------------------------- MODULE Allocation ------------------------------
(***************************************************************************)
(* What the scheduler and the lease manager promise to those who ask for   *)
(* capacity, without rows, leases, workers or operations: an acquisition   *)
(* waits, is granted a share of one machine or is given up, and keeps its  *)
(* share until it ends.  Grants respect exclusive holders and the capacity *)
(* of the machine, and a machine does not go while someone holds it.       *)
(*                                                                         *)
(* Module Acquisitions implements this.                                    *)
(***************************************************************************)
EXTENDS Capacity

CONSTANTS
    Machines, Acqs,
    Null,
    Total,       \* capacity vector of a machine
    Requests     \* what an acquisition may ask for

VARIABLES
    state,       \* of each acquisition
    asked,       \* its request
    machine,     \* the machine it holds a share of
    kept         \* machines that nobody stops, deletes or forgets

vars == <<state, asked, machine, kept>>

Init ==
    /\ state = [a \in Acqs |-> "none"]
    /\ asked = [a \in Acqs |-> Null]
    /\ machine = [a \in Acqs |-> Null]
    /\ kept = {}

Holders(m) == {a \in Acqs : state[a] = "held" /\ machine[a] = m}
Wanted(a, dim) == At(WantFromConstraints(asked[a].constraints), dim)
Claimed(m, dim) == SumFunction([a \in Holders(m) |-> Wanted(a, dim)])

-----------------------------------------------------------------------------
Ask(a, q) ==
    /\ state[a] = "none"
    /\ state' = [state EXCEPT ![a] = "waiting"]
    /\ asked' = [asked EXCEPT ![a] = q]
    /\ UNCHANGED <<machine, kept>>

(* What a grant may count on.                                              *)
Room(a, m) ==
    /\ exclusive(asked[a]) => Holders(m) = {}
    /\ \A b \in Holders(m) : ~exclusive(asked[b])
    /\ \A dim \in DOMAIN Total : Claimed(m, dim) + Wanted(a, dim) <= Total[dim]
    /\ DOMAIN WantFromConstraints(asked[a].constraints) \subseteq DOMAIN Total

Grant(a, m) ==
    /\ state[a] = "waiting" /\ m \in kept /\ Room(a, m)
    /\ state' = [state EXCEPT ![a] = "held"]
    /\ machine' = [machine EXCEPT ![a] = m]
    /\ UNCHANGED <<asked, kept>>

GiveUp(a) ==
    /\ state[a] = "waiting"
    /\ \E how \in {"released", "expired", "failed"} : state' = [state EXCEPT ![a] = how]
    /\ UNCHANGED <<asked, machine, kept>>

End(a) ==
    /\ state[a] = "held"
    /\ \E how \in {"released", "expired"} : state' = [state EXCEPT ![a] = how]
    /\ machine' = [machine EXCEPT ![a] = Null]
    /\ UNCHANGED <<asked, kept>>

Arrive(m) ==
    /\ kept' = kept \cup {m}
    /\ UNCHANGED <<state, asked, machine>>

Leave(m) ==
    /\ Holders(m) = {}
    /\ kept' = kept \ {m}
    /\ UNCHANGED <<state, asked, machine>>

Next ==
    \/ \E m \in Machines : Arrive(m) \/ Leave(m)
    \/ \E a \in Acqs, q \in Requests : Ask(a, q)
    \/ \E a \in Acqs : GiveUp(a) \/ End(a)
    \/ \E a \in Acqs, m \in Machines : Grant(a, m)

Spec == Init /\ [][Next]_vars
=============================================================================
