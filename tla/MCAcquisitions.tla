--------------------------- MODULE MCAcquisitions ---------------------------
(* Small instances of Acquisitions for TLC. *)
EXTENDS Acquisitions, TLC

(* A machine of two processors and two units of memory. *)
Machine == [cpu |-> 2, mem |-> 2]

Req(c, excl, class, wait) ==
    [constraints |-> c, exclusive |-> excl, class |-> class, maxWait |-> wait]

(* The whole machine, by not asking for anything positive; a share that    *)
(* leaves room for another one in one dimension only; a slice that fits    *)
(* twice, with a class and a wait budget, and one without class.           *)
Whole    == Req([cpu |-> 0], FALSE, TRUE, FALSE)
Share    == Req([cpu |-> 1, mem |-> 2], FALSE, TRUE, FALSE)
Slice    == Req([cpu |-> 1], FALSE, TRUE, TRUE)
Unscaled == Req([cpu |-> 1], FALSE, FALSE, TRUE)

Mixed    == {Whole, Share, Unscaled}
Slices   == {Slice}
Classless == {Unscaled}
Both     == {Slice, Unscaled}

(* Contention: callers race on machines that nobody else takes away. *)
Contention ==
    /\ Init
    /\ [][Scheduler \/ LeaseManager
           \/ \E r \in Resources : CreateRow(r) \/ Park(r) \/ OpSucceeds(r) \/ OpFails(r)]_vars

Identities == Permutations(Acqs) \cup Permutations(Leases) \cup Permutations(Resources)
=============================================================================
