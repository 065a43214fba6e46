-------------------------- MODULE MCOperationEngine --------------------------
(* Small instances of OperationEngine for TLC. *)
EXTENDS OperationEngine, TLC

(* Operations of drivers with the same abilities are interchangeable, and  *)
(* so are machines and rows.                                               *)
Identities ==
    Permutations(LabelDiscovery) \cup Permutations(Ops \ LabelDiscovery)
       \cup Permutations(Machines) \cup Permutations(Resources)
=============================================================================
