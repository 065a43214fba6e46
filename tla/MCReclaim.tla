----------------------------- MODULE MCReclaim ------------------------------
(* Small instances of Reclaim for TLC. *)
EXTENDS Reclaim, TLC

Class(idleAfter, park, deleteAfter, minimum, increment, buffer, adaptive) ==
    [idleAfter |-> idleAfter, park |-> park, deleteAfter |-> deleteAfter,
     billing |-> [minimum |-> minimum, increment |-> increment, buffer |-> buffer],
     adaptive |-> adaptive]

(* Billed by the period, also with a minimum and with an adaptive buffer;  *)
(* by a minimum only; not at all, and parked before it is deleted.         *)
Policies == {Class(1, FALSE, 0, 0, 7, 0, FALSE),
             Class(1, FALSE, 0, 7, 5, 6, FALSE),
             Class(4, FALSE, 0, 0, 14, 0, TRUE),
             Class(1, FALSE, 0, 6, 0, 0, FALSE),
             Class(1, TRUE, 2, 0, 0, 0, FALSE)}

Identities == Permutations(Rows) \cup Permutations(Acqs)

Durations == {<<>>, <<1, 4>>}
=============================================================================
