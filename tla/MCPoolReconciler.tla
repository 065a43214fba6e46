-------------------------- MODULE MCPoolReconciler --------------------------
(* Small instances of PoolReconciler for TLC. *)
EXTENDS PoolReconciler, TLC

PoolSpec(replicas, minReady, minRunning, max) ==
    [replicas |-> replicas, minReady |-> minReady, minRunning |-> minRunning,
     maxResources |-> max]

(* A pool that grows within a maximum, shrinks without one, and goes away. *)
Sizes == {PoolSpec(2, 0, 1, 2), PoolSpec(1, 1, 1, 0), PoolSpec(0, 0, 0, 0)}
=============================================================================
