------------------------------- MODULE Phase --------------------------------
(***************************************************************************)
(* The orchestration phase of a resource (internal/phase/phase.go) and its *)
(* table of legal transitions.  Deletion is not a phase: a deleted record  *)
(* carries a tombstone (deleted_at) and keeps the phase it died in.        *)
(***************************************************************************)

Phases == {"unknown", "provisioning", "ready", "allocated", "draining",
           "deleting", "failed", "orphaned", "parking", "parked", "starting"}

transitions ==
    [p \in Phases |->
        CASE p = "unknown"      -> {"ready", "orphaned", "deleting"}
          [] p = "provisioning" -> {"ready", "failed", "orphaned"}
          [] p = "ready"        -> {"allocated", "draining", "orphaned",
                                    "deleting", "parking"}
          [] p = "allocated"    -> {"ready", "draining", "orphaned"}
          [] p = "draining"     -> {"ready", "deleting"}
          [] p = "deleting"     -> {"failed"}
          [] p = "failed"       -> {"deleting"}
          [] p = "orphaned"     -> {"ready", "parked"}
          [] p = "parking"      -> {"parked", "ready"}
          [] p = "parked"       -> {"starting", "deleting", "orphaned"}
          [] p = "starting"     -> {"ready", "parked", "failed"}]

CanTransition(from, to) == to \in transitions[from]
=============================================================================
