------------------------- MODULE RollbackLifecycle -------------------------
(***************************************************************************)
(* What a RollbackRequest promises, whatever the cluster, the cache and    *)
(* its upgrade do: the workloads are stopped before the volumes are        *)
(* restored, the volumes are restored before Git is reverted, Git is       *)
(* reverted before Flux is resumed, one phase at a time; it may fail in    *)
(* each phase but the last, and never leaves a terminal stage.             *)
(***************************************************************************)
CONSTANT Rollbacks

VARIABLE stage   \* the stage of each rollback

Phases == <<"suspend", "stop", "restore", "revert", "reconcile", "health", "done">>
Ended  == {"succeeded", "failed"}

\* The stages a rollback may go to next: without snapshots there is nothing to
\* restore between stopping and the revert.
Successors(s) ==
  CASE s = "suspend"   -> {"stop", "failed"}
    [] s = "stop"      -> {"restore", "revert", "failed"}
    [] s = "restore"   -> {"revert", "failed"}
    [] s = "revert"    -> {"reconcile", "failed"}
    [] s = "reconcile" -> {"health", "failed"}
    [] s = "health"    -> {"done", "failed"}
    [] s = "done"      -> {"succeeded"}
    [] OTHER           -> {}

Init == stage = [r \in Rollbacks |-> Phases[1]]

Move(r) ==
  \E s \in Successors(stage[r]) : stage' = [stage EXCEPT ![r] = s]

Next == \E r \in Rollbacks : Move(r)

Spec == Init /\ [][Next]_stage
=============================================================================
