-------------------------- MODULE UpgradeLifecycle --------------------------
(***************************************************************************)
(* What an UpgradeRequest promises, whatever the cluster, the cache and    *)
(* the other requests do: it goes through its phases in one order and one  *)
(* at a time; it may fail in each of them; a failure before the Git commit *)
(* is a plain failure, one after it calls for a rollback; and it never     *)
(* leaves a terminal stage.                                                *)
(***************************************************************************)
CONSTANT Requests

VARIABLE stage   \* the stage of each request

BeforeCommit == {"suspend", "scaleDown", "snapshot", "commit"}
AfterCommit  == {"reconcile", "health", "done"}
Ended        == {"succeeded", "failed", "rollbackRequired"}

\* The stages a request may go to next: without snapshots there is nothing to
\* wait for between scaling down and the commit.
Successors(s) ==
  CASE s = "suspend"   -> {"scaleDown", "failed"}
    [] s = "scaleDown" -> {"snapshot", "commit", "failed"}
    [] s = "snapshot"  -> {"commit", "failed"}
    [] s = "commit"    -> {"reconcile", "failed"}
    [] s = "reconcile" -> {"health", "rollbackRequired"}
    [] s = "health"    -> {"done", "rollbackRequired"}
    [] s = "done"      -> {"succeeded", "rollbackRequired"}
    [] OTHER           -> {}

Init == stage = [r \in Requests |-> "suspend"]

Move(r) ==
  \E s \in Successors(stage[r]) : stage' = [stage EXCEPT ![r] = s]

Next == \E r \in Requests : Move(r)

Spec == Init /\ [][Next]_stage
=============================================================================
