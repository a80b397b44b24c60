------------------------------ MODULE MCDryRun ------------------------------
(* Small instances of module DryRun for TLC. *)
EXTENDS DryRun

CONSTANTS v1, v2, w1, w2, p1

OneMount == [w \in Workloads |-> {p1}]

\* Flux goes on applying an app with a suspendRef, at any time or never: what an
\* app without one can do is among what this one can do.
AppliedThroughout ==
  {[snapshots |-> TRUE, explicitPVCs |-> FALSE, suspendRef |-> TRUE, managed |-> FALSE,
    autoRollback |-> FALSE]}
=============================================================================
