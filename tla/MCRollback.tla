----------------------------- MODULE MCRollback -----------------------------
(* Small instances of module Rollback for TLC. *)
EXTENDS Rollback

CONSTANTS v1, v2, w1, p1, p2

TwoVersions == {v1, v2}
OneMount    == [w \in {w1} |-> {p1}]
SharedMount == [w \in {w1} |-> {p1, p2}]
InOrder     == [p \in PVCs |-> IF p = p1 THEN 1 ELSE 2]

\* No parent is suspended in the app's stead; one may apply the Kustomization.
OwnTarget == {[snapshots |-> TRUE, explicitPVCs |-> TRUE, suspendRef |-> FALSE,
               managed |-> m, autoRollback |-> FALSE] : m \in BOOLEAN}

UpgradeWith(terminal, skip, n, previous) ==
  [gone |-> FALSE, terminal |-> terminal, skipSnapshot |-> skip,
   pvcSnapshots |-> [p \in PVCs |-> n], newVersion |-> v2, previousVersion |-> previous]

\* An upgrade that can be rolled back, and those that cannot.
AnyUpgrade == {UpgradeWith(TRUE, FALSE, 1, v1), UpgradeWith(TRUE, TRUE, 0, v1),
               UpgradeWith(FALSE, FALSE, 1, v1), UpgradeWith(TRUE, FALSE, 0, v1),
               UpgradeWith(TRUE, FALSE, 1, NoVersion)}
=============================================================================
