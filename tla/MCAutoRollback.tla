--------------------------- MODULE MCAutoRollback ---------------------------
(* Small instances of module AutoRollback for TLC. *)
EXTENDS AutoRollback

CONSTANTS v1, v2, w1, p1

TwoVersions == {v1, v2}
OneMount    == [w \in {w1} |-> {p1}]
InOrder     == [p \in PVCs |-> 1]

\* The claims are listed, snapshots are on, and failures are rolled back.
Automatic == {[snapshots |-> TRUE, explicitPVCs |-> TRUE, suspendRef |-> FALSE,
               managed |-> FALSE, autoRollback |-> TRUE]}

Plain == {[skipSnapshot |-> FALSE, target |-> NoVersion]}
=============================================================================
