----------------------------- MODULE MCUpgrade -----------------------------
(* Small instances of module Upgrade for TLC; the .cfg files choose among them. *)
EXTENDS Upgrade, TLC

CONSTANTS v1, v2, w1, p1

TwoVersions == {v1, v2}
OneMount    == [w \in {w1} |-> {p1}]

\* The claims are listed in the ManagedApp; snapshots may be off, and a parent
\* may apply the Kustomization.
ListedOrOff == {s \in AppSpec : s.explicitPVCs /\ ~s.suspendRef}
\* The same, with auto-rollback only where a snapshot can be gone back to.
ListedOrPlain == {s \in ListedOrOff : s.autoRollback => s.snapshots /\ ~s.managed}
\* The claims are listed and snapshots are on.
Listed == {s \in ListedOrOff : s.snapshots /\ ~s.managed}
\* The same without auto-rollback.
ListedManual == {s \in Listed : ~s.autoRollback}
\* Snapshots are on, the claims are found through the pods.
Discovered == {s \in AppSpec : s.snapshots /\ ~s.explicitPVCs /\ ~s.suspendRef /\ ~s.managed}

\* Requests for the available update, that may skip the snapshots.
AnyRequest == [skipSnapshot : BOOLEAN, target : {NoVersion}]
Plain      == {q \in AnyRequest : ~q.skipSnapshot}

\* Requests are interchangeable.
AnyOrder == Permutations(Requests)
=============================================================================
