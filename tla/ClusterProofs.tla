--------------------------- MODULE ClusterProofs ---------------------------
(***************************************************************************)
(* Lemmas about module Cluster that the proofs about the controllers share *)
(* (modules UpgradeProofs and RollbackProofs).                             *)
(***************************************************************************)
EXTENDS Cluster, TLAPS

\* New snapshots keep the snapshots' type.
LEMMA CreateSnapshotsType ==
  ASSUME ClusterTypeOK, NEW P, CreateSnapshots(P)
  PROVE  snaps' \in [PVCs -> Seq(Snapshot)]
<1>1. ASSUME NEW p \in PVCs
      PROVE  Append(snaps[p], [state |-> "pending", quiet |-> Quiet(p)]) \in Seq(Snapshot)
  <2>1. [state |-> "pending", quiet |-> Quiet(p)] \in Snapshot
    BY DEF Snapshot, Quiet
  <2> QED
    BY <2>1 DEF ClusterTypeOK
<1> QED
  BY <1>1 DEF ClusterTypeOK, CreateSnapshots

\* A snapshot stays one when it is deleted, becomes ready or is spoilt.
LEMMA SnapshotType ==
  ASSUME NEW e \in Snapshot
  PROVE  /\ [e EXCEPT !.state = "deleted"] \in Snapshot
         /\ [e EXCEPT !.state = "ready"] \in Snapshot
         /\ [e EXCEPT !.quiet = FALSE] \in Snapshot
  BY DEF Snapshot

\* Pruning marks snapshots as deleted and keeps their number.
LEMMA PrunedType ==
  ASSUME NEW s \in Seq(Snapshot)
  PROVE  Pruned(s) \in Seq(Snapshot)
<1>1. \A i \in 1..Len(s) : s[i] \in Snapshot
  OBVIOUS
<1>2. \A i \in 1..Len(s) : [s[i] EXCEPT !.state = "deleted"] \in Snapshot
  BY <1>1, SnapshotType
<1>3. Len(s) \in Nat
  OBVIOUS
<1>4. CASE MaxCount = 0
  BY <1>4 DEF Pruned
<1>5. CASE MaxCount # 0
  <2>1. Pruned(s) \in [1..Len(s) -> Snapshot]
    BY <1>1, <1>2, <1>5 DEF Pruned
  <2> QED
    BY <2>1, <1>3
<1> QED
  BY <1>4, <1>5

\* Flux, pods, the CSI driver, people and Renovate.
LEMMA ClusterStepType ==
  ASSUME ClusterTypeOK, ClusterNext
  PROVE  ClusterTypeOK'
<1>1. ASSUME NEW ok \in BOOLEAN, FluxApply(ok) PROVE ClusterTypeOK'
  <2>1. pods' \in [Workloads -> PodStates]
    BY <1>1 DEF FluxApply, ClusterTypeOK, PodStates
  <2> QED
    BY <1>1, <2>1 DEF FluxApply, ClusterTypeOK
<1>2. ASSUME NEW w \in Workloads, PodStart(w) PROVE ClusterTypeOK'
  <2> DEFINE spoilt(p, i) == IF p \in Mounts[w] /\ snaps[p][i].state = "pending"
                             THEN [snaps[p][i] EXCEPT !.quiet = FALSE]
                             ELSE snaps[p][i]
  <2>1. ASSUME NEW p \in PVCs
        PROVE  [i \in 1..Len(snaps[p]) |-> spoilt(p, i)] \in Seq(Snapshot)
    <3>1. snaps[p] \in Seq(Snapshot) /\ Len(snaps[p]) \in Nat
      BY DEF ClusterTypeOK
    <3>2. \A i \in 1..Len(snaps[p]) : snaps[p][i] \in Snapshot
      BY <3>1
    <3>3. \A i \in 1..Len(snaps[p]) : [snaps[p][i] EXCEPT !.quiet = FALSE] \in Snapshot
      BY <3>2, SnapshotType
    <3>4. \A i \in 1..Len(snaps[p]) : spoilt(p, i) \in Snapshot
      BY <3>2, <3>3
    <3> HIDE DEF spoilt
    <3>5. [i \in 1..Len(snaps[p]) |-> spoilt(p, i)] \in [1..Len(snaps[p]) -> Snapshot]
      BY <3>4
    <3> QED
      BY <3>5, <3>1
  <2>2. snaps' = [p \in PVCs |-> [i \in 1..Len(snaps[p]) |-> spoilt(p, i)]]
    BY <1>2 DEF PodStart
  <2> HIDE DEF spoilt
  <2>3. snaps' \in [PVCs -> Seq(Snapshot)]
    BY <2>1, <2>2
  <2>4. pods' \in [Workloads -> PodStates]
    BY <1>2 DEF PodStart, ClusterTypeOK, PodStates
  <2> QED
    BY <1>2, <2>3, <2>4 DEF PodStart, ClusterTypeOK, fluxVars
<1>3. ASSUME NEW w \in Workloads, PodReady(w) PROVE ClusterTypeOK'
  BY <1>3 DEF PodReady, ClusterTypeOK, PodStates, fluxVars
<1>4. ASSUME NEW w \in Workloads, PodStop(w) PROVE ClusterTypeOK'
  BY <1>4 DEF PodStop, ClusterTypeOK, PodStates, fluxVars
<1>5. ASSUME NEW p \in PVCs, NEW i \in 1..MaxSnaps, SnapshotReady(p, i)
      PROVE  ClusterTypeOK'
  <2>1. snaps[p] \in Seq(Snapshot) /\ i \in 1..Len(snaps[p])
    BY <1>5 DEF SnapshotReady, ClusterTypeOK
  <2> DEFINE e == [snaps[p][i] EXCEPT !.state = "ready"]
  <2>2. snaps[p][i] \in Snapshot
    BY <2>1
  <2>3. e \in Snapshot
    BY <2>2, SnapshotType
  <2>4. snaps' = [snaps EXCEPT ![p] = [snaps[p] EXCEPT ![i] = e]]
    BY <1>5 DEF SnapshotReady, ClusterTypeOK
  <2> HIDE DEF e
  <2>5. [snaps[p] EXCEPT ![i] = e] \in Seq(Snapshot)
    BY <2>1, <2>3
  <2>6. snaps' \in [PVCs -> Seq(Snapshot)]
    BY <2>4, <2>5 DEF ClusterTypeOK
  <2> QED
    BY <1>5, <2>6 DEF SnapshotReady, ClusterTypeOK, fluxVars, workloadVars
<1>6. CASE ExternalResume
  BY <1>6 DEF ExternalResume, ClusterTypeOK, workloadVars
<1>7. ASSUME NEW v \in Versions, updateManagedAppStatus(v) PROVE ClusterTypeOK'
  BY <1>7 DEF updateManagedAppStatus, ClusterTypeOK, fluxVars, workloadVars
<1> QED
  BY <1>1, <1>2, <1>3, <1>4, <1>5, <1>6, <1>7 DEF ClusterNext

-----------------------------------------------------------------------------
(* The Kustomization's suspend flag *)

\* What FluxUp reads of a Kustomization is not older than what it wrote.
KustomizationCurrent == "staleFlux" \notin Disturbances

\* Then the checks tell what is.
LEMMA CurrentFlag ==
  ASSUME KustomizationCurrent, suspended \in BOOLEAN
  PROVE  /\ IsSuspended(TRUE) <=> suspended
         /\ IsSuspended(FALSE) <=> ~suspended
         /\ VerifyStillSuspended(TRUE) <=> suspended
         /\ VerifyStillSuspended(FALSE) <=> ~suspended
  BY DEF KustomizationCurrent, IsSuspended, VerifyStillSuspended

\* A suspension suspends, or finds the flag set.
LEMMA SuspendFlag ==
  ASSUME suspended \in BOOLEAN, NEW again, SuspendKustomization(again)
  PROVE  suspended' \in {suspended, TRUE} /\ (KustomizationCurrent => suspended' = TRUE)
  BY DEF KustomizationCurrent, SuspendKustomization, IsSuspended

\* A resume resumes, or finds the flag not set.
LEMMA ResumeFlag ==
  ASSUME suspended \in BOOLEAN
  PROVE  /\ FALSE \in AfterResume /\ AfterResume \subseteq {suspended, FALSE}
         /\ AfterResume \subseteq BOOLEAN
         /\ KustomizationCurrent => AfterResume = {FALSE}
  BY DEF KustomizationCurrent, AfterResume, IsSuspended
=============================================================================
