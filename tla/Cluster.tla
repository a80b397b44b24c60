------------------------------ MODULE Cluster ------------------------------
(***************************************************************************)
(* The cluster one ManagedApp lives in, as FluxUp sees and changes it: the *)
(* Flux Kustomization that applies the app, its workloads and their pods,  *)
(* its volumes and their VolumeSnapshots, the version in the Git           *)
(* repository and the ManagedApp object.  The operators are FluxUp's       *)
(* helper packages (internal/flux, workload, discovery, snapshot, health); *)
(* the actions are the other actors: Flux, the kubelet, the CSI driver,    *)
(* Renovate's results, and people.                                         *)
(***************************************************************************)
EXTENDS Integers, Sequences, FiniteSets

CONSTANTS
  Versions,        \* versions of the app
  InitialVersion,  \* the version that runs before the first upgrade
  InitialCurrent,  \* status.currentVersion before the first upgrade
  NoVersion,       \* a nil *VersionInfo
  Workloads,       \* the app's Deployments and StatefulSets
  PVCs,            \* the app's volume claims
  Mounts,          \* which claims the pods of a workload mount
  AppSpecs,        \* the ManagedApp specs to consider
  MaxSnaps,        \* bound: snapshots the storage takes per claim (its quota)
  MaxCount,        \* retentionPolicy.maxCount, 0 for no pruning
  Disturbances     \* what other actors may do: see DisturbanceKinds

DisturbanceKinds ==
  {"resume", "evict", "publish", "delete", "stale", "staleFlux", "prune"}

AppSpec == [snapshots    : BOOLEAN,   \* volumeSnapshots.enabled
            explicitPVCs : BOOLEAN,   \* volumeSnapshots.pvcs is given
            suspendRef   : BOOLEAN,   \* suspendRef names another Kustomization
            managed      : BOOLEAN,   \* a parent applies kustomizationRef
            autoRollback : BOOLEAN]

ASSUME ClusterAssumption ==
  /\ InitialVersion \in Versions /\ NoVersion \notin Versions
  /\ InitialCurrent \in {InitialVersion, NoVersion}
  /\ PVCs # {} /\ Mounts \in [Workloads -> SUBSET PVCs]
  /\ AppSpecs \subseteq AppSpec
  /\ MaxSnaps \in Nat /\ MaxCount \in Nat
  /\ Disturbances \subseteq DisturbanceKinds

VARIABLES
  suspended,  \* spec.suspend of the suspend target (suspendRef or kustomizationRef)
  ready,      \* the Ready condition of kustomizationRef
  applied,    \* the version Flux applied last
  replicas,   \* the workloads whose spec.replicas is not 0
  pods,       \* the pods of each workload: none, or some that are (un)ready
  snaps,      \* the VolumeSnapshots of each claim, oldest first
  git,        \* the version in the file at gitPath
  app         \* the ManagedApp: its spec, and status.{current,available}

fluxVars     == <<suspended, ready, applied>>
workloadVars == <<replicas, pods>>
clusterVars  == <<suspended, ready, applied, replicas, pods, snaps, git, app>>

PodStates == {"none", "unready", "ready"}
Snapshot  == [state : {"pending", "ready", "deleted"},
              quiet : BOOLEAN]   \* no pod mounted the claim until it was ready

ClusterTypeOK ==
  /\ suspended \in BOOLEAN /\ ready \in BOOLEAN /\ applied \in Versions
  /\ replicas \in SUBSET Workloads /\ pods \in [Workloads -> PodStates]
  /\ snaps \in [PVCs -> Seq(Snapshot)]
  /\ git \in Versions
  /\ app \in [spec      : AppSpecs,
              current   : Versions \cup {NoVersion},
              available : Versions \cup {NoVersion}]

ClusterInit ==
  /\ suspended = FALSE /\ ready = TRUE
  /\ applied = InitialVersion /\ git = InitialVersion
  /\ replicas = Workloads /\ pods = [w \in Workloads |-> "ready"]
  /\ snaps = [p \in PVCs |-> <<>>]
  \* currentVersion is nil until an upgrade completes: nothing else writes it.
  \* InitialCurrent is InitialVersion for an app that was upgraded before.
  /\ app \in [spec      : AppSpecs,
              current   : {InitialCurrent},
              available : (Versions \cup {NoVersion}) \ {InitialVersion}]

-----------------------------------------------------------------------------
(* What FluxUp reads *)

Running == {w \in Workloads : pods[w] # "none"}

\* An explicit list is taken as it is; otherwise claims are found through the
\* pods that mount them, so a stopped workload contributes none.
DiscoverPVCs ==
  IF app.spec.explicitPVCs THEN PVCs ELSE UNION {Mounts[w] : w \in Running}

\* The workloads whose pods mount a discovered claim.
DiscoverWorkloads == {w \in Running : Mounts[w] \cap DiscoverPVCs # {}}

\* Mutant: the replica count is asked, not the pods.
ScaledToZero(w) == w \notin replicas

IsScaledDown(w) == pods[w] = "none"

\* Kustomizations, too, are read from the manager's cache.  When that lags
\* ("staleFlux") the answer s may be the flag as it was before: who asks has
\* suspended it at some time, so it has been either.  A write from an outdated
\* copy is refused, and is a call that fails.
IsSuspended(s) == s = suspended \/ "staleFlux" \in Disturbances

\* Mutant: the suspension that was made is taken for the one that is.
TakenAsSuspended(ok) == ok

VerifyStillSuspended(ok) == IsSuspended(ok)

\* Mutant: a Kustomization that a parent applies is accepted.
AcceptAnyTarget == TRUE

\* Without a suspendRef, kustomizationRef must not be managed by a parent.
ValidateSuspendTarget == app.spec.suspendRef \/ ~app.spec.managed

\* Only the Ready condition is looked at, not the revision it was set for.
IsReconciled == ready

checkWorkloadReady(w) == w \notin replicas \/ pods[w] = "ready"

CheckHealth == ready /\ \A w \in DiscoverWorkloads : checkWorkloadReady(w)

-----------------------------------------------------------------------------
(* What FluxUp writes *)

\* Neither writes when the Kustomization it read is that way already; again says
\* that it was suspended before, so that the cache may still show that.
SuspendKustomization(again) ==
  suspended' \in {TRUE} \cup (IF again /\ IsSuspended(TRUE) THEN {suspended} ELSE {})

AfterResume == {FALSE} \cup (IF IsSuspended(FALSE) THEN {suspended} ELSE {})

ResumeKustomization == suspended' \in AfterResume

ScaleDown(W) == replicas' = replicas \ W

\* Only dry runs scale up: a real operation leaves that to Flux.
ScaleUp(W) == replicas' = replicas \cup W

Quiet(p) == \A w \in Workloads : p \in Mounts[w] => pods[w] = "none"

CanSnapshot(P) == \A p \in P : Len(snaps[p]) < MaxSnaps

CreateSnapshots(P) ==
  snaps' = [p \in PVCs |->
              IF p \in P
              THEN Append(snaps[p], [state |-> "pending", quiet |-> Quiet(p)])
              ELSE snaps[p]]

\* Of the snapshots of one claim, all but the newest MaxCount are deleted.
Newer(s, i) == {j \in (i + 1)..Len(s) : s[j].state # "deleted"}

Pruned(s) ==
  IF MaxCount = 0 THEN s
  ELSE [i \in 1..Len(s) |->
          IF Cardinality(Newer(s, i)) >= MaxCount
          THEN [s[i] EXCEPT !.state = "deleted"]
          ELSE s[i]]

ApplyRetentionPolicy(P) ==
  snaps' = [p \in PVCs |-> IF p \in P THEN Pruned(snaps[p]) ELSE snaps[p]]

-----------------------------------------------------------------------------
(* The other actors *)

\* With a suspendRef, it is the parent that is suspended, not the app's own
\* Kustomization: Flux goes on applying that one.
AppSuspended == suspended /\ ~app.spec.suspendRef

\* Flux applies what is in Git: the version, and the replica counts that the
\* manifests declare.  Its verdict ok is the Ready condition.
FluxApply(ok) ==
  /\ ~AppSuspended
  /\ applied' = git /\ replicas' = Workloads /\ ready' = ok
  /\ pods' = [w \in Workloads |->
                IF applied # git /\ pods[w] # "none" THEN "unready" ELSE pods[w]]
  /\ UNCHANGED <<suspended, snaps, git, app>>

\* A pod that starts while a snapshot of its claim is being cut spoils it.
PodStart(w) ==
  /\ w \in replicas /\ pods[w] = "none"
  /\ pods' = [pods EXCEPT ![w] = "unready"]
  /\ snaps' = [p \in PVCs |->
                 [i \in 1..Len(snaps[p]) |->
                    IF p \in Mounts[w] /\ snaps[p][i].state = "pending"
                    THEN [snaps[p][i] EXCEPT !.quiet = FALSE]
                    ELSE snaps[p][i]]]
  /\ UNCHANGED <<fluxVars, replicas, git, app>>

PodReady(w) ==
  /\ w \in replicas /\ pods[w] = "unready"
  /\ pods' = [pods EXCEPT ![w] = "ready"]
  /\ UNCHANGED <<fluxVars, replicas, snaps, git, app>>

PodStop(w) ==
  /\ pods[w] # "none" /\ (w \notin replicas \/ "evict" \in Disturbances)
  /\ pods' = [pods EXCEPT ![w] = "none"]
  /\ UNCHANGED <<fluxVars, replicas, snaps, git, app>>

SnapshotReady(p, i) ==
  /\ i \in 1..Len(snaps[p]) /\ snaps[p][i].state = "pending"
  /\ snaps' = [snaps EXCEPT ![p][i].state = "ready"]
  /\ UNCHANGED <<fluxVars, workloadVars, git, app>>

\* Someone resumes the Kustomization, or the parent that applies it does: the
\* suspension is not in the parent's manifests.
ExternalResume ==
  /\ suspended
  /\ "resume" \in Disturbances \/ (app.spec.managed /\ ~app.spec.suspendRef)
  /\ suspended' = FALSE
  /\ UNCHANGED <<ready, applied, workloadVars, snaps, git, app>>

\* The updates controller takes over an update that Renovate found.
updateManagedAppStatus(v) ==
  /\ "publish" \in Disturbances
  /\ app' = [app EXCEPT !.available = v]
  /\ UNCHANGED <<fluxVars, workloadVars, snaps, git>>

ClusterNext ==
  \/ \E ok \in BOOLEAN : FluxApply(ok)
  \/ \E w \in Workloads : PodStart(w)
  \/ \E w \in Workloads : PodReady(w)
  \/ \E w \in Workloads : PodStop(w)
  \/ \E p \in PVCs, i \in 1..MaxSnaps : SnapshotReady(p, i)
  \/ ExternalResume
  \/ \E v \in Versions : updateManagedAppStatus(v)
=============================================================================
