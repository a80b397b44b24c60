# FluxUp in TLA+

FluxUp upgrades applications that Flux deploys from Git: it suspends the app's
Flux Kustomization, stops the app, snapshots its volumes, commits the new
version to Git, resumes Flux and waits until the app is healthy; when that goes
wrong it restores the volumes and reverts Git. This project models FluxUp's
controllers and what they share with the cluster, checks them with TLC and
proves the core with TLAPS.

## The system

| Component | State | Operations | Talks to |
|---|---|---|---|
| UpgradeRequest controller (`internal/controller/upgraderequest_controller.go`) | conditions, phase timer, recorded snapshots and versions of each request; finalizer | one handler per phase, `setFailed`, `createAutoRollback`, dry run | all helpers below, the API server |
| RollbackRequest controller (`rollbackrequest_controller.go`) | the same for rollbacks, restored claims | suspend, stop, restore volumes, revert Git, reconcile, check health | the same helpers; reads the UpgradeRequest |
| Flux helper (`internal/flux`) | – (`spec.suspend`, Ready of a Kustomization) | suspend, resume, verify, validate the target, `IsReconciled` | Flux |
| Workload scaler (`internal/workload`) | – (replica counts) | scale down and up, `IsScaledDown` | Deployments, StatefulSets, pods |
| Discovery (`internal/discovery`) | – | the claims and workloads of an app, through running pods | Helm secrets, inventories, pods |
| Snapshot manager (`internal/snapshot`) | – (VolumeSnapshots, claims) | create, readiness, retention, restore | CSI |
| Health checker (`internal/health`) | – | Ready condition and workload readiness | Flux, workloads |
| Renovate parser, mapper, updater and updates controller (`internal/renovate`) | `availableUpdate` of each ManagedApp | extract, map, publish | ConfigMap of Renovate's output |
| ManagedApp controller | Ready condition of each app | refresh | health checker |
| Git backend, YAML editor | file at `gitPath` | read, edit, commit | Gitea |
| Manager (`cmd/main.go`) | – | start-up, cached client, one worker per controller | |

What is hard here:

* every handler is run from the conditions of an object that is read from a
  **cache** and may be stale; its effects on the cluster precede the status
  write, which may be **refused or lost**, so handlers run again;
* the cluster **moves on by itself**: Flux applies Git when it is not
  suspended, pods come and go, snapshots take time, people and parent
  Kustomizations resume what FluxUp suspended;
* phases have **timeouts** whose start must survive reconciles;
* requests, of one app or of both kinds, share one suspend flag and one
  `availableUpdate`;
* there is a **point of no return**, the Git commit, and everything before and
  after it fails differently.

Correctness, by component: for the upgrade, snapshots before the commit and
consistent, commit under suspension, phases in order, one end that is final,
Git and the record agree, nothing waits for ever, what a failure leaves behind;
for the rollback, the same plus that no data is lost between the deletion and
the restoration of a claim and that the failed version never touches the
restored data; for both together, that they do not work at the same time and
that a completed rollback has put back what the upgrade found; for dry runs,
that they end and leave Flux as it was; for the writers of ManagedApp, that no
write undoes another and that the conditions follow what they report.

## Modules

* `Cluster` – the world of one ManagedApp. Variables: the suspend flag of the
  suspend target and the Ready condition (`suspended`, `ready`), the version
  Flux applied (`applied`), replica counts (`replicas`) and pods (`pods`), the
  snapshots of each claim in order of creation (`snaps`), the version in Git
  (`git`) and the ManagedApp (`app`). Operators: the helper packages. Actions:
  the other actors – Flux, kubelet, the CSI driver, Renovate's results, people.
  A snapshot remembers (`quiet`) whether a pod had the claim mounted between
  its creation and its readiness.
* `Upgrade` (extends `Cluster`) – the UpgradeRequest controller. `obj` is what
  the API server stores, `cache` what the manager sees, `base` and `mem` what
  the worker read and its changed copy. A reconcile is `Reconcile(r)` (deletion,
  finalizer, terminal check, choice of the handler), one or more handler steps,
  `statusUpdate` (refused when `obj` is no longer `base`) and perhaps
  `removeFinalizer`. Handlers that read the cluster after they changed it are
  two actions (`handleScaleDown`/`checkScaledDown`,
  `createSnapshotsForUpgrade`/`awaitSnapshots`, `handleCommitting`/`commitFile`),
  so everything may happen in between. `Crash` loses the copy between any two
  steps. `Tick` ages all timers.
* `UpgradeLifecycle` – the abstract specification: the stages of a request and
  the moves between them. `Upgrade!FollowsLifecycle` is the refinement, under
  the mapping `Stage` of conditions to stages.
* `ClusterProofs` – what the actions of the other actors preserve.
* `UpgradeProofs`, `UpgradeSafety` – the theorems about
  `Upgrade`: types and life cycle; what precedes a commit; what a request leaves
  behind.
* `Rollback` (extends `Cluster`) – the RollbackRequest controller, built like
  `Upgrade`, over the volume claims (`claims`): bound, terminating, absent or
  pending, with the data they hold (what the app wrote, a snapshot, or blank)
  and, as history, the versions that had them mounted. `upgrade` is what the
  controller reads of the UpgradeRequest, which it never writes.
  `handleVolumeRestore` is four actions, because between the deletion of a
  claim (`deleteClaim`), its restore (`RestorePVCFromSnapshot`) and the wait for
  it (`awaitBound`) kubelet, storage and people act. The actions on pods and
  Flux are those of `Cluster` with their effect on claims: a pod starts only on
  bound claims, and Flux makes a missing claim anew, blank.
* `RollbackLifecycle` – the abstract specification of a rollback;
  `Rollback!FollowsLifecycle` is the refinement.
* `RollbackProofs`, `RollbackSafety` – the theorems about `Rollback`.
* `AutoRollback` (extends `Upgrade`, instantiates `Rollback`) – both controllers
  over one cluster, each with its worker. `createAutoRollback` makes a
  RollbackRequest exist (`Created`); the rollback reads the upgrade from the
  shared cache (`ViewOf`).
* `AutoRollbackProofs` – the theorems about `AutoRollback`: it extends
  `UpgradeSafety` and instantiates `RollbackSafety`, so that what is proved of each
  controller alone is used for both.
* `DryRun` (extends `Cluster`) – the dry runs of both controllers, which are the
  same code twice but for `setFailed` (that of an upgrade resumes, that of a
  rollback does not). In `PROJECT.json` the first half of a handler is mapped to
  the upgrade controller and its second half to the rollback controller.
  Validation, preflight and discovery are repeated in every reconcile.
* `AppStatus` – the ManagedApps' status and its three writers: updates
  controller, ManagedApp controller and completing upgrade. A writer takes a
  copy (`Hold`) and writes it (`statusUpdate`), which the API server refuses if
  someone wrote the app in between. The parser and the mapper are operators
  (`extractUpdates`, `MapUpdatesToManagedApps`).
* `DryRunProofs`, `AppStatusProofs` – the theorems about those two.
* `MCUpgrade`, `MCRollback`, `MCAutoRollback`, `MCDryRun`, `MCAppStatus` – the
  instances for TLC.

Operators marked `Mutant` are seeded faults: variants of the definition that
follows them, as a plausible bug would have it. Each property is known to fail
when the definition is replaced by its mutant (`PROJECT.json`, "mutants"); no
specification uses them.

### Abstractions

* Versions, claims, workloads and requests are model values. Helm secrets,
  inventories and YAML paths are not modelled; what discovery finds is a
  function of the pods that run.
* A failing call is a *fault*, and `MaxFaults` bounds them; in `Rollback` a write
  that the cache lags behind counts as one too. Every read or call
  of a handler can fail; a commit, a suspension or a resume that fails may
  have been carried out all the same (a crash after any call has the same
  effect for the others, apart from the failure it reports). Invalid configuration (a missing version
  path, a missing snapshot class) fails like a failing call.
* UpgradeRequests and RollbackRequests are read from a cache that may be stale.
  So is the Kustomization under the disturbance `staleFlux`: then the reads of
  `IsSuspended`, `VerifyStillSuspended` and the early returns of `Suspend` and
  `Resume` may see a flag that was changed since, while a write based on such a
  read is refused like a failing call. Workloads, claims and snapshots are read
  as they are, except that `awaitBound` may miss a claim that was just made.
* `Upgrade!handleReconciling` resumes Flux and looks at its state in one step.
  If Flux acts between the two, the next reconcile sees what it did.
* A dry run has no finalizer and no stale cache in its module: nobody else
  writes its object, and the finalizer is handled as in `Upgrade` and
  `Rollback`. What its validation and its preview in Git read is one flag
  (`valid`), which others may clear at any time.
* A claim's data are told apart by where they come from. A rollback starts from
  an upgrade that has committed and has one ready snapshot of each claim; in
  `AutoRollback` the upgrade itself leads there.
* In `AppStatus` an error of the health check is an unhealthy app, and the
  reasons and messages of conditions are left out. A ConfigMap that cannot be
  read or parsed changes nothing, and is no action. `ClearUpdateStatus` has no
  caller and is not an action.
* The claims are RWO claims of one namespace; snapshots per claim are bounded by
  `MaxSnaps`, the storage's quota, at which creation fails.
* `phaseStartedAt` is the age of the phase, capped at `MaxAge`, above every
  timeout. Rollbacks are counted up to `MaxRollbacks`.

## Runs

The runs use one workload and short timeouts: a timeout of 0 or 1 ticks with
`MaxAge` above it gives every phase an age at which it still waits and one at
which it has timed out.

| Run | Instance | Checks |
|---|---|---|
| `upgrade_core` | 1 request, claims listed, snapshots on or off, a parent or none, auto-rollback on or off; stale cache, deletion, 1 fault | `TypeOK`, `SnapshotsPrecedeCommit`, `SnapshotsConsistent`, `OneStageAhead`, `CommitWhileSuspended`, `TerminalStable`, `FollowsLifecycle`, `EndsOrAwaitsHealth` (liveness) |
| `upgrade_pair` | 2 requests of one app, storage for 1 snapshot; people resume, pods are evicted, Renovate publishes, 1 fault; symmetric in the requests | `EndedIsResumed`, `GitHoldsRecordedVersion` |
| `discovered_claims` | 1 request, claims discovered | `SnapshotsPrecedeCommit` is violated |
| `health_timeout` | 1 request | `EveryRequestEnds` is violated |
| `completed_not_applied` | 1 request | `CompletedIsApplied` is violated |
| `deleted_under_way` | 1 request, deletion | `DeletionWaitsForEnd` is violated |
| `early_failure` | 1 request, 1 fault | `EarlyFailureLeavesGit` is violated |
| `rollback_core` | 1 rollback, 2 claims, upgrades that can and that cannot be rolled back; pruned snapshots, deletion of either request, 1 fault or lag of the cache | `TypeOK`, `RevertAfterRestore`, `RestoredDataClean`, `SuspendedWhileClaimsMissing`, `FollowsLifecycle`, `EndsOrWaits` (liveness) |
| `auto_rollback` | 1 upgrade with automatic rollback and its rollback; deletion of either, 1 fault | `OneControllerAtATime`, `CompletedRollbackRestores`, `StoppedDataClean` |
| `rollback_refused` | the same without faults | `AutoRollbackNotRefused` is violated |
| `dry_run` | a dry run of an upgrade and one of a rollback, Flux applying throughout; people resume, validation fails, 1 fault | `TypeOK`, `SuspensionExplained`, `EveryDryRunEnds` (liveness) |
| `app_status` | 2 apps that share a file, 1 report of 3, 1 upgrade, 1 restart | `TypeOK`, `MappingExact`, `FlagAgrees`, `NoLostStatus`, `ReadySettles` (liveness) |

Bounds. One fault is enough for each of a crash, a lost write and a lost answer
to meet every phase, and timeouts, which are no faults, combine with it: a
failure by timeout whose write is lost is in the core run. Two snapshots per
claim allow one that is left over from a retry. Two requests are the smallest
number that share the Kustomization; with two versions the available update can
change after a first commit. In `upgrade_pair` there is room for one snapshot, so
that a request fails at the quota or finds a free place, as the other has used
it or not. In `rollback_core` two claims allow the restore of some of them. In
`dry_run` the app has a suspendRef, so that Flux may apply it at any
time or never: what an app without one does is among that. Renovate does not
publish in `dry_run`, which would make the run last too long: there the
validation of the upgrade's dry run stays as it began, that of the rollback's
may turn false. In `app_status` two
apps with one `gitPath` are the smallest case in which the mapping is not a
function, and three writers with one restart give every pair of them a
conflict.

What the runs show of the limits of the properties:

* `SnapshotsPrecedeCommit` and `SnapshotsConsistent` hold for listed claims.
  With discovered ones there are no snapshots at all (`discovered_claims`).
  With evictions, with a suspendRef, or when a second request fails and
  resumes, snapshots can be inconsistent; those cases are listed as hazards.
* `CommitWhileSuspended` speaks of every call of `CommitFile`, those of a retry
  that commits the same version again included. It holds although the check and
  the commit are two calls, because a Kustomization with a parent is refused by
  the preflight and a failure that resumed is noticed by `VerifyStillSuspended` –
  if that reads what was written. It reads through the manager's cache, and a
  retry that still finds the old suspension there commits with Flux running: with
  `staleFlux` among the disturbances of `upgrade_core` TLC shows it. So it does
  of `SnapshotsConsistent`, which needs the same check. A person who resumes between the two calls is outside
  what the code can exclude.
* `EarlyFailureLeavesGit`, which the documentation promises without condition,
  fails when the answer to a commit is lost: the commit is in Git and the request
  fails with nothing recorded, resumes Flux and lets it apply (`early_failure`).
* `EndedIsResumed` is stated for behaviours in which no call has failed, and
  holds with current reads of the Kustomization. A resume that fails, or that is skipped because the cache does
  not show the suspension yet, breaks it.
* `RevertAfterRestore` and `SuspendedWhileClaimsMissing` are stated for
  behaviours in which the cache never lagged (history variable `lagged`). When
  it has, a reconcile can delete a claim it has restored already, and
  `IsPVCBound` takes a claim that is being deleted for bound. The life cycle,
  `RestoredDataClean` and `EndsOrWaits` hold with the lag too. These are lags of
  the rollback's object; when the Kustomization is read late, a `Suspend` that
  finds it suspended does nothing, and `SuspendedWhileClaimsMissing` and
  `RestoredDataClean` fail.
* `RestoredDataClean` holds without evictions, and `StoppedDataClean` with them,
  but only of claims all of whose workloads the rollback has stopped: a workload
  that has no pod when the rollback looks is not found, not stopped, and comes up
  on the restored claim.
* `CompletedRollbackRestores` holds for one rollback per upgrade. When the write
  of the upgrade's failure is lost a second one is created, and it deletes the
  claims again after the first has completed.
* `EndsOrWaits` excludes exactly the two waits whose timer is not persisted: the
  health check and the deletion of the first claim. It is stated with `<>[]`: a
  rollback that passes through one of them must still end, or stay in one for
  good; every other wait ends.
* `SuspensionExplained` says where a finished dry run may leave Flux suspended:
  after a failing call, or when a rollback's validation fails after it
  suspended. It says nothing of the replica counts, because a dry run does not
  restore them: workloads are discovered through pods in every reconcile, so once
  they are down the scale-up finds nothing to do (`docs/design/mvp.md:883`
  promises otherwise).
* `NoLostStatus` holds because refused writes are dropped; an update that was
  refused is offered again only with the next report or restart.

The six violations are described in `PROJECT.json` under "findings".

### Fairness

`FairSpec` assumes that a request that is not finished is reconciled again and
again (requeues, backoff and resync of controller-runtime; strong fairness,
because the worker also serves other requests), that a handler that has begun
runs to its end, that the watch delivers and that time passes. Nothing is
assumed of Flux, pods or snapshots: they may never do anything, which is what
the timeouts are for. Under this, `EndsOrAwaitsHealth` holds: every phase but
the health check ends. The health check does not, because its timer is never
persisted (`health_timeout`).

`Rollback` and `DryRun` assume the same. `AppStatus` assumes that the ManagedApp
controller comes back to every app (its requeue after `HealthCheckInterval`, or
the backoff after a refused write; strong fairness, as it has one worker for all
apps) and that a write that was begun is tried; nothing is assumed of the
updates controller, of upgrades or of Renovate.

## Proofs

The theorems hold for any number of requests, rollbacks, claims, workloads, apps
and versions, any timeouts and any number of faults, from the assumptions on the
constants in the modules that declare them (`ClusterAssumption`,
`UpgradeAssumption`, `RollbackAssumption`, `AutoRollbackAssumption`,
`DryRunAssumption`, `AppStatusAssumption`). A hypothesis beyond these is part of the theorem's
statement; each excludes a behaviour under which the property is known to fail
or empty, or, for `MappedVersions`, states what TLC checks. Every inductive invariant was
checked with TLC before it was proved.

| Theorem | Establishes | Hypotheses |
|---|---|---|
| `UpgradeProofs!TypeCorrect` | `[]TypeOK` | – |
| `UpgradeProofs!WorkerStaysClose` | `[]OneStageAhead` | – |
| `UpgradeProofs!TerminalIsStable` | `TerminalStable` | – |
| `UpgradeProofs!ImplementsLifecycle` | `FollowsLifecycle` | – |
| `UpgradeSafety!CommitsAreSuspended` | `CommitWhileSuspended` | `KustomizationCurrent`, nobody resumes by hand |
| `UpgradeSafety!SnapshotsComeFirst` | `[]SnapshotsPrecedeCommit` | `ClaimsListed` |
| `UpgradeSafety!SnapshotsAreConsistent` | `[]SnapshotsConsistent` | `KustomizationCurrent`, `OneRequest`, `ClaimsListed`, `NoEvictions`, `OwnKustomization` |
| `UpgradeSafety!GitMatchesRecord` | `[]GitHoldsRecordedVersion` | `CacheCurrent` |
| `UpgradeSafety!EndedRequestsResume` | `[]EndedIsResumed` | `KustomizationCurrent`, `CacheCurrent` |
| `RollbackProofs!TypeCorrect` | `[]TypeOK` | – |
| `RollbackProofs!ImplementsLifecycle` | `FollowsLifecycle` | – |
| `RollbackSafety!RevertsFollowRestores` | `[]RevertAfterRestore` | `OneRollback` |
| `RollbackSafety!SuspendedUntilRestored` | `[]SuspendedWhileClaimsMissing` | `KustomizationCurrent`, `OneRollback`, `NoResume` |
| `RollbackSafety!RestoredStaysClean` | `[]RestoredDataClean` | `KustomizationCurrent`, `OneRollback`, `NoResume`, `NoEvict`, `OwnKustomization` |
| `AutoRollbackProofs!ControllersTakeTurns` | `[]OneControllerAtATime` | `CacheCurrent` |
| `AutoRollbackProofs!CompletedRollbacksRestore` | `[]CompletedRollbackRestores` | `CacheCurrent`, `KustomizationCurrent`, `OneRequest`, `RollbackOnce`, `ClaimsListed`, `NoEvictions`, `OwnKustomization` |
| `AutoRollbackProofs!StoppedStaysClean` | `[]StoppedDataClean` | `CacheCurrent`, `KustomizationCurrent`, `OneRequest`, `RollbackOnce`, `NoHandResume`, `OwnKustomization` |
| `DryRunProofs!TypeCorrect` | `[]TypeOK` | – |
| `DryRunProofs!SuspensionsExplained` | `[]SuspensionExplained` | `KustomizationCurrent` |
| `AppStatusProofs!NothingIsLost` | `NoLostStatus` | – |
| `AppStatusProofs!TypeCorrect` | `[]TypeOK` | `MappedVersions` |
| `AppStatusProofs!ConditionAgrees` | `[]FlagAgrees` | `MappedVersions` |

`KustomizationCurrent` says that reads of the Kustomization are not late
(`staleFlux` is not among the disturbances); each theorem that has it is about a
property that TLC refutes without it, and `CacheCurrent` says the same of the
requests.

**Types and life cycles.** The inductive invariant of `Upgrade` is
`IInv == TypeOK /\ OneStageAhead`. `TypeOK` alone is
not inductive: `commitFile` writes `mem.newVersion` to Git, and only
`OneStageAhead` says that the worker pushes a version. `OneStageAhead` says that
conditions are set in the order of the phases, in the stored, cached and
in-memory objects, and that the copy the worker is about to write is of a
request that had not ended and at most one stage ahead of what it read. The
argument of the two step properties is then: a step changes stored objects only
by touching life, finalizer or timer, or by a status update; a status update
stores a copy only over the very object it was computed from; and that object
had not ended (`ObjectStep`, `NextStep`). The cache's age plays no part, which
is why the result does not depend on how stale it is. `RollbackProofs` has the
same argument with `WorkerClose` in the place of `OneStageAhead`; it also says
where a worker goes on after a write (`then`), because the restore of a claim
goes on in the same reconcile.

**Commits are suspended** (`PushInv`). Between `VerifyStillSuspended` and the
push, who could resume? Another request cannot, as the controller has one
worker; Flux's parent cannot, because a request is taken past the preflight
only if the target has no managing parent, and the specs do not change
(`SpecsFixed`, `Accepted`). A person can, and the check itself may have read an
old suspension, hence the two hypotheses. The argument is about the worker at
the push, so it covers every call of `CommitFile`, however often a lost write
makes it happen.

**Snapshots come first** (`SnapInv`). The property relates the stored
`snapshotReady` to the commits, but the worker decides on a cached copy. So the
invariant says it of all four copies, and that the cached one and the base are
older versions of the stored one (`Behind`), whose recorded snapshots are
never replaced. Snapshots keep their place and none becomes pending again
(`SnapsMonotone`), retention included. With discovered claims no
snapshot is taken at all (run `discovered_claims`), hence `ClaimsListed`.

**Snapshots are consistent** (`QuietInv`). The property is about pods, so the
invariant follows them from the scale-down to the end of the snapshots. As long
as Flux has not been resumed, a workload that is not scaled down has a pod
(`Stopping`), so discovery finds it; the worker waits for the pods of all that it
scaled down; and every copy of the object that says the workloads are stopped –
stored, cached however long ago, in memory – is right (`Sound`). What is down
stays down (`Steady`), so new snapshots are cut with no pod at the claim. A
pending snapshot is spoilt only by a pod that starts, one that is ready never
(`SnapsKept`). And once Flux is resumed, by the request or by anyone, no copy
leads back to `handleSuspend` (`Past`), so `VerifyStillSuspended`, if it reads the present flag, refuses every
commit but the one being pushed, whose snapshots were ready before (`ReadyKept`).
That is why, unlike `CommitWhileSuspended`, the property survives people and
parents who resume Flux. A second request resumes Flux at its end and suspends
it anew, hence `OneRequest`; an evicted pod hides its workload from discovery,
hence `NoEvictions`; with a suspendRef Flux scales the app up again, hence
`OwnKustomization` (TLC shows each of the three). `ClaimsListed` comes from
`SnapInv`; without it an upgrade records no snapshots at all.

**What a request leaves behind.** With a current cache every step is of one of
five kinds (`StepKinds`): others act, a request is taken up, the copy is
dropped, the copy is written over the object it came from, or a handler changes
the copy. `GitInv` adds the worker's copy to the property: a retry after a lost
write may commit another version, and records that one. A second request that
commits overwrites the version of the first, so the property ends there
(`Alone`). `ResumeInv` says that a suspension has a holder – a request under
way, the copy about to be written, or one that failed after its commit – and
that a copy that gives it up is written after the resume. It fails when a resume
fails or its record is lost, so it is kept only as long as `faults` is 0
(`FaultsGrow`, `NothingFails`), and when a late read makes
`Resume` return early, hence `KustomizationCurrent`.

**The restore.** `RevertInv`: as long as the cache never lagged, what a rollback
has recorded of its claims – made, restored, all restored – is true of the
claims, in the stored object and in the worker's copy (`RestoredIn`), and the
worker deletes no claim that is recorded as made. `MissingInv` adds: a claim
that is not bound is one to restore, and Flux is held, that is suspended with no
parent that resumes it; a late read would let `Suspend` return early without
suspending, hence `KustomizationCurrent`. Two rollbacks delete each other's claims, hence
`OneRollback`.

**Restored data stays clean** (`DataInv`). Why can the version that failed not
open a restored claim? Before the revert every workload that is not scaled down
has a pod, so `DiscoverWorkloadsForPVCs` finds it and `handleStopWorkload` stops
it (`PodsUp`). Stopped it stays, as long as Flux is held. Claims are made only
while the workloads that mount them are down, and each claim to restore is
either still guarded that way or the old version is in Git (`ClaimsClean`). Every
copy that says Flux is suspended or the workloads are stopped is right unless it
also says that Git is reverted: the stored object, the cached one however old,
and the worker's (`StoreGuarded`, `WorkerGuarded`). The resume is reached only
by a reconcile whose cached copy says reverted, and no later copy takes that
back. An evicted pod hides its workload from discovery, hence `NoEvict`; with a
suspendRef Flux goes on applying the app and scales it up again, hence
`OwnKustomization`; and a late read of the Kustomization lets the suspension be
skipped, hence `KustomizationCurrent`. Stale reads of the rollback are not excluded.

**The controllers take turns** (`TurnInv`). The rollback is created before the
upgrade's failure is written, and the two controllers have a worker each. The
invariant has the upgrade's worker at a request that has not ended, or that it
has just ended and only takes the finalizer from (`UpgradeTurn`), and every
version of a rollback's object that says it has begun – stored, cached, in
memory – points to an upgrade that has ended (`RollbackTurn`): only
`handleSuspend` begins a rollback, after looking the upgrade up. What has ended
stays so. With a cache that lags, a reconcile of the upgrade that read it before
its end goes on working beside the rollback (TLC shows it), hence
`CacheCurrent`. Nothing is assumed of Flux, pods, claims or people: the cluster
plays no part.

**Completed rollbacks have restored** (`BothInv == TurnInv /\ UpgradeInv /\
RollbackInv`). The property joins facts of the two controllers: that the
snapshots are consistent and the previous version is recorded is due to the
upgrade, that claims and Git hold them to the rollback. Neither
controller's invariant survives the other's steps as it stands. The rollback's
(`RollbackInv`: types, `RevertInv`, and `BeganInv`, what a copy says of Git) speaks
of an UpgradeRequest that does not change, while here the upgrade controller
writes it; the upgrade's `QuietInv` speaks of a suspension and of replica counts
that the rollback changes. The turns decide both. Until the upgrade has
ended (`Ended`) no copy of a rollback says it has begun, so nothing is said of
claims or Git (`NotBegun`, `UpgradeLeaves`), and the rollback changes nothing that
`QuietInv` speaks of (`RollbackWorld`). From then on the upgrade controller
leaves Git and the recorded status alone (`ViewsKept`, `EndedLeavesGit`), and of
`QuietInv` only its result is kept, that what a request with a commit has recorded
is consistent (`Final`, `FinalKept`). A step of the rollback controller, of the
cluster or of time is a step of `Rollback` (`HandlersSame`, `StepsSame`,
`RollbackNext`), so the lemmas of `RollbackSafety` apply through an instance;
`RollbackAssumed` and `ClusterAssumed` discharge that module's assumptions. A
second rollback deletes the claims again, hence `RollbackOnce`; the other
hypotheses are those of `SnapshotsAreConsistent`.

**Stopped data stays clean** (`CleanInv`, with `RollbackSafety!StopInv`). The
workloads an object lists as scaled down are scaled down, without pods once it
says they are stopped, and Flux is held, until it says that Git is reverted; no
claim has a snapshot's data before the workloads are stopped, and from then on
the list does not change; so a claim is made anew only while the listed workloads
are down, and if these are all that mount it, only a Git with the old version
brings them up. Unlike `DataInv` this does not ask that every
workload was found, so evictions are allowed. The upgrade's steps leave it alone:
before its end nothing is listed, after it its worker does not touch the cluster
(`EndedLeavesCluster`). A person who resumes Flux before the revert brings the
failed version up, hence `NoHandResume`.

**Dry runs.** `Answered`: with current reads (`Held`), as long as Flux is suspended some dry run has not seen
it resumed, and while no call has failed some dry run answers for the
suspension (`Owns`), at whichever line its worker is; `WorkersOK` says what a
worker's label tells of its copy.

**Status writers.** `CopiesSound`: a writer's copy is marked stale or differs
from the stored status in its writer's fields only. `FlagAgrees` needs also that
what is published is a version. That is what the mapper computes, by a fold over
the report's updates; what a fold computes for every input takes an induction
over data, so it is the hypothesis `MappedVersions`, which the run's
`MappingExact` implies on the instance.

### Only model-checked

* `MappingExact`, the only invariant of a run without a theorem: what the mapper's
  fold computes, an induction over data.
* Liveness (`EndsOrAwaitsHealth`, `EndsOrWaits`, `EveryDryRunEnds`,
  `ReadySettles`): beyond the prover.

## Not modelled, and the plan

Modelled: both controllers with their dry runs, the helpers they call, their
composition, and the writers of ManagedApp. Every safety property of a run but
`MappingExact` is also a theorem. What would extend the project next is a
composition with several upgrades of one app, whose rollbacks delete each
other's claims.

Not modelled: other committers to the Git repository (`CommitFile` asks for the
file's SHA itself and so overwrites what was committed since it was read, listed
as a hazard), retention across apps with snapshots of the same name prefix, and
the text of version paths and ReplicaSet names.

Left out for good: text processing (YAML editing, JSON decoding, commit
messages), HTTP, logging, metrics, start-up and generated code. None of it keeps
state that the controllers' decisions depend on; its errors are failing calls.
