------------------------------ MODULE Rollback ------------------------------
(***************************************************************************)
(* The RollbackRequest controller (internal/controller/                    *)
(* rollbackrequest_controller.go) over the cluster of module Cluster and   *)
(* the volume claims it deletes and restores from snapshots.               *)
(*                                                                         *)
(* The worker is like the one of module Upgrade: it reads a request from   *)
(* the cache, changes the cluster and its copy, and writes the copy; all   *)
(* else may happen in between.  It reads the UpgradeRequest it undoes and  *)
(* never writes it.                                                        *)
(***************************************************************************)
EXTENDS Cluster

CONSTANTS
  Rollbacks,         \* the RollbackRequests for the app
  Upgrades,          \* what their UpgradeRequests may look like
  Position,          \* the place of each claim in the upgrade's pvcSnapshots list
  None,              \* no request
  TimeoutScaleDown, TimeoutVolumeRestore, TimeoutReconcile, TimeoutHealthCheck,
  MaxAge,            \* ages beyond it are not told apart: no timeout is longer
  MaxFaults          \* bound: failing API calls, crashes and lags of the cache

\* What the controller reads of an UpgradeRequest.
UpgradeView ==
  [gone            : BOOLEAN,
   terminal        : BOOLEAN,                  \* Complete is set
   skipSnapshot    : BOOLEAN,
   pvcSnapshots    : [PVCs -> 0..MaxSnaps],    \* index into snaps, 0 for none
   newVersion      : Versions \cup {NoVersion},
   previousVersion : Versions \cup {NoVersion}]

ASSUME RollbackAssumption ==
  /\ None \notin Rollbacks /\ Upgrades \subseteq UpgradeView
  /\ Position \in [PVCs -> Nat] /\ \A p, q \in PVCs : Position[p] = Position[q] => p = q
  /\ MaxAge \in Nat /\ MaxFaults \in Nat
  /\ {TimeoutScaleDown, TimeoutVolumeRestore, TimeoutReconcile, TimeoutHealthCheck}
       \subseteq 0..(MaxAge - 1)

VARIABLES
  claims,   \* the volume claims
  upgrade,  \* the UpgradeRequest each rollback refers to
  obj,      \* each rollback's object in the API server
  cache,    \* each rollback's object in the manager's cache
  lagged,   \* history: the cache has been behind the API server
  pc,       \* where the worker is
  cur,      \* the rollback it reconciles
  base,     \* that rollback's object as it was read or written last
  mem,      \* the in-memory copy, with the changes not written yet
  then,     \* what follows the status update
  faults    \* failing calls, crashes and lags so far

stored     == <<obj, cache, lagged>>
workerVars == <<pc, cur, base, mem, then>>
vars == <<clusterVars, claims, upgrade, stored, workerVars, faults>>

-----------------------------------------------------------------------------
(* Claims *)

Live  == 0    \* the data the app wrote; i > 0 is what snapshot i holds
Blank == -1   \* a claim that Flux made anew

Claim == [state  : {"bound", "terminating", "absent", "pending"},
          data   : Blank..MaxSnaps,
          opened : SUBSET Versions]   \* history: versions that had it mounted

NewClaim(d) == [state |-> "pending", data |-> d, opened |-> {}]

IsPVCDeleted(p) == claims[p].state = "absent"

\* Mutant: a claim that is there is taken for bound.
IsPVCFound(p) == claims[p].state # "absent"

\* The phase of a claim that is being deleted is still Bound.
IsPVCBound(p) == claims[p].state \in {"bound", "terminating"}

\* A claim goes away only once no pod mounts it.  NotFound is ignored.
DeletePVC(p) ==
  claims' = [claims EXCEPT ![p].state = IF @ = "absent" THEN @ ELSE "terminating"]

Mounted(p) == \E w \in Running : p \in Mounts[w]

-----------------------------------------------------------------------------
(* A RollbackRequest object *)

Tristate == {"absent", "true", "false"}   \* a condition's status
NoTimer  == -1                             \* phaseStartedAt is nil

Object ==
  [life            : {"live", "deleting", "gone"},
   finalizer       : BOOLEAN,
   suspended       : Tristate,
   workloadStopped : BOOLEAN,
   volumesRestored : BOOLEAN,
   gitReverted     : BOOLEAN,
   reconciled      : BOOLEAN,
   healthy         : BOOLEAN,
   complete        : Tristate,
   reason          : {"none", "UpgradeInProgress", "other"},  \* of Complete=False
   phaseAge        : NoTimer..MaxAge,
   scaling         : SUBSET Workloads,
   restored        : [PVCs -> {"no", "pending", "restored"}]]  \* restoredPVCs

NewObject ==
  [life |-> "live", finalizer |-> FALSE, suspended |-> "absent",
   workloadStopped |-> FALSE, volumesRestored |-> FALSE, gitReverted |-> FALSE,
   reconciled |-> FALSE, healthy |-> FALSE, complete |-> "absent", reason |-> "none",
   phaseAge |-> NoTimer, scaling |-> {}, restored |-> [p \in PVCs |-> "no"]]

\* Mutant: only Complete=True is taken as the end.
TerminalOnlyTrue(o) == o.complete = "true"

Terminal(o) == o.complete # "absent"

\* Mutant: Flux is resumed before Git is reverted.
PhaseResumingFirst(o) ==
  IF o.suspended = "absent" THEN "suspend"
  ELSE IF ~o.workloadStopped THEN "stop"
  ELSE IF ~o.volumesRestored THEN "restore"
  ELSE IF ~o.reconciled THEN "reconcile"
  ELSE IF ~o.gitReverted THEN "revert"
  ELSE IF ~o.healthy THEN "health"
  ELSE "done"

\* The handler Reconcile picks from the conditions.
Phase(o) ==
  IF o.suspended = "absent" THEN "suspend"
  ELSE IF ~o.workloadStopped THEN "stop"
  ELSE IF ~o.volumesRestored THEN "restore"
  ELSE IF ~o.gitReverted THEN "revert"
  ELSE IF ~o.reconciled THEN "reconcile"
  ELSE IF ~o.healthy THEN "health"
  ELSE "done"

\* Mutant: every reconcile starts the timer anew.
restartPhase(o) == [o EXCEPT !.phaseAge = 0]

\* Mutant: a timer that runs is moved on by every reconcile.
advancePhase(o) == [o EXCEPT !.phaseAge = @ + 1]

setPhaseStartIfNeeded(o) ==
  IF o.phaseAge = NoTimer THEN [o EXCEPT !.phaseAge = 0] ELSE o

resetPhaseStart(o) == [o EXCEPT !.phaseAge = NoTimer]

isPhaseTimedOut(o, timeout) == o.phaseAge # NoTimer /\ o.phaseAge > timeout

Older(o) ==
  IF o.phaseAge # NoTimer /\ o.phaseAge < MaxAge
  THEN [o EXCEPT !.phaseAge = @ + 1] ELSE o

TypeOK ==
  /\ ClusterTypeOK
  /\ claims \in [PVCs -> Claim] /\ upgrade \in [Rollbacks -> UpgradeView]
  /\ obj \in [Rollbacks -> Object] /\ cache \in [Rollbacks -> Object]
  /\ lagged \in BOOLEAN
  /\ pc \in {"idle", "run", "scaled", "next", "deleting", "push", "resumed", "update",
             "finalize"}
  /\ cur \in Rollbacks \cup {None} /\ (pc # "idle" => cur # None)
  /\ base \in Object /\ mem \in Object
  /\ then \in {"return", "run", "next", "resumed", "finalize"}
  /\ faults \in 0..MaxFaults

\* The upgrade has committed, took one snapshot of each claim, and has stopped
\* either with Flux resumed and the app running, or before it could resume.
Init ==
  /\ upgrade \in [Rollbacks -> Upgrades]
  /\ git \in Versions \ {InitialVersion} /\ applied \in {InitialVersion, git}
  /\ ready \in BOOLEAN
  /\ \/ /\ suspended = FALSE /\ replicas = Workloads
        /\ \E s \in {"unready", "ready"} : pods = [w \in Workloads |-> s]
     \/ /\ suspended = TRUE /\ replicas = {} /\ applied = InitialVersion
        /\ pods = [w \in Workloads |-> "none"]
  /\ snaps = [p \in PVCs |-> <<[state |-> "ready", quiet |-> TRUE]>>]
  /\ app \in [spec : AppSpecs, current : {InitialCurrent}, available : {NoVersion}]
  /\ claims = [p \in PVCs |-> [state |-> "bound", data |-> Live, opened |-> {}]]
  /\ obj = [r \in Rollbacks |-> NewObject] /\ cache = obj /\ lagged = FALSE
  /\ pc = "idle" /\ cur = None /\ base = NewObject /\ mem = NewObject
  /\ then = "return" /\ faults = 0

-----------------------------------------------------------------------------
(* The worker *)

Failing(n) == faults + n <= MaxFaults /\ faults' = faults + n

Return ==
  /\ pc' = "idle" /\ cur' = None /\ base' = NewObject /\ mem' = NewObject
  /\ then' = "return"

\* The handler hands m to Status().Update, and goes on with t if that succeeds.
WriteStatus(m, t) ==
  /\ pc' = "update" /\ mem' = m /\ then' = t /\ UNCHANGED <<cur, base>>

\* A write to the API server; the cache sees it now or, if it lags, later.  The
\* lag counts as a fault.
Store(r, o) ==
  /\ obj' = [obj EXCEPT ![r] = o]
  /\ \/ cache' = [cache EXCEPT ![r] = o] /\ UNCHANGED <<lagged, faults>>
     \/ "stale" \in Disturbances /\ UNCHANGED cache /\ lagged' = TRUE /\ Failing(1)

\* Deletion, then the finalizer, then the terminal states.
Reconcile(r) ==
  /\ pc = "idle"
  /\ \/ /\ cache[r].life = "deleting" /\ cache[r].finalizer
        /\ cache[r] = obj[r]
        /\ Store(r, [obj[r] EXCEPT !.finalizer = FALSE, !.life = "gone"])
        /\ UNCHANGED workerVars
     \/ /\ cache[r].life = "live" /\ ~cache[r].finalizer
        /\ cache[r] = obj[r]
        /\ Store(r, [obj[r] EXCEPT !.finalizer = TRUE])
        /\ UNCHANGED workerVars
     \/ /\ cache[r].life = "live" /\ cache[r].finalizer /\ ~Terminal(cache[r])
        /\ pc' = "run" /\ cur' = r /\ base' = cache[r] /\ mem' = cache[r]
        /\ UNCHANGED <<then, stored, faults>>
  /\ UNCHANGED <<clusterVars, claims, upgrade>>

\* A failed rollback resumes nothing.
setFailed(m, reason, n) ==
  /\ WriteStatus([m EXCEPT !.complete = "false", !.reason = reason], "finalize")
  /\ Failing(n)

Fail(m, n) == setFailed(m, "other", n)

At(phase) == pc = "run" /\ Phase(mem) = phase

\* The upgrade of the rollback that is reconciled; getUpgradeRequest fails when
\* it is gone.
Up == upgrade[cur]

\* The claims the upgrade recorded a snapshot of.
Recorded == {p \in PVCs : Up.pvcSnapshots[p] # 0}

\* The claims there is something to restore for.
ToRestore == IF Up.skipSnapshot THEN {} ELSE Recorded

SnapshotUsable(p) == snaps[p][Up.pvcSnapshots[p]].state = "ready"

\* The first of the claims P in the upgrade's list.
First(p, P) == p \in P /\ \A q \in P : Position[p] <= Position[q]

\* The workloads whose pods mount a claim that is to be restored.
DiscoverWorkloadsForPVCs == {w \in Running : Mounts[w] \cap ToRestore # {}}

-----------------------------------------------------------------------------
(* The handlers *)

\* Mutant: an upgrade under way is accepted.
acceptAnyUpgrade(u) == TRUE

isUpgradeTerminal(u) == u.terminal

\* Every snapshot must still exist and be ready.
runRollbackPreflight ==
  ValidateSuspendTarget /\ \A p \in ToRestore : SnapshotUsable(p)

\* Validation, preflight and the suspension.  A call that fails may have been
\* carried out.
handleSuspend ==
  LET valid == /\ Up.skipSnapshot \/ Recorded # {}
               /\ Up.previousVersion # NoVersion
               /\ runRollbackPreflight
  IN  /\ At("suspend")
      /\ \/ Fail(mem, 1) /\ UNCHANGED suspended
         \/ /\ ~Up.gone /\ isUpgradeTerminal(Up) /\ valid
            /\ SuspendKustomization(TRUE) /\ Fail(mem, 1)
         \/ /\ ~Up.gone /\ ~isUpgradeTerminal(Up)
            /\ setFailed(mem, "UpgradeInProgress", 0) /\ UNCHANGED suspended
         \/ /\ Up.gone \/ (isUpgradeTerminal(Up) /\ ~valid)
            /\ Fail(mem, 0) /\ UNCHANGED suspended
         \/ /\ ~Up.gone /\ isUpgradeTerminal(Up) /\ valid
            /\ SuspendKustomization(TRUE)
            /\ WriteStatus([mem EXCEPT !.suspended = "true",
                                       !.volumesRestored = @ \/ ToRestore = {}],
                           "return")
            /\ UNCHANGED faults
      /\ UNCHANGED <<ready, applied, workloadVars, snaps, git, app, claims, upgrade, stored>>

\* Nothing to stop: the reconcile goes on with the next phase, the timer
\* running.  Otherwise every discovered workload is scaled to 0; the call that
\* fails leaves those before it scaled, and perhaps its own.
handleStopWorkload ==
  LET m == setPhaseStartIfNeeded(mem)
      W == DiscoverWorkloadsForPVCs
  IN  /\ At("stop")
      /\ \/ /\ Fail(m, 1)
            /\ \E S \in SUBSET W : ScaleDown(S)
         \/ Up.gone /\ Fail(m, 0) /\ UNCHANGED replicas
         \/ /\ ~Up.gone /\ W = {}
            /\ WriteStatus([m EXCEPT !.workloadStopped = TRUE], "run")
            /\ UNCHANGED <<replicas, faults>>
         \/ /\ ~Up.gone /\ W # {}
            /\ ScaleDown(W)
            /\ pc' = "scaled" /\ mem' = [m EXCEPT !.scaling = W]
            /\ UNCHANGED <<cur, base, then, faults>>
      /\ UNCHANGED <<fluxVars, pods, snaps, git, app, claims, upgrade, stored>>

\* The rest of handleStopWorkload: are the workloads' pods gone?
checkStopped ==
  LET down == \A w \in mem.scaling : IsScaledDown(w)
      late == isPhaseTimedOut(mem, TimeoutScaleDown)
  IN  /\ pc = "scaled"
      /\ \/ Fail(mem, 1)
         \/ ~down /\ late /\ Fail(mem, 0)
         \/ ~down /\ ~late /\ WriteStatus(mem, "return") /\ UNCHANGED faults
         \/ /\ down
            /\ WriteStatus([resetPhaseStart(mem) EXCEPT !.workloadStopped = TRUE],
                           "return")
            /\ UNCHANGED faults
      /\ UNCHANGED <<clusterVars, claims, upgrade, stored>>

\* The suspension is verified once, then the claims are taken one by one.
handleVolumeRestore ==
  LET m == setPhaseStartIfNeeded(mem)
  IN  /\ At("restore")
      /\ \/ Fail(m, 1)
         \/ (Up.gone \/ VerifyStillSuspended(FALSE)) /\ Fail(m, 0)
         \/ /\ ~Up.gone /\ VerifyStillSuspended(TRUE)
            /\ pc' = "next" /\ mem' = m
            /\ UNCHANGED <<cur, base, then, faults>>
      /\ UNCHANGED <<clusterVars, claims, upgrade, stored>>

\* Mutant: one restored claim is taken for all.
UnrestoredUnlessAny(m) ==
  IF \E p \in PVCs : m.restored[p] # "no" THEN {} ELSE ToRestore

Unrestored(m) == {p \in ToRestore : m.restored[p] = "no"}

\* The first claim that is not recorded as restored is deleted.  A call that
\* fails may have been carried out.
deleteClaim ==
  /\ pc = "next"
  /\ \E p \in Unrestored(mem) :
       /\ First(p, Unrestored(mem))
       /\ \/ /\ DeletePVC(p)
             /\ pc' = "deleting" /\ UNCHANGED <<cur, base, mem, then, faults>>
          \/ Fail(mem, 1) /\ (DeletePVC(p) \/ UNCHANGED claims)
  /\ UNCHANGED <<clusterVars, upgrade, stored>>

\* Is it gone?  If not, the reconcile returns and writes nothing.  If so, the
\* claim is made from its snapshot, and that is recorded before the next one.
RestorePVCFromSnapshot ==
  LET late == isPhaseTimedOut(mem, TimeoutVolumeRestore)
  IN  /\ pc = "deleting"
      /\ \E p \in Unrestored(mem) :
           LET made == [claims EXCEPT ![p] = NewClaim(Up.pvcSnapshots[p])]
           IN  /\ First(p, Unrestored(mem))
               /\ \/ Fail(mem, 1) /\ UNCHANGED claims
                  \/ ~IsPVCDeleted(p) /\ late /\ Fail(mem, 0) /\ UNCHANGED claims
                  \/ ~IsPVCDeleted(p) /\ ~late /\ Return /\ UNCHANGED <<claims, faults>>
                  \/ /\ IsPVCDeleted(p) /\ ~SnapshotUsable(p)
                     /\ Fail(mem, 0) /\ UNCHANGED claims
                  \/ /\ IsPVCDeleted(p) /\ SnapshotUsable(p)
                     /\ claims' = made
                     /\ \/ /\ WriteStatus([mem EXCEPT !.restored[p] = "pending"], "next")
                           /\ UNCHANGED faults
                        \/ Fail(mem, 1)
      /\ UNCHANGED <<clusterVars, upgrade, stored>>

Pending(m) == {p \in PVCs : m.restored[p] = "pending"}

Unbound(m) == {p \in Pending(m) : ~IsPVCBound(p)}

\* All claims are recorded: are they bound?  A claim that is missing, or that
\* the cache has not seen yet, is an error.
awaitBound ==
  LET late  == isPhaseTimedOut(mem, TimeoutVolumeRestore)
      found == [p \in PVCs |-> IF p \in Pending(mem) THEN "restored" ELSE mem.restored[p]]
  IN  /\ pc = "next" /\ Unrestored(mem) = {}
      /\ \/ Fail(mem, 1)
         \/ \E p \in Unbound(mem) :
              /\ First(p, Unbound(mem))
              /\ \/ (IsPVCDeleted(p) \/ "stale" \in Disturbances) /\ Fail(mem, 0)
                 \/ ~IsPVCDeleted(p) /\ late /\ Fail(mem, 0)
                 \/ ~IsPVCDeleted(p) /\ ~late /\ Return /\ UNCHANGED faults
         \/ /\ Unbound(mem) = {}
            /\ WriteStatus([resetPhaseStart(mem) EXCEPT !.restored = found,
                                                        !.volumesRestored = TRUE],
                           "return")
            /\ UNCHANGED faults
      /\ UNCHANGED <<clusterVars, claims, upgrade, stored>>

\* handleGitRevert up to the commit.
handleGitRevert ==
  LET refused == Up.gone \/ Up.previousVersion = NoVersion
  IN  /\ At("revert")
      /\ \/ Fail(mem, 1)
         \/ (refused \/ VerifyStillSuspended(FALSE)) /\ Fail(mem, 0)
         \/ /\ ~refused /\ VerifyStillSuspended(TRUE)
            /\ pc' = "push" /\ UNCHANGED <<cur, base, mem, then, faults>>
      /\ UNCHANGED <<clusterVars, claims, upgrade, stored>>

\* The commit itself.  A call that fails may have been carried out.
commitFile ==
  /\ pc = "push"
  /\ \/ /\ git' = Up.previousVersion
        /\ \/ /\ WriteStatus([mem EXCEPT !.gitReverted = TRUE], "return")
              /\ UNCHANGED faults
           \/ Fail(mem, 1)
     \/ Fail(mem, 1) /\ UNCHANGED git
  /\ UNCHANGED <<fluxVars, workloadVars, snaps, app, claims, upgrade, stored>>

\* handleReconciling up to its first status update, which also writes the timer.
handleReconciling ==
  LET m == setPhaseStartIfNeeded(mem)
  IN  /\ At("reconcile")
      /\ \/ Fail(m, 1) /\ suspended' \in {suspended, FALSE}
         \/ Up.gone /\ Fail(m, 0) /\ UNCHANGED suspended
         \/ /\ ~Up.gone
            /\ ResumeKustomization
            /\ WriteStatus([m EXCEPT !.suspended = "false"], "resumed")
            /\ UNCHANGED faults
      /\ UNCHANGED <<ready, applied, workloadVars, snaps, git, app, claims, upgrade, stored>>

\* The rest of handleReconciling: has Flux reconciled?
checkReconciled ==
  LET late == isPhaseTimedOut(mem, TimeoutReconcile)
  IN  /\ pc = "resumed"
      /\ \/ Fail(mem, 1)
         \/ ~IsReconciled /\ late /\ Fail(mem, 0)
         \/ ~IsReconciled /\ ~late /\ Return /\ UNCHANGED faults
         \/ /\ IsReconciled
            /\ WriteStatus([resetPhaseStart(mem) EXCEPT !.reconciled = TRUE], "return")
            /\ UNCHANGED faults
      /\ UNCHANGED <<clusterVars, claims, upgrade, stored>>

\* While the app is unhealthy the copy, and with it the timer, is not written.
handleHealthChecking ==
  LET m    == setPhaseStartIfNeeded(mem)
      late == isPhaseTimedOut(m, TimeoutHealthCheck)
  IN  /\ At("health")
      /\ \/ Fail(m, 1)
         \/ Up.gone /\ Fail(m, 0)
         \/ ~Up.gone /\ ~CheckHealth /\ late /\ Fail(m, 0)
         \/ ~Up.gone /\ ~CheckHealth /\ ~late /\ Return /\ UNCHANGED faults
         \/ /\ ~Up.gone /\ CheckHealth
            /\ WriteStatus([m EXCEPT !.healthy = TRUE], "return")
            /\ UNCHANGED faults
      /\ UNCHANGED <<clusterVars, claims, upgrade, stored>>

\* The ManagedApp is left as it is: its current version is not reset.
handleCompleted ==
  /\ At("done")
  /\ WriteStatus([mem EXCEPT !.complete = "true"], "finalize")
  /\ UNCHANGED <<clusterVars, claims, upgrade, stored, faults>>

-----------------------------------------------------------------------------
(* Writes, crashes, deletion, the cache and the clock *)

\* Every handler's Status().Update: the server refuses it if the object changed
\* since it was read, and the handler then returns the error.
statusUpdate ==
  /\ pc = "update"
  /\ \/ /\ obj[cur] = base
        /\ Store(cur, mem)
        /\ \/ then = "return" /\ Return
           \/ /\ then # "return"
              /\ pc' = then /\ base' = mem /\ UNCHANGED <<cur, mem, then>>
     \/ obj[cur] # base /\ Return /\ UNCHANGED <<stored, faults>>
  /\ UNCHANGED <<clusterVars, claims, upgrade>>

removeFinalizer ==
  /\ pc = "finalize"
  /\ \/ obj[cur] = base /\ Store(cur, [mem EXCEPT !.finalizer = FALSE])
     \/ obj[cur] # base /\ UNCHANGED <<stored, faults>>
  /\ Return
  /\ UNCHANGED <<clusterVars, claims, upgrade>>

WorkerStep ==
  \/ handleSuspend \/ handleStopWorkload \/ checkStopped
  \/ handleVolumeRestore \/ deleteClaim \/ RestorePVCFromSnapshot \/ awaitBound
  \/ handleGitRevert \/ commitFile
  \/ handleReconciling \/ checkReconciled \/ handleHealthChecking \/ handleCompleted
  \/ statusUpdate \/ removeFinalizer

\* The controller restarts, or a write fails: the reconcile starts over.
Crash ==
  /\ pc # "idle" /\ Failing(1) /\ Return
  /\ UNCHANGED <<clusterVars, claims, upgrade, stored>>

\* Someone deletes the rollback; a finalizer delays that.
Delete(r) ==
  /\ "delete" \in Disturbances /\ obj[r].life = "live"
  /\ Store(r, [obj[r] EXCEPT !.life = IF obj[r].finalizer THEN "deleting" ELSE "gone"])
  /\ UNCHANGED <<clusterVars, claims, upgrade, workerVars>>

\* The watch delivers the stored object to the cache.
Sync(r) ==
  /\ cache[r] # obj[r]
  /\ cache' = [cache EXCEPT ![r] = obj[r]]
  /\ UNCHANGED <<clusterVars, claims, upgrade, obj, lagged, workerVars, faults>>

Tick ==
  /\ obj' = [r \in Rollbacks |-> Older(obj[r])]
  /\ cache' = [r \in Rollbacks |-> Older(cache[r])]
  /\ base' = Older(base) /\ mem' = Older(mem)
  /\ UNCHANGED <<clusterVars, claims, upgrade, lagged, pc, cur, then, faults>>

-----------------------------------------------------------------------------
(* The other actors, and what they do to the claims *)

Open(P, v) ==
  claims' = [p \in PVCs |-> IF p \in P THEN [claims[p] EXCEPT !.opened = @ \cup {v}]
                            ELSE claims[p]]

\* Flux replaces the pods of a changed version and makes missing claims anew.
FluxApplyClaims(ok) ==
  /\ FluxApply(ok)
  /\ claims' = [p \in PVCs |->
                  IF claims[p].state = "absent" THEN NewClaim(Blank)
                  ELSE IF applied # git /\ Mounted(p)
                       THEN [claims[p] EXCEPT !.opened = @ \cup {git}]
                       ELSE claims[p]]

\* A pod starts only when all the claims it mounts are there.
PodStartMounting(w) ==
  /\ \A p \in Mounts[w] : claims[p].state = "bound"
  /\ PodStart(w) /\ Open(Mounts[w], applied)

\* The protection of claims in use lets the deletion finish.
ClaimGone(p) ==
  /\ claims[p].state = "terminating" /\ ~Mounted(p)
  /\ claims' = [claims EXCEPT ![p].state = "absent"]
  /\ UNCHANGED clusterVars

\* The storage provisions the volume, from the snapshot if there is one.
ClaimBound(p) ==
  /\ claims[p].state = "pending"
  /\ claims[p].data > 0 => snaps[p][claims[p].data].state = "ready"
  /\ claims' = [claims EXCEPT ![p].state = "bound"]
  /\ UNCHANGED clusterVars

\* Another upgrade's retention, or someone, deletes a snapshot.
PruneSnapshot(p, i) ==
  /\ "prune" \in Disturbances
  /\ i \in 1..Len(snaps[p]) /\ snaps[p][i].state = "ready"
  /\ snaps' = [snaps EXCEPT ![p][i].state = "deleted"]
  /\ UNCHANGED <<fluxVars, workloadVars, git, app, claims>>

EnvironmentNext ==
  \/ \E ok \in BOOLEAN : FluxApplyClaims(ok)
  \/ \E w \in Workloads : PodStartMounting(w)
  \/ \E w \in Workloads : (PodReady(w) \/ PodStop(w)) /\ UNCHANGED claims
  \/ \E p \in PVCs, i \in 1..MaxSnaps : SnapshotReady(p, i) /\ UNCHANGED claims
  \/ ExternalResume /\ UNCHANGED claims
  \/ \E v \in Versions : updateManagedAppStatus(v) /\ UNCHANGED claims
  \/ \E p \in PVCs : ClaimGone(p) \/ ClaimBound(p)
  \/ \E p \in PVCs, i \in 1..MaxSnaps : PruneSnapshot(p, i)

\* Someone deletes the UpgradeRequest.
DeleteUpgrade(r) ==
  /\ "delete" \in Disturbances /\ ~upgrade[r].gone
  /\ upgrade' = [upgrade EXCEPT ![r].gone = TRUE]
  /\ UNCHANGED <<clusterVars, claims, stored, workerVars, faults>>

Next ==
  \/ \E r \in Rollbacks : Reconcile(r)
  \/ WorkerStep
  \/ Crash
  \/ \E r \in Rollbacks : Delete(r)
  \/ \E r \in Rollbacks : Sync(r)
  \/ \E r \in Rollbacks : DeleteUpgrade(r)
  \/ Tick
  \/ EnvironmentNext /\ UNCHANGED <<upgrade, stored, workerVars, faults>>

Spec == Init /\ [][Next]_vars

\* Fairness as in module Upgrade: the work queue, the handlers, the watch and
\* time; nothing of Flux, the kubelet or the storage.
FairSpec ==
  /\ Spec
  /\ \A r \in Rollbacks : SF_vars(Reconcile(r)) /\ WF_vars(Sync(r))
  /\ WF_vars(WorkerStep) /\ WF_vars(Tick)

-----------------------------------------------------------------------------
(* Properties *)

\* The claims a rollback restores, and the snapshot of each.
Restores(r) ==
  IF upgrade[r].skipSnapshot THEN {} ELSE {p \in PVCs : upgrade[r].pvcSnapshots[p] # 0}

Holds(r, p) == claims[p].data = upgrade[r].pvcSnapshots[p]

\* Git goes back to the old version only after every claim that the upgrade
\* took a snapshot of is there again with the data of that snapshot, whatever
\* was deleted, restored twice or lost in a crash (handleVolumeRestore before
\* handleGitRevert), unless a stale object made the controller start over.
RevertAfterRestore ==
  \A r \in Rollbacks : obj[r].gitReverted /\ ~lagged =>
    \A p \in Restores(r) : claims[p].state = "bound" /\ Holds(r, p)

\* From the restore of a claim to the end of the rollback only the version that
\* is restored has the claim mounted: the version that failed never writes to
\* the restored data (handleStopWorkload, and the resume after the revert).
RestoredDataClean ==
  \A r \in Rollbacks : ~Terminal(obj[r]) =>
    \A p \in Restores(r) : Holds(r, p) => claims[p].opened \subseteq {upgrade[r].previousVersion}

\* While a claim is missing or not bound yet Flux stays suspended, so that
\* nothing is made in its place (handleReconciling comes last, setFailed does
\* not resume).
SuspendedWhileClaimsMissing ==
  ~lagged => \A p \in PVCs : claims[p].state # "bound" => suspended

\* The stage that the conditions of an object stand for.
Stage(o) ==
  IF o.complete = "true" THEN "succeeded"
  ELSE IF o.complete = "false" THEN "failed"
  ELSE Phase(o)

\* The stored objects follow the life cycle that RollbackLifecycle promises.
Lifecycle == INSTANCE RollbackLifecycle
               WITH stage <- [r \in Rollbacks |-> Stage(obj[r])]

FollowsLifecycle == Lifecycle!Spec

\* Every rollback ends, is deleted, or is left for ever waiting for the deletion of
\* the first claim or for the app to become healthy: every other wait, before and
\* after these, has a timer that is persisted (isPhaseTimedOut).
EndsOrWaits ==
  \A r \in Rollbacks :
    <>[](\/ Terminal(obj[r]) \/ obj[r].life = "gone" \/ Phase(obj[r]) = "health"
         \/ Phase(obj[r]) = "restore" /\ \A p \in PVCs : obj[r].restored[p] = "no")
=============================================================================
