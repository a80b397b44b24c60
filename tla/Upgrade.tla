------------------------------ MODULE Upgrade ------------------------------
(***************************************************************************)
(* The UpgradeRequest controller (internal/controller/                     *)
(* upgraderequest_controller.go) over the cluster of module Cluster.       *)
(*                                                                         *)
(* One worker reconciles the requests, one reconcile at a time.  A         *)
(* reconcile reads the request from the manager's cache, which may lag the *)
(* API server; the handler of the request's phase changes the cluster and  *)
(* the in-memory copy; Status().Update then writes the copy, unless the    *)
(* stored object has changed since it was read.  Everything else may       *)
(* happen between these steps, and the worker may crash between any two of *)
(* them: the in-memory copy is then lost, the cluster keeps its changes.   *)
(***************************************************************************)
EXTENDS Cluster

CONSTANTS
  Requests,          \* the UpgradeRequests for the app
  RequestSpecs,      \* the UpgradeRequest specs to consider
  None,              \* no request
  TimeoutScaleDown, TimeoutSnapshot, TimeoutReconcile, TimeoutHealthCheck,
  MaxAge,            \* ages beyond it are not told apart: no timeout is longer
  MaxFaults,         \* bound: failing API calls and crashes in a behaviour
  MaxRollbacks       \* bound: auto-rollbacks counted per request

RequestSpec == [skipSnapshot : BOOLEAN, target : Versions \cup {NoVersion}]

ASSUME UpgradeAssumption ==
  /\ None \notin Requests /\ RequestSpecs \subseteq RequestSpec
  /\ MaxAge \in Nat /\ MaxFaults \in Nat /\ MaxRollbacks \in Nat
  /\ {TimeoutScaleDown, TimeoutSnapshot, TimeoutReconcile, TimeoutHealthCheck}
       \subseteq 0..(MaxAge - 1)

VARIABLES
  ask,        \* the spec of each request
  obj,        \* each request's object in the API server
  cache,      \* each request's object in the manager's cache
  pc,         \* where the worker is
  cur,        \* the request it reconciles
  base,       \* that request's object as it was read or written last
  mem,        \* the in-memory copy, with the changes not written yet
  then,       \* what follows the status update
  rollbacks,  \* how many auto-rollbacks were created for each request
  commits,    \* history: the versions each request committed to Git
  faults      \* failing calls and crashes so far

workerVars == <<pc, cur, base, mem, then>>
vars == <<clusterVars, ask, obj, cache, workerVars, rollbacks, commits, faults>>

-----------------------------------------------------------------------------
(* An UpgradeRequest object: life cycle, finalizer, conditions and status.  *)

Tristate == {"absent", "true", "false"}   \* a condition's status
NoTimer  == -1                             \* phaseStartedAt is nil

Object ==
  [life            : {"live", "deleting", "gone"},
   finalizer       : BOOLEAN,
   suspended       : Tristate,
   workloadStopped : BOOLEAN,
   snapshotReady   : BOOLEAN,
   gitCommitted    : BOOLEAN,
   reconciled      : BOOLEAN,
   healthy         : BOOLEAN,
   complete        : Tristate,
   phaseAge        : NoTimer..MaxAge,          \* time since phaseStartedAt
   scaling         : SUBSET Workloads,         \* scaling.workloads
   pvcSnapshots    : [PVCs -> 0..MaxSnaps],    \* index into snaps, 0 for none
   newVersion      : Versions \cup {NoVersion},
   previousVersion : Versions \cup {NoVersion}]

NewObject ==
  [life |-> "live", finalizer |-> FALSE, suspended |-> "absent",
   workloadStopped |-> FALSE, snapshotReady |-> FALSE, gitCommitted |-> FALSE,
   reconciled |-> FALSE, healthy |-> FALSE, complete |-> "absent",
   phaseAge |-> NoTimer, scaling |-> {}, pvcSnapshots |-> [p \in PVCs |-> 0],
   newVersion |-> NoVersion, previousVersion |-> NoVersion]

\* Mutant: only Complete=True is taken as the end.
TerminalOnlyTrue(o) == o.complete = "true"

Terminal(o) == o.complete # "absent"

\* Mutant: the SnapshotReady condition is not looked at.
PhaseWithoutSnapshots(o) ==
  IF o.suspended = "absent" THEN "suspend"
  ELSE IF ~o.workloadStopped THEN "scaleDown"
  ELSE IF ~o.gitCommitted THEN "commit"
  ELSE IF ~o.reconciled THEN "reconcile"
  ELSE IF ~o.healthy THEN "health"
  ELSE "done"

\* The handler Reconcile picks from the conditions.
Phase(o) ==
  IF o.suspended = "absent" THEN "suspend"
  ELSE IF ~o.workloadStopped THEN "scaleDown"
  ELSE IF ~o.snapshotReady THEN "snapshot"
  ELSE IF ~o.gitCommitted THEN "commit"
  ELSE IF ~o.reconciled THEN "reconcile"
  ELSE IF ~o.healthy THEN "health"
  ELSE "done"

\* Mutant: every reconcile starts the timer anew.
restartPhase(o) == [o EXCEPT !.phaseAge = 0]

\* Mutant: a timer that runs is moved on by every reconcile.
advancePhase(o) == [o EXCEPT !.phaseAge = @ + 1]

setPhaseStartIfNeeded(o) ==
  IF o.phaseAge = NoTimer THEN [o EXCEPT !.phaseAge = 0] ELSE o

resetPhaseStart(o) == [o EXCEPT !.phaseAge = NoTimer]

isPhaseTimedOut(o, timeout) == o.phaseAge # NoTimer /\ o.phaseAge > timeout

Older(o) ==
  IF o.phaseAge # NoTimer /\ o.phaseAge < MaxAge
  THEN [o EXCEPT !.phaseAge = @ + 1] ELSE o

TypeOK ==
  /\ ClusterTypeOK
  /\ ask \in [Requests -> RequestSpecs]
  /\ obj \in [Requests -> Object] /\ cache \in [Requests -> Object]
  /\ pc \in {"idle", "run", "scaled", "push", "update", "finalize"}
  /\ cur \in Requests \cup {None} /\ (pc # "idle" => cur # None)
  /\ base \in Object /\ mem \in Object
  /\ then \in {"return", "run", "finalize"}
  /\ rollbacks \in [Requests -> 0..MaxRollbacks]
  /\ commits \in [Requests -> SUBSET Versions]
  /\ faults \in 0..MaxFaults

Init ==
  /\ ClusterInit
  /\ ask \in [Requests -> RequestSpecs]
  /\ obj = [r \in Requests |-> NewObject] /\ cache = obj
  /\ pc = "idle" /\ cur = None /\ base = NewObject /\ mem = NewObject
  /\ then = "return"
  /\ rollbacks = [r \in Requests |-> 0]
  /\ commits = [r \in Requests |-> {}]
  /\ faults = 0

-----------------------------------------------------------------------------
(* The worker *)

\* n more API calls fail in this step.
Failing(n) == faults + n <= MaxFaults /\ faults' = faults + n

\* The reconcile returns; what it held in memory is gone.
Return ==
  /\ pc' = "idle" /\ cur' = None /\ base' = NewObject /\ mem' = NewObject
  /\ then' = "return"

\* The handler hands m to Status().Update, and goes on with t if that succeeds.
WriteStatus(m, t) ==
  /\ pc' = "update" /\ mem' = m /\ then' = t /\ UNCHANGED <<cur, base>>

\* A write to the API server; the cache sees it now or, if it lags, later.
Store(r, o) ==
  /\ obj' = [obj EXCEPT ![r] = o]
  /\ \/ cache' = [cache EXCEPT ![r] = o]
     \/ "stale" \in Disturbances /\ UNCHANGED cache

SnapshotsEnabled(r) == ~ask[r].skipSnapshot /\ app.spec.snapshots

TargetVersion(r) ==
  IF ask[r].target # NoVersion THEN ask[r].target ELSE app.available

\* Reconcile up to the choice of the handler: deletion, then the finalizer,
\* then the terminal states.
Reconcile(r) ==
  /\ pc = "idle"
  /\ \/ /\ cache[r].life = "deleting" /\ cache[r].finalizer
        /\ cache[r] = obj[r]
        /\ Store(r, [obj[r] EXCEPT !.finalizer = FALSE, !.life = "gone"])
        /\ UNCHANGED workerVars
     \/ /\ cache[r].life = "live" /\ ~cache[r].finalizer
        /\ cache[r] = obj[r]
        /\ Store(r, [obj[r] EXCEPT !.finalizer = TRUE])
        /\ UNCHANGED workerVars
     \/ /\ cache[r].life = "live" /\ cache[r].finalizer /\ ~Terminal(cache[r])
        /\ pc' = "run" /\ cur' = r /\ base' = cache[r] /\ mem' = cache[r]
        /\ UNCHANGED <<then, obj, cache>>
  /\ UNCHANGED <<clusterVars, ask, rollbacks, commits, faults>>

createAutoRollback ==
  rollbacks' = [rollbacks EXCEPT ![cur] = IF @ < MaxRollbacks THEN @ + 1 ELSE @]

\* Mutant: the Kustomization is not resumed after a failure.
setFailedSuspended(m, s, n) ==
  /\ WriteStatus([m EXCEPT !.complete = "false"], "finalize")
  /\ suspended' = s /\ Failing(n)
  /\ UNCHANGED rollbacks

\* setFailed of a request whose copy is m, when n calls have failed so far and
\* the Kustomization's suspend flag is s.
setFailed(m, s, n) ==
  LET failed == [m EXCEPT !.complete = "false"]
  IN  \/ /\ m.gitCommitted /\ app.spec.autoRollback
         /\ createAutoRollback
         /\ WriteStatus(failed, "finalize") /\ suspended' = s /\ Failing(n)
      \/ /\ m.gitCommitted
         /\ \/ ~app.spec.autoRollback /\ Failing(n)
            \/ Failing(n + 1)   \* the app is not found or the Create fails
         /\ WriteStatus(failed, "finalize") /\ suspended' = s
         /\ UNCHANGED rollbacks
      \/ /\ ~m.gitCommitted /\ m.suspended = "true"
         /\ WriteStatus([failed EXCEPT !.suspended = "false"], "finalize")
         /\ ResumeKustomization /\ Failing(n)
         /\ UNCHANGED rollbacks
      \/ /\ ~m.gitCommitted
         /\ \/ m.suspended # "true" /\ Failing(n) /\ suspended' = s
            \/ /\ m.suspended = "true" /\ Failing(n + 1)   \* the resume fails
               /\ suspended' \in {s, FALSE}
         /\ WriteStatus(failed, "finalize")
         /\ UNCHANGED rollbacks

Fail(m, n) == setFailed(m, suspended, n)

At(phase) == pc = "run" /\ Phase(mem) = phase

-----------------------------------------------------------------------------
(* The handlers *)

\* The preflight can refuse the suspend target; the rest of it only warns, or
\* fails when a call fails.
runUpgradePreflight == ValidateSuspendTarget

\* Validation, preflight and the suspension.  A call that fails may have been
\* carried out.
handleSuspend ==
  /\ At("suspend")
  /\ \/ Fail(mem, 1)
     \/ TargetVersion(cur) # NoVersion /\ runUpgradePreflight /\ setFailed(mem, TRUE, 1)
     \/ (TargetVersion(cur) = NoVersion \/ ~runUpgradePreflight) /\ Fail(mem, 0)
     \/ /\ TargetVersion(cur) # NoVersion /\ runUpgradePreflight
        /\ SuspendKustomization(\E r \in Requests \ {cur} : obj[r].suspended # "absent")
        /\ WriteStatus([mem EXCEPT !.suspended = "true",
                                   !.snapshotReady = @ \/ ~SnapshotsEnabled(cur)],
                       "return")
        /\ UNCHANGED <<rollbacks, faults>>
  /\ UNCHANGED <<ready, applied, workloadVars, snaps, git, app, ask, obj, cache,
                 commits>>

\* Nothing to scale: the reconcile goes on with the next phase, the timer
\* running.  Otherwise every discovered workload is scaled to 0; the call that
\* fails leaves those before it scaled, and perhaps its own.
handleScaleDown ==
  LET m == setPhaseStartIfNeeded(mem)
      W == IF SnapshotsEnabled(cur) THEN DiscoverWorkloads ELSE {}
  IN  /\ At("scaleDown")
      /\ \/ /\ Fail(m, 1)
            /\ \E S \in SUBSET W : ScaleDown(S)
         \/ /\ W = {}
            /\ WriteStatus([m EXCEPT !.workloadStopped = TRUE], "run")
            /\ UNCHANGED <<suspended, replicas, rollbacks, faults>>
         \/ /\ W # {}
            /\ ScaleDown(W)
            /\ pc' = "scaled" /\ mem' = [m EXCEPT !.scaling = W]
            /\ UNCHANGED <<cur, base, then, suspended, rollbacks, faults>>
      /\ UNCHANGED <<ready, applied, pods, snaps, git, app, ask, obj, cache, commits>>

\* The rest of handleScaleDown: are the workloads' pods gone?
checkScaledDown ==
  LET down == \A w \in mem.scaling : IsScaledDown(w)
  IN  /\ pc = "scaled"
      /\ \/ Fail(mem, 1)
         \/ ~down /\ isPhaseTimedOut(mem, TimeoutScaleDown) /\ Fail(mem, 0)
         \/ /\ ~down /\ ~isPhaseTimedOut(mem, TimeoutScaleDown)
            /\ WriteStatus(mem, "return")
            /\ UNCHANGED <<suspended, rollbacks, faults>>
         \/ /\ down
            /\ WriteStatus([resetPhaseStart(mem) EXCEPT !.workloadStopped = TRUE],
                           "return")
            /\ UNCHANGED <<suspended, rollbacks, faults>>
      /\ UNCHANGED <<ready, applied, workloadVars, snaps, git, app, ask, obj, cache,
                     commits>>

Recorded(o) == {p \in PVCs : o.pvcSnapshots[p] # 0}

\* What became of the recorded snapshot of claim p.
SnapshotOf(o, p) == snaps[p][o.pvcSnapshots[p]].state

\* The first half of handleSnapshotting: no snapshot is recorded yet.  Creation
\* stops at the first claim it fails for, the quota being one reason; the
\* snapshots made before it, and perhaps its own, stay, unrecorded.
createSnapshotsForUpgrade ==
  LET m == setPhaseStartIfNeeded(mem)
      P == DiscoverPVCs
  IN  /\ At("snapshot") /\ Recorded(mem) = {}
      /\ \/ /\ \E S \in SUBSET P : CanSnapshot(S) /\ CreateSnapshots(S)
            /\ \/ Fail(m, 1)
               \/ ~CanSnapshot(P) /\ Fail(m, 0)
         \/ /\ P = {}
            /\ WriteStatus([m EXCEPT !.snapshotReady = TRUE], "return")
            /\ UNCHANGED <<suspended, snaps, rollbacks, faults>>
         \/ /\ P # {} /\ CanSnapshot(P)
            /\ CreateSnapshots(P)
            /\ WriteStatus([m EXCEPT !.pvcSnapshots =
                              [p \in PVCs |-> IF p \in P THEN Len(snaps[p]) + 1 ELSE 0]],
                           "run")
            /\ UNCHANGED <<suspended, rollbacks, faults>>
      /\ UNCHANGED <<ready, applied, workloadVars, git, app, ask, obj, cache, commits>>

\* The second half of handleSnapshotting: are the recorded snapshots ready?
awaitSnapshots ==
  LET m       == setPhaseStartIfNeeded(mem)
      pending == \E p \in Recorded(mem) : SnapshotOf(mem, p) = "pending"
      lost    == \E p \in Recorded(mem) : SnapshotOf(mem, p) = "deleted"
  IN  /\ At("snapshot") /\ Recorded(mem) # {}
      /\ \/ Fail(m, 1)
         \/ lost /\ Fail(m, 0)
         \/ pending /\ isPhaseTimedOut(m, TimeoutSnapshot) /\ Fail(m, 0)
         \/ /\ pending /\ ~isPhaseTimedOut(m, TimeoutSnapshot)
            /\ Return
            /\ UNCHANGED <<suspended, rollbacks, faults>>
         \/ /\ ~pending /\ ~lost
            /\ WriteStatus([resetPhaseStart(m) EXCEPT !.snapshotReady = TRUE], "return")
            /\ UNCHANGED <<suspended, rollbacks, faults>>
      /\ UNCHANGED <<ready, applied, workloadVars, snaps, git, app, ask, obj, cache,
                     commits>>

\* handleCommitting up to the commit.  Without a target version the handler
\* dereferences nil; the panic is recovered and the reconcile is tried again.
handleCommitting ==
  /\ At("commit")
  /\ \/ Fail(mem, 1)
     \/ VerifyStillSuspended(FALSE) /\ Fail(mem, 0)
     \/ /\ VerifyStillSuspended(TRUE) /\ TargetVersion(cur) = NoVersion
        /\ Return
        /\ UNCHANGED <<suspended, rollbacks, faults>>
     \/ /\ VerifyStillSuspended(TRUE) /\ TargetVersion(cur) # NoVersion
        /\ pc' = "push"
        /\ mem' = [mem EXCEPT !.newVersion = TargetVersion(cur),
                              !.previousVersion = app.current]
        /\ UNCHANGED <<cur, base, then, suspended, rollbacks, faults>>
  /\ UNCHANGED <<ready, applied, workloadVars, snaps, git, app, ask, obj, cache,
                 commits>>

\* Mutant: the version is read again when the commit is recorded.
commitFileRereading ==
  /\ pc = "push"
  /\ git' = mem.newVersion
  /\ commits' = [commits EXCEPT ![cur] = @ \cup {mem.newVersion}]
  /\ WriteStatus([mem EXCEPT !.gitCommitted = TRUE, !.newVersion = TargetVersion(cur)],
                 "return")
  /\ UNCHANGED <<suspended, ready, applied, workloadVars, snaps, app, ask, obj, cache,
                 rollbacks, faults>>

\* The commit itself.  A call that fails may have been carried out.
commitFile ==
  LET undone == [mem EXCEPT !.newVersion = base.newVersion,
                            !.previousVersion = base.previousVersion]
  IN  /\ pc = "push"
      /\ \/ /\ git' = mem.newVersion
            /\ commits' = [commits EXCEPT ![cur] = @ \cup {mem.newVersion}]
            /\ \/ /\ WriteStatus([mem EXCEPT !.gitCommitted = TRUE], "return")
                  /\ UNCHANGED <<suspended, rollbacks, faults>>
               \/ Fail(undone, 1)
         \/ Fail(undone, 1) /\ UNCHANGED <<git, commits>>
      /\ UNCHANGED <<ready, applied, workloadVars, snaps, app, ask, obj, cache>>

handleReconciling ==
  LET t == setPhaseStartIfNeeded(mem)
      m == [t EXCEPT !.suspended = "false"]
      late == isPhaseTimedOut(m, TimeoutReconcile)
  IN  /\ At("reconcile")
      /\ \/ Fail(t, 1)               \* the app or the resume
         \/ setFailed(t, FALSE, 1)   \* the resume, which was carried out
         \/ \E s \in AfterResume : setFailed(m, s, 1)   \* the check
         \/ ~IsReconciled /\ late /\ \E s \in AfterResume : setFailed(m, s, 0)
         \/ /\ ~IsReconciled /\ ~late
            /\ ResumeKustomization
            /\ WriteStatus(m, "return")
            /\ UNCHANGED <<rollbacks, faults>>
         \/ /\ IsReconciled
            /\ ResumeKustomization
            /\ WriteStatus([resetPhaseStart(m) EXCEPT !.reconciled = TRUE], "return")
            /\ UNCHANGED <<rollbacks, faults>>
      /\ UNCHANGED <<ready, applied, workloadVars, snaps, git, app, ask, obj, cache,
                     commits>>

\* While the app is unhealthy the copy, and with it the timer, is not written.
handleHealthChecking ==
  LET m == setPhaseStartIfNeeded(mem)
  IN  /\ At("health")
      /\ \/ Fail(m, 1)
         \/ ~CheckHealth /\ isPhaseTimedOut(m, TimeoutHealthCheck) /\ Fail(m, 0)
         \/ /\ ~CheckHealth /\ ~isPhaseTimedOut(m, TimeoutHealthCheck)
            /\ Return
            /\ UNCHANGED <<suspended, rollbacks, faults>>
         \/ /\ CheckHealth
            /\ WriteStatus([m EXCEPT !.healthy = TRUE], "return")
            /\ UNCHANGED <<suspended, rollbacks, faults>>
      /\ UNCHANGED <<ready, applied, workloadVars, snaps, git, app, ask, obj, cache,
                     commits>>

\* The ManagedApp is updated and old snapshots are pruned; if either fails,
\* the pruning perhaps for some claims only, that is only logged.
handleCompleted ==
  /\ At("done")
  /\ \/ Fail(mem, 1) /\ UNCHANGED <<snaps, app>>
     \/ /\ \E updated, pruned \in BOOLEAN :
             /\ Failing((IF updated THEN 0 ELSE 1) + (IF pruned THEN 0 ELSE 1))
             /\ app' = IF updated
                       THEN [app EXCEPT !.current = mem.newVersion,
                                        !.available = NoVersion]
                       ELSE app
             /\ \E P \in SUBSET PVCs :
                  /\ IF app.spec.snapshots THEN pruned <=> P = PVCs ELSE pruned /\ P = {}
                  /\ ApplyRetentionPolicy(P)
        /\ WriteStatus([mem EXCEPT !.suspended = "false", !.complete = "true"],
                       "finalize")
        /\ UNCHANGED <<suspended, rollbacks>>
  /\ UNCHANGED <<ready, applied, workloadVars, git, ask, obj, cache, commits>>

-----------------------------------------------------------------------------
(* Writes, crashes, deletion, the cache and the clock *)

\* Mutant: a changed object is overwritten.
statusUpdateForced ==
  /\ pc = "update"
  /\ Store(cur, mem)
  /\ \/ then = "return" /\ Return
     \/ then # "return" /\ pc' = then /\ base' = mem /\ UNCHANGED <<cur, mem, then>>
  /\ UNCHANGED <<clusterVars, ask, rollbacks, commits, faults>>

\* Mutant: a reconcile that goes on keeps the object it read before the update.
statusUpdateKeepingBase ==
  /\ pc = "update"
  /\ obj[cur] = base /\ Store(cur, mem)
  /\ \/ then = "return" /\ Return
     \/ then # "return" /\ pc' = then /\ UNCHANGED <<cur, base, mem, then>>
  /\ UNCHANGED <<clusterVars, ask, rollbacks, commits, faults>>

\* Every handler's Status().Update: the server refuses it if the object changed
\* since it was read, and the handler then returns the error.
statusUpdate ==
  /\ pc = "update"
  /\ \/ /\ obj[cur] = base
        /\ Store(cur, mem)
        /\ \/ then = "return" /\ Return
           \/ /\ then # "return"
              /\ pc' = then /\ base' = mem /\ UNCHANGED <<cur, mem, then>>
     \/ obj[cur] # base /\ Return /\ UNCHANGED <<obj, cache>>
  /\ UNCHANGED <<clusterVars, ask, rollbacks, commits, faults>>

removeFinalizer ==
  /\ pc = "finalize"
  /\ \/ obj[cur] = base /\ Store(cur, [mem EXCEPT !.finalizer = FALSE])
     \/ obj[cur] # base /\ UNCHANGED <<obj, cache>>
  /\ Return
  /\ UNCHANGED <<clusterVars, ask, rollbacks, commits, faults>>

WorkerStep ==
  \/ handleSuspend \/ handleScaleDown \/ checkScaledDown
  \/ createSnapshotsForUpgrade \/ awaitSnapshots
  \/ handleCommitting \/ commitFile
  \/ handleReconciling \/ handleHealthChecking \/ handleCompleted
  \/ statusUpdate \/ removeFinalizer

\* The controller restarts, or a write fails: the reconcile starts over.
Crash ==
  /\ pc # "idle" /\ Failing(1) /\ Return
  /\ UNCHANGED <<clusterVars, ask, obj, cache, rollbacks, commits>>

\* Someone deletes the request; a finalizer delays that.
Delete(r) ==
  /\ "delete" \in Disturbances /\ obj[r].life = "live"
  /\ Store(r, [obj[r] EXCEPT !.life = IF obj[r].finalizer THEN "deleting" ELSE "gone"])
  /\ UNCHANGED <<clusterVars, ask, workerVars, rollbacks, commits, faults>>

\* The watch delivers the stored object to the cache.
Sync(r) ==
  /\ cache[r] # obj[r]
  /\ cache' = [cache EXCEPT ![r] = obj[r]]
  /\ UNCHANGED <<clusterVars, ask, obj, workerVars, rollbacks, commits, faults>>

Tick ==
  /\ obj' = [r \in Requests |-> Older(obj[r])]
  /\ cache' = [r \in Requests |-> Older(cache[r])]
  /\ base' = Older(base) /\ mem' = Older(mem)
  /\ UNCHANGED <<clusterVars, ask, pc, cur, then, rollbacks, commits, faults>>

Next ==
  \/ \E r \in Requests : Reconcile(r)
  \/ WorkerStep
  \/ Crash
  \/ \E r \in Requests : Delete(r)
  \/ \E r \in Requests : Sync(r)
  \/ Tick
  \/ ClusterNext /\ UNCHANGED <<ask, obj, cache, workerVars, rollbacks, commits, faults>>

Spec == Init /\ [][Next]_vars

-----------------------------------------------------------------------------
(* Fairness.  The work queue hands every request that is not finished to the  *)
(* worker again and again (requeues, backoff, resync), so Reconcile is        *)
(* strongly fair; a handler runs to its end; the watch delivers; time passes. *)
(* Nothing is assumed of Flux, the kubelet or the CSI driver.                 *)

FairSpec ==
  /\ Spec
  /\ \A r \in Requests : SF_vars(Reconcile(r)) /\ WF_vars(Sync(r))
  /\ WF_vars(WorkerStep) /\ WF_vars(Tick)

-----------------------------------------------------------------------------
(* Properties *)

\* A request that takes snapshots commits to Git only after it has recorded a
\* snapshot of every claim of the app that became ready (handleSnapshotting
\* before handleCommitting).
SnapshotsPrecedeCommit ==
  \A r \in Requests :
    commits[r] # {} /\ SnapshotsEnabled(r) =>
      \A p \in PVCs : /\ obj[r].pvcSnapshots[p] # 0
                      /\ SnapshotOf(obj[r], p) # "pending"

\* The snapshots recorded by a request that committed are consistent: from
\* their creation until they were ready no pod had the claim mounted
\* (handleScaleDown, and the suspension that keeps Flux from scaling up again).
SnapshotsConsistent ==
  \A r \in Requests : commits[r] # {} =>
    \A p \in Recorded(obj[r]) : snaps[p][obj[r].pvcSnapshots[p]].quiet

\* Whenever the controller calls CommitFile, for the first time or again after a
\* crash or a lost write, the Kustomization is suspended, though the check and the
\* commit are two calls (handleCommitting, VerifyStillSuspended).
CommitWhileSuspended ==
  [][(pc = "push" /\ pc' = "update") \/ git' # git => suspended]_vars

\* A change from o to q that leaves the conditions and the status alone.
Touched(o, q) ==
  q = [o EXCEPT !.life = q.life, !.finalizer = q.finalizer, !.phaseAge = q.phaseAge]

\* Once Complete is written, no later reconcile, whatever it read from a stale
\* cache, changes the conditions or the recorded status of the request.
TerminalStable ==
  [][\A r \in Requests : Terminal(obj[r]) => Touched(obj[r], obj'[r])]_vars

\* No other request of the app has committed.
Alone(r) == \A q \in Requests \ {r} : commits[q] = {}

\* A request that has recorded its commit recorded the version that is in Git,
\* as long as no other request commits, although a lost status update makes it
\* commit again, and the available update may have changed in between
\* (handleCommitting).
GitHoldsRecordedVersion ==
  \A r \in Requests : obj[r].gitCommitted /\ Alone(r) => git = obj[r].newVersion

\* The stage that the conditions of an object stand for.
Stage(o) ==
  IF o.complete = "true" THEN "succeeded"
  ELSE IF o.complete = "absent" THEN Phase(o)
  ELSE IF o.gitCommitted THEN "rollbackRequired" ELSE "failed"

\* The stored objects follow the life cycle that UpgradeLifecycle promises:
\* phases in order, one per write, terminal stages final, and a failure is
\* one that needs a rollback just when the commit was recorded.
Lifecycle == INSTANCE UpgradeLifecycle
               WITH stage <- [r \in Requests |-> Stage(obj[r])]

FollowsLifecycle == Lifecycle!Spec

\* The conditions of an object are set in the order of the phases.
Ordered(o) ==
  /\ o.suspended = "absent" => ~o.workloadStopped /\ ~o.snapshotReady
  /\ o.gitCommitted => o.workloadStopped /\ o.snapshotReady
  /\ o.reconciled => o.gitCommitted
  /\ o.healthy => o.reconciled
  /\ o.complete = "true" => o.healthy

\* Whatever the worker read, from however stale a cache, the copy it is about
\* to write is of a request that had not ended and is at most one stage ahead
\* of what it read; when it pushes, it holds a version to push.
OneStageAhead ==
  /\ \A r \in Requests : Ordered(obj[r]) /\ Ordered(cache[r])
  /\ Ordered(base) /\ Ordered(mem)
  /\ pc = "run" => mem = base /\ ~Terminal(base)
  /\ pc = "scaled" => Stage(base) = "scaleDown" /\ Stage(mem) = "scaleDown"
  /\ pc = "push" => /\ Stage(base) = "commit" /\ Stage(mem) = "commit"
                    /\ mem.newVersion \in Versions
  /\ pc = "update" =>
       /\ ~Terminal(base)
       /\ Stage(mem) \in {Stage(base)} \cup Lifecycle!Successors(Stage(base))
       /\ then = "run" => ~Terminal(mem)
  /\ pc = "finalize" => mem = base

\* Every request ends, is deleted, or is left waiting for the app to become
\* healthy: the other phases have timers that are persisted (isPhaseTimedOut).
EndsOrAwaitsHealth ==
  \A r \in Requests :
    <>(Terminal(obj[r]) \/ obj[r].life = "gone" \/ Phase(obj[r]) = "health")

\* Every request ends: each phase has a timeout.
EveryRequestEnds == \A r \in Requests : <>Terminal(obj[r])

\* A completed upgrade is one that Flux has applied (handleReconciling waits
\* for Flux to reconcile the commit).
CompletedIsApplied ==
  \A r \in Requests : obj[r].complete = "true" => applied = obj[r].newVersion

\* A request under way is not deleted before it ends (the finalizer).
DeletionWaitsForEnd ==
  \A r \in Requests :
    obj[r].life = "gone" /\ obj[r].suspended # "absent" => Terminal(obj[r])

\* A request that failed without a recorded commit has changed nothing in Git
\* (setFailed, which takes GitCommitted for the truth).
EarlyFailureLeavesGit ==
  \A r \in Requests :
    obj[r].complete = "false" /\ ~obj[r].gitCommitted => commits[r] = {}

\* When every request has ended and none of them failed after its commit, the
\* Kustomization is not left suspended, as long as no call has failed and the
\* controller has not crashed (setFailed, handleReconciling).
EndedIsResumed ==
  /\ faults = 0
  /\ \A r \in Requests :
       Terminal(obj[r]) /\ ~(obj[r].complete = "false" /\ obj[r].gitCommitted)
  => ~suspended
=============================================================================
