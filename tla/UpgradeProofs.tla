--------------------------- MODULE UpgradeProofs ---------------------------
(***************************************************************************)
(* Proofs about module Upgrade, for any number of requests, workloads,     *)
(* claims and versions, any timeouts, any bound on faults and whatever     *)
(* disturbances.                                                           *)
(***************************************************************************)
EXTENDS Upgrade, ClusterProofs

-----------------------------------------------------------------------------
(* Operators on objects *)

\* Starting, resetting and ageing the phase timer gives an object again.
LEMMA TimerType ==
  ASSUME NEW o \in Object
  PROVE  /\ setPhaseStartIfNeeded(o) \in Object
         /\ resetPhaseStart(o) \in Object
         /\ Older(o) \in Object
  BY UpgradeAssumption
     DEF Object, NoTimer, setPhaseStartIfNeeded, resetPhaseStart, Older

\* A condition that is set gives an object again.
LEMMA ConditionType ==
  ASSUME NEW o \in Object
  PROVE  /\ [o EXCEPT !.workloadStopped = TRUE] \in Object
         /\ [o EXCEPT !.snapshotReady = TRUE] \in Object
         /\ [o EXCEPT !.gitCommitted = TRUE] \in Object
         /\ [o EXCEPT !.reconciled = TRUE] \in Object
         /\ [o EXCEPT !.healthy = TRUE] \in Object
         /\ [o EXCEPT !.suspended = "false"] \in Object
         /\ [o EXCEPT !.suspended = "false", !.complete = "true"] \in Object
  BY DEF Object, Tristate

\* A request that no reconcile has touched is an object.
LEMMA NewObjectType == NewObject \in Object
  BY UpgradeAssumption, ClusterAssumption DEF NewObject, Object, NoTimer, Tristate

\* What setFailed does to the worker's variables and to the cluster.
LEMMA SetFailedType ==
  ASSUME TypeOK, pc # "idle", NEW m \in Object, NEW s \in BOOLEAN, NEW n \in Nat,
         setFailed(m, s, n)
  PROVE  /\ suspended' \in BOOLEAN
         /\ rollbacks' \in [Requests -> 0..MaxRollbacks]
         /\ faults' \in 0..MaxFaults
         /\ pc' = "update" /\ then' = "finalize" /\ cur' = cur /\ base' = base
         /\ mem' \in Object
<1>1. [m EXCEPT !.complete = "false"] \in Object
  BY DEF Object, Tristate
<1>2. [[m EXCEPT !.complete = "false"] EXCEPT !.suspended = "false"] \in Object
  BY DEF Object, Tristate
<1>3. cur \in Requests
  BY DEF TypeOK
<1>4. ASSUME NEW k \in Nat, Failing(k) PROVE faults' \in 0..MaxFaults
  BY <1>4, UpgradeAssumption DEF TypeOK, Failing
<1>5. ASSUME createAutoRollback PROVE rollbacks' \in [Requests -> 0..MaxRollbacks]
  BY <1>5, <1>3, UpgradeAssumption DEF TypeOK, createAutoRollback
<1>6. n + 1 \in Nat
  OBVIOUS
<1>7. faults' \in 0..MaxFaults
  BY <1>4, <1>6 DEF setFailed
<1>8. rollbacks' \in [Requests -> 0..MaxRollbacks]
  BY <1>5 DEF setFailed, TypeOK
<1>9. suspended \in BOOLEAN
  BY DEF TypeOK, ClusterTypeOK
<1>10. suspended' \in BOOLEAN
  BY <1>9, ResumeFlag DEF setFailed, ResumeKustomization
<1> QED
  BY <1>1, <1>2, <1>7, <1>8, <1>10 DEF setFailed, WriteStatus

\* Return and WriteStatus leave the worker well typed.
LEMMA ReturnType ==
  ASSUME Return
  PROVE  pc' = "idle" /\ cur' = None /\ base' \in Object /\ mem' \in Object
         /\ then' = "return"
  BY NewObjectType DEF Return

\* A write keeps the stored and the cached objects well typed.
LEMMA StoreType ==
  ASSUME TypeOK, NEW r \in Requests, NEW o \in Object, Store(r, o)
  PROVE  obj' \in [Requests -> Object] /\ cache' \in [Requests -> Object]
  BY DEF TypeOK, Store

-----------------------------------------------------------------------------
(* Type correctness, one lemma per action *)

\* The choice of the handler, and the writes of the finalizer.
LEMMA ReconcileType ==
  ASSUME TypeOK, NEW r \in Requests, Reconcile(r)
  PROVE  TypeOK'
<1>1. obj[r] \in Object /\ cache[r] \in Object /\ r # None
  BY UpgradeAssumption DEF TypeOK
<1>2. [obj[r] EXCEPT !.finalizer = FALSE, !.life = "gone"] \in Object
  BY <1>1 DEF Object
<1>3. [obj[r] EXCEPT !.finalizer = TRUE] \in Object
  BY <1>1 DEF Object
<1>4. obj' \in [Requests -> Object] /\ cache' \in [Requests -> Object]
  BY <1>2, <1>3, StoreType DEF Reconcile, TypeOK
<1>5. ClusterTypeOK'
  BY DEF TypeOK, ClusterTypeOK, Reconcile, clusterVars
<1> QED
  BY <1>1, <1>4, <1>5 DEF TypeOK, Reconcile, workerVars

\* Validation and suspension.
LEMMA SuspendType ==
  ASSUME TypeOK, handleSuspend
  PROVE  TypeOK'
<1> DEFINE m == [mem EXCEPT !.suspended = "true",
                            !.snapshotReady = @ \/ ~SnapshotsEnabled(cur)]
<1>1. m \in Object
  BY DEF TypeOK, Object, Tristate, SnapshotsEnabled
<1>2. pc = "run" /\ mem \in Object /\ suspended \in BOOLEAN
  BY DEF handleSuspend, At, TypeOK, ClusterTypeOK
<1>3. /\ suspended' \in BOOLEAN
      /\ rollbacks' \in [Requests -> 0..MaxRollbacks]
      /\ faults' \in 0..MaxFaults
      /\ pc' = "update" /\ then' \in {"return", "finalize"}
      /\ cur' = cur /\ base' = base /\ mem' \in Object
  BY <1>1, <1>2, SetFailedType
     DEF handleSuspend, Fail, WriteStatus, TypeOK, SuspendKustomization
<1> QED
  BY <1>2, <1>3 DEF handleSuspend, TypeOK, ClusterTypeOK, workloadVars

\* Scaling the discovered workloads down.
LEMMA ScaleDownType ==
  ASSUME TypeOK, handleScaleDown
  PROVE  TypeOK'
<1> DEFINE m == setPhaseStartIfNeeded(mem)
           W == IF SnapshotsEnabled(cur) THEN DiscoverWorkloads ELSE {}
<1>1. W \in SUBSET Workloads
  BY DEF DiscoverWorkloads, Running
<1>2. pc = "run" /\ mem \in Object /\ suspended \in BOOLEAN /\ m \in Object
  BY TimerType DEF handleScaleDown, At, TypeOK, ClusterTypeOK
<1>3. /\ [m EXCEPT !.workloadStopped = TRUE] \in Object
      /\ [m EXCEPT !.scaling = W] \in Object
  BY <1>1, <1>2 DEF Object
<1>4. /\ suspended' \in BOOLEAN
      /\ rollbacks' \in [Requests -> 0..MaxRollbacks]
      /\ faults' \in 0..MaxFaults
      /\ pc' \in {"update", "scaled"} /\ then' \in {"return", "run", "finalize"}
      /\ cur' = cur /\ base' = base /\ mem' \in Object
  BY <1>2, <1>3, SetFailedType DEF handleScaleDown, Fail, WriteStatus, TypeOK
<1>5. replicas' \in SUBSET Workloads
  BY DEF handleScaleDown, TypeOK, ClusterTypeOK, ScaleDown
<1> QED
  BY <1>2, <1>4, <1>5 DEF handleScaleDown, TypeOK, ClusterTypeOK

\* Waiting for the pods to go.
LEMMA CheckScaledDownType ==
  ASSUME TypeOK, checkScaledDown
  PROVE  TypeOK'
<1>1. pc = "scaled" /\ mem \in Object /\ suspended \in BOOLEAN
  BY DEF checkScaledDown, TypeOK, ClusterTypeOK
<1>2. [resetPhaseStart(mem) EXCEPT !.workloadStopped = TRUE] \in Object
  BY <1>1, TimerType, ConditionType
<1>3. /\ suspended' \in BOOLEAN
      /\ rollbacks' \in [Requests -> 0..MaxRollbacks]
      /\ faults' \in 0..MaxFaults
      /\ pc' = "update" /\ then' \in {"return", "finalize"}
      /\ cur' = cur /\ base' = base /\ mem' \in Object
  BY <1>1, <1>2, SetFailedType DEF checkScaledDown, Fail, WriteStatus, TypeOK
<1> QED
  BY <1>1, <1>3 DEF checkScaledDown, TypeOK, ClusterTypeOK, workloadVars

\* Creating the snapshots: the quota keeps the recorded indices in range.
LEMMA CreateType ==
  ASSUME TypeOK, createSnapshotsForUpgrade
  PROVE  TypeOK'
<1> DEFINE m == setPhaseStartIfNeeded(mem)
           P == DiscoverPVCs
           recorded == [p \in PVCs |-> IF p \in P THEN Len(snaps[p]) + 1 ELSE 0]
<1>1. pc = "run" /\ mem \in Object /\ suspended \in BOOLEAN /\ m \in Object
  BY TimerType DEF createSnapshotsForUpgrade, At, TypeOK, ClusterTypeOK
<1>2. \A p \in PVCs : Len(snaps[p]) \in Nat
  BY DEF TypeOK, ClusterTypeOK
<1>3. ASSUME CanSnapshot(P) PROVE [m EXCEPT !.pvcSnapshots = recorded] \in Object
  <2>1. recorded \in [PVCs -> 0..MaxSnaps]
    BY <1>2, <1>3, ClusterAssumption DEF CanSnapshot
  <2> HIDE DEF m, recorded
  <2> QED
    BY <1>1, <2>1 DEF Object
<1>4. [m EXCEPT !.snapshotReady = TRUE] \in Object
  BY <1>1 DEF Object
<1>5. snaps' \in [PVCs -> Seq(Snapshot)]
  BY CreateSnapshotsType DEF createSnapshotsForUpgrade, TypeOK, ClusterTypeOK
<1>6. /\ suspended' \in BOOLEAN
      /\ rollbacks' \in [Requests -> 0..MaxRollbacks]
      /\ faults' \in 0..MaxFaults
      /\ pc' = "update" /\ then' \in {"return", "run", "finalize"}
      /\ cur' = cur /\ base' = base /\ mem' \in Object
  BY <1>1, <1>3, <1>4, SetFailedType
     DEF createSnapshotsForUpgrade, Fail, WriteStatus, TypeOK
<1> QED
  BY <1>1, <1>5, <1>6
     DEF createSnapshotsForUpgrade, TypeOK, ClusterTypeOK, workloadVars

\* The worker's variables after a step of a handler.
WorkerType ==
  /\ pc \in {"idle", "run", "scaled", "push", "update", "finalize"}
  /\ cur \in Requests \cup {None} /\ (pc # "idle" => cur # None)
  /\ base \in Object /\ mem \in Object
  /\ then \in {"return", "run", "finalize"}

\* What a handler that reaches neither the objects nor the workloads changes.
HandlerType ==
  /\ suspended \in BOOLEAN
  /\ rollbacks \in [Requests -> 0..MaxRollbacks]
  /\ faults \in 0..MaxFaults
  /\ WorkerType

\* A handler that ends in setFailed.
LEMMA FailHandlerType ==
  ASSUME TypeOK, pc # "idle", NEW m \in Object, NEW s \in BOOLEAN, NEW n \in Nat,
         setFailed(m, s, n)
  PROVE  HandlerType'
  BY SetFailedType DEF HandlerType, WorkerType, TypeOK

\* A handler that returns without a write.
LEMMA ReturnHandlerType ==
  ASSUME TypeOK, Return, UNCHANGED rollbacks, faults' \in 0..MaxFaults,
         suspended' \in BOOLEAN
  PROVE  HandlerType'
  BY ReturnType DEF HandlerType, WorkerType, TypeOK

\* A handler that ends in Status().Update.
LEMMA WriteHandlerType ==
  ASSUME TypeOK, pc # "idle", NEW m \in Object, NEW t \in {"return", "run", "finalize"},
         WriteStatus(m, t), UNCHANGED rollbacks, faults' \in 0..MaxFaults,
         suspended' \in BOOLEAN
  PROVE  HandlerType'
  BY DEF HandlerType, WorkerType, TypeOK, WriteStatus

\* Waiting for the snapshots.
LEMMA AwaitType ==
  ASSUME TypeOK, awaitSnapshots
  PROVE  TypeOK'
<1> DEFINE m == setPhaseStartIfNeeded(mem)
<1>1. /\ pc = "run" /\ mem \in Object /\ suspended \in BOOLEAN /\ m \in Object
      /\ faults \in 0..MaxFaults
  BY TimerType DEF awaitSnapshots, At, TypeOK, ClusterTypeOK
<1> HIDE DEF m
<1>2. [resetPhaseStart(m) EXCEPT !.snapshotReady = TRUE] \in Object
  BY <1>1, TimerType, ConditionType
<1>3. HandlerType'
  <2>1. CASE Fail(m, 1)
    BY <2>1, <1>1, FailHandlerType DEF Fail
  <2>2. CASE Fail(m, 0)
    BY <2>2, <1>1, FailHandlerType DEF Fail
  <2>3. CASE Return /\ UNCHANGED <<suspended, rollbacks, faults>>
    BY <2>3, <1>1, ReturnHandlerType
  <2>4. CASE /\ WriteStatus([resetPhaseStart(m) EXCEPT !.snapshotReady = TRUE], "return")
             /\ UNCHANGED <<suspended, rollbacks, faults>>
    BY <2>4, <1>1, <1>2, WriteHandlerType
  <2> QED
    BY <2>1, <2>2, <2>3, <2>4 DEF awaitSnapshots, m
<1> QED
  BY <1>3 DEF awaitSnapshots, TypeOK, ClusterTypeOK, workloadVars, HandlerType, WorkerType

\* The check before the commit.
LEMMA CommittingType ==
  ASSUME TypeOK, handleCommitting
  PROVE  TypeOK'
<1> DEFINE m == [mem EXCEPT !.newVersion = TargetVersion(cur),
                            !.previousVersion = app.current]
<1>1. /\ pc = "run" /\ mem \in Object /\ suspended \in BOOLEAN
      /\ faults \in 0..MaxFaults
      /\ rollbacks \in [Requests -> 0..MaxRollbacks]
  BY DEF handleCommitting, At, TypeOK, ClusterTypeOK
<1>2. TargetVersion(cur) \in Versions \cup {NoVersion} /\ app.current \in Versions \cup {NoVersion}
  <2>1. cur \in Requests /\ ask \in [Requests -> RequestSpecs]
    BY <1>1 DEF TypeOK
  <2>2. ask[cur] \in RequestSpec
    BY <2>1, UpgradeAssumption
  <2> QED
    BY <2>2 DEF RequestSpec, TargetVersion, TypeOK, ClusterTypeOK
<1>3. m \in Object
  BY <1>1, <1>2 DEF Object
<1> HIDE DEF m
<1>4. HandlerType'
  <2>1. CASE Fail(mem, 1)
    BY <2>1, <1>1, FailHandlerType DEF Fail
  <2>2. CASE Fail(mem, 0)
    BY <2>2, <1>1, FailHandlerType DEF Fail
  <2>3. CASE Return /\ UNCHANGED <<suspended, rollbacks, faults>>
    BY <2>3, <1>1, ReturnHandlerType
  <2>4. CASE pc' = "push" /\ mem' = m /\ UNCHANGED <<cur, base, then, suspended, rollbacks, faults>>
    BY <2>4, <1>1, <1>3 DEF HandlerType, WorkerType, TypeOK
  <2> QED
    BY <2>1, <2>2, <2>3, <2>4 DEF handleCommitting, m
<1> QED
  BY <1>4 DEF handleCommitting, TypeOK, ClusterTypeOK, workloadVars, HandlerType, WorkerType

\* The commit puts a version into Git, provided the worker holds one.
LEMMA CommitType ==
  ASSUME TypeOK, mem.newVersion \in Versions, commitFile
  PROVE  TypeOK'
<1> DEFINE undone == [mem EXCEPT !.newVersion = base.newVersion,
                                 !.previousVersion = base.previousVersion]
           done   == [mem EXCEPT !.gitCommitted = TRUE]
<1>1. /\ pc = "push" /\ mem \in Object /\ base \in Object /\ suspended \in BOOLEAN
      /\ faults \in 0..MaxFaults /\ cur \in Requests
  BY DEF commitFile, TypeOK, ClusterTypeOK
<1>2. undone \in Object /\ done \in Object
  BY <1>1 DEF Object
<1>3. git' \in Versions /\ commits' \in [Requests -> SUBSET Versions]
  <2>1. \/ /\ git' = mem.newVersion
           /\ commits' = [commits EXCEPT ![cur] = commits[cur] \cup {mem.newVersion}]
        \/ UNCHANGED <<git, commits>>
    BY Zenon DEF commitFile
  <2>2. git \in Versions /\ commits \in [Requests -> SUBSET Versions]
    BY DEF TypeOK, ClusterTypeOK
  <2>3. commits[cur] \cup {mem.newVersion} \in SUBSET Versions
    BY <1>1, <2>2
  <2> QED
    BY <2>1, <2>2, <2>3
<1> HIDE DEF undone, done
<1>4. HandlerType'
  <2>1. CASE Fail(undone, 1)
    BY <2>1, <1>1, <1>2, FailHandlerType DEF Fail
  <2>2. CASE WriteStatus(done, "return") /\ UNCHANGED <<suspended, rollbacks, faults>>
    BY <2>2, <1>1, <1>2, WriteHandlerType
  <2> QED
    BY <2>1, <2>2 DEF commitFile, undone, done
<1> QED
  BY <1>3, <1>4 DEF commitFile, TypeOK, ClusterTypeOK, workloadVars, HandlerType, WorkerType

\* Resuming, and waiting for Flux.
LEMMA ReconcilingType ==
  ASSUME TypeOK, handleReconciling
  PROVE  TypeOK'
<1> DEFINE t == setPhaseStartIfNeeded(mem)
           m == [t EXCEPT !.suspended = "false"]
           done == [resetPhaseStart(m) EXCEPT !.reconciled = TRUE]
<1>1. /\ pc = "run" /\ suspended \in BOOLEAN /\ t \in Object
      /\ faults \in 0..MaxFaults
  BY TimerType DEF handleReconciling, At, TypeOK, ClusterTypeOK
<1> HIDE DEF t
<1>2. m \in Object
  BY <1>1, ConditionType
<1> HIDE DEF m
<1>3. done \in Object
  BY <1>2, TimerType, ConditionType
<1> HIDE DEF done
<1>4. HandlerType'
  <2>1. CASE Fail(t, 1)
    BY <2>1, <1>1, FailHandlerType DEF Fail
  <2>2. CASE \/ setFailed(t, FALSE, 1)
            \/ \E s \in AfterResume : setFailed(m, s, 1) \/ setFailed(m, s, 0)
    BY <2>2, <1>1, <1>2, ResumeFlag, FailHandlerType
  <2>3. CASE ResumeKustomization /\ WriteStatus(m, "return") /\ UNCHANGED <<rollbacks, faults>>
    BY <2>3, <1>1, <1>2, ResumeFlag, WriteHandlerType DEF ResumeKustomization
  <2>4. CASE ResumeKustomization /\ WriteStatus(done, "return") /\ UNCHANGED <<rollbacks, faults>>
    BY <2>4, <1>1, <1>3, ResumeFlag, WriteHandlerType DEF ResumeKustomization
  <2> QED
    BY <2>1, <2>2, <2>3, <2>4 DEF handleReconciling, t, m, done
<1> QED
  BY <1>4 DEF handleReconciling, TypeOK, ClusterTypeOK, workloadVars, HandlerType, WorkerType

\* Waiting for the app to be healthy.
LEMMA HealthCheckingType ==
  ASSUME TypeOK, handleHealthChecking
  PROVE  TypeOK'
<1> DEFINE m == setPhaseStartIfNeeded(mem)
           done == [m EXCEPT !.healthy = TRUE]
<1>1. /\ pc = "run" /\ suspended \in BOOLEAN /\ m \in Object
      /\ faults \in 0..MaxFaults
  BY TimerType DEF handleHealthChecking, At, TypeOK, ClusterTypeOK
<1> HIDE DEF m
<1>2. done \in Object
  BY <1>1, ConditionType
<1> HIDE DEF done
<1>3. HandlerType'
  <2>1. CASE Fail(m, 1)
    BY <2>1, <1>1, FailHandlerType DEF Fail
  <2>2. CASE Fail(m, 0)
    BY <2>2, <1>1, FailHandlerType DEF Fail
  <2>3. CASE Return /\ UNCHANGED <<suspended, rollbacks, faults>>
    BY <2>3, <1>1, ReturnHandlerType
  <2>4. CASE WriteStatus(done, "return") /\ UNCHANGED <<suspended, rollbacks, faults>>
    BY <2>4, <1>1, <1>2, WriteHandlerType
  <2> QED
    BY <2>1, <2>2, <2>3, <2>4 DEF handleHealthChecking, m, done
<1> QED
  BY <1>3 DEF handleHealthChecking, TypeOK, ClusterTypeOK, workloadVars, HandlerType, WorkerType

\* Completion: the ManagedApp's version and the retention.
LEMMA CompletedType ==
  ASSUME TypeOK, handleCompleted
  PROVE  TypeOK'
<1> DEFINE done == [mem EXCEPT !.suspended = "false", !.complete = "true"]
<1>1. /\ pc = "run" /\ suspended \in BOOLEAN /\ mem \in Object
      /\ faults \in 0..MaxFaults
  BY DEF handleCompleted, At, TypeOK, ClusterTypeOK
<1>2. done \in Object
  BY <1>1, ConditionType
<1>3. snaps' \in [PVCs -> Seq(Snapshot)]
  BY PrunedType DEF handleCompleted, TypeOK, ClusterTypeOK, ApplyRetentionPolicy
<1>4. app' \in [spec : AppSpecs, current : Versions \cup {NoVersion},
                available : Versions \cup {NoVersion}]
  <2>1. mem.newVersion \in Versions \cup {NoVersion}
    BY <1>1 DEF Object
  <2> QED
    BY <2>1 DEF handleCompleted, TypeOK, ClusterTypeOK
<1> HIDE DEF done
<1>5. HandlerType'
  <2>1. CASE Fail(mem, 1)
    BY <2>1, <1>1, FailHandlerType DEF Fail
  <2>2. CASE /\ \E updated, pruned \in BOOLEAN :
                  Failing((IF updated THEN 0 ELSE 1) + (IF pruned THEN 0 ELSE 1))
             /\ WriteStatus(done, "finalize") /\ UNCHANGED <<suspended, rollbacks>>
    <3>1. faults' \in 0..MaxFaults
      BY <2>2, <1>1, UpgradeAssumption DEF Failing
    <3> QED
      BY <2>2, <3>1, <1>1, <1>2, WriteHandlerType
  <2> QED
    BY <2>1, <2>2 DEF handleCompleted, done
<1> QED
  BY <1>3, <1>4, <1>5
     DEF handleCompleted, TypeOK, ClusterTypeOK, workloadVars, HandlerType, WorkerType

\* Status().Update.
LEMMA UpdateType ==
  ASSUME TypeOK, statusUpdate
  PROVE  TypeOK'
<1>1. pc = "update" /\ cur \in Requests /\ mem \in Object
  BY DEF statusUpdate, TypeOK
<1>2. obj' \in [Requests -> Object] /\ cache' \in [Requests -> Object]
  BY <1>1, StoreType DEF statusUpdate, TypeOK
<1>3. WorkerType'
  BY <1>1, ReturnType DEF statusUpdate, TypeOK, WorkerType
<1>4. ClusterTypeOK'
  BY DEF statusUpdate, TypeOK, ClusterTypeOK, clusterVars
<1> QED
  BY <1>2, <1>3, <1>4 DEF statusUpdate, TypeOK, WorkerType

\* The removal of the finalizer.
LEMMA FinalizeType ==
  ASSUME TypeOK, removeFinalizer
  PROVE  TypeOK'
<1>1. cur \in Requests /\ [mem EXCEPT !.finalizer = FALSE] \in Object
  BY DEF removeFinalizer, TypeOK, Object
<1>2. obj' \in [Requests -> Object] /\ cache' \in [Requests -> Object]
  BY <1>1, StoreType DEF removeFinalizer, TypeOK
<1>3. ClusterTypeOK'
  BY DEF removeFinalizer, TypeOK, ClusterTypeOK, clusterVars
<1> QED
  BY <1>2, <1>3, ReturnType DEF removeFinalizer, TypeOK

\* A crash empties the worker.
LEMMA CrashType ==
  ASSUME TypeOK, Crash
  PROVE  TypeOK'
<1>1. ClusterTypeOK'
  BY DEF Crash, TypeOK, ClusterTypeOK, clusterVars
<1>2. faults' \in 0..MaxFaults
  BY UpgradeAssumption DEF Crash, Failing, TypeOK
<1> QED
  BY <1>1, <1>2, ReturnType DEF Crash, TypeOK

\* A deletion of a request.
LEMMA DeleteType ==
  ASSUME TypeOK, NEW r \in Requests, Delete(r)
  PROVE  TypeOK'
<1> DEFINE l == IF obj[r].finalizer THEN "deleting" ELSE "gone"
<1>1. [obj[r] EXCEPT !.life = l] \in Object
  <2>1. obj[r] \in Object
    BY DEF TypeOK
  <2>2. l \in {"live", "deleting", "gone"}
    OBVIOUS
  <2> HIDE DEF l
  <2> QED
    BY <2>1, <2>2 DEF Object
<1>2. obj' \in [Requests -> Object] /\ cache' \in [Requests -> Object]
  BY <1>1, StoreType DEF Delete
<1>3. ClusterTypeOK'
  BY DEF Delete, TypeOK, ClusterTypeOK, clusterVars
<1> QED
  BY <1>2, <1>3 DEF Delete, TypeOK, workerVars

\* A delivery to the cache.
LEMMA SyncType ==
  ASSUME TypeOK, NEW r \in Requests, Sync(r)
  PROVE  TypeOK'
<1>1. ClusterTypeOK'
  BY DEF Sync, TypeOK, ClusterTypeOK, clusterVars
<1> QED
  BY <1>1 DEF Sync, TypeOK, workerVars

\* The clock.
LEMMA TickType ==
  ASSUME TypeOK, Tick
  PROVE  TypeOK'
<1>1. ClusterTypeOK'
  BY DEF Tick, TypeOK, ClusterTypeOK, clusterVars
<1>2. /\ obj' \in [Requests -> Object] /\ cache' \in [Requests -> Object]
      /\ base' \in Object /\ mem' \in Object
  BY TimerType DEF Tick, TypeOK
<1> QED
  BY <1>1, <1>2 DEF Tick, TypeOK

-----------------------------------------------------------------------------
(* The other actors *)

-----------------------------------------------------------------------------
(* The inductive invariant.  TypeOK is not inductive by itself: commitFile   *)
(* puts mem.newVersion into Git, which only OneStageAhead says is a version. *)

IInv == TypeOK /\ OneStageAhead

\* The phase timer has no part in the stage.
LEMMA TimerStage ==
  ASSUME NEW o \in Object
  PROVE  /\ Stage(setPhaseStartIfNeeded(o)) = Stage(o)
         /\ Stage(resetPhaseStart(o)) = Stage(o)
         /\ Stage(Older(o)) = Stage(o)
         /\ Ordered(o) => /\ Ordered(setPhaseStartIfNeeded(o))
                          /\ Ordered(resetPhaseStart(o))
                          /\ Ordered(Older(o))
         /\ Terminal(Older(o)) <=> Terminal(o)
         /\ Older(o).newVersion = o.newVersion
         /\ setPhaseStartIfNeeded(o).newVersion = o.newVersion
  BY DEF Object, NoTimer, setPhaseStartIfNeeded, resetPhaseStart, Older, Stage,
         Phase, Ordered, Terminal

\* An object is not terminal just when its stage is a phase.
LEMMA PhaseStage ==
  ASSUME NEW o \in Object, ~Terminal(o)
  PROVE  Stage(o) = Phase(o)
  BY DEF Terminal, Stage

\* Failing is a move of the life cycle: to "failed" before the commit and to
\* "rollbackRequired" after it.
LEMMA FailStage ==
  ASSUME NEW o \in Object, ~Terminal(o), Ordered(o)
  PROVE  /\ Stage([o EXCEPT !.complete = "false"]) \in Lifecycle!Successors(Stage(o))
         /\ Ordered([o EXCEPT !.complete = "false"])
         /\ o.suspended = "true" =>
              /\ Stage([[o EXCEPT !.complete = "false"] EXCEPT !.suspended = "false"])
                   \in Lifecycle!Successors(Stage(o))
              /\ Ordered([[o EXCEPT !.complete = "false"] EXCEPT !.suspended = "false"])
<1>1. /\ Stage([o EXCEPT !.complete = "false"])
           = IF o.gitCommitted THEN "rollbackRequired" ELSE "failed"
      /\ Stage([[o EXCEPT !.complete = "false"] EXCEPT !.suspended = "false"])
           = IF o.gitCommitted THEN "rollbackRequired" ELSE "failed"
  BY DEF Object, Stage
<1>2. Stage(o) = Phase(o)
  BY PhaseStage
<1>3. CASE o.gitCommitted
  <2>1. Stage(o) \in {"reconcile", "health", "done"}
    BY <1>2, <1>3 DEF Phase, Ordered, Object, Tristate
  <2> QED
    BY <2>1, <1>1, <1>3 DEF Ordered, Object, Tristate, Lifecycle!Successors
<1>4. CASE ~o.gitCommitted
  <2>1. Stage(o) \in {"suspend", "scaleDown", "snapshot", "commit"}
    BY <1>2, <1>4 DEF Phase, Ordered, Object, Tristate
  <2> QED
    BY <2>1, <1>1, <1>4 DEF Ordered, Object, Tristate, Lifecycle!Successors
<1> QED
  BY <1>3, <1>4

\* What OneStageAhead says of the worker.
WorkerAhead ==
  /\ Ordered(base) /\ Ordered(mem)
  /\ pc = "run" => mem = base /\ ~Terminal(base)
  /\ pc = "scaled" => Stage(base) = "scaleDown" /\ Stage(mem) = "scaleDown"
  /\ pc = "push" => /\ Stage(base) = "commit" /\ Stage(mem) = "commit"
                    /\ mem.newVersion \in Versions
  /\ pc = "update" =>
       /\ ~Terminal(base)
       /\ Stage(mem) \in {Stage(base)} \cup Lifecycle!Successors(Stage(base))
       /\ then = "run" => ~Terminal(mem)
  /\ pc = "finalize" => mem = base

\* An idle worker holds nothing.
LEMMA ReturnAhead == ASSUME Return PROVE WorkerAhead'
<1>1. Ordered(NewObject)
  BY DEF Ordered, NewObject
<1> QED
  BY <1>1 DEF Return, WorkerAhead

\* setFailed moves the copy to a failure stage.
LEMMA FailAhead ==
  ASSUME TypeOK, WorkerAhead, NEW m \in Object, NEW s, NEW n,
         ~Terminal(base), ~Terminal(m), Ordered(m), Stage(m) = Stage(base),
         setFailed(m, s, n)
  PROVE  WorkerAhead'
<1>1. /\ pc' = "update" /\ then' = "finalize" /\ base' = base
      /\ \/ mem' = [m EXCEPT !.complete = "false"]
         \/ /\ m.suspended = "true"
            /\ mem' = [[m EXCEPT !.complete = "false"] EXCEPT !.suspended = "false"]
  BY DEF setFailed, WriteStatus
<1>2. Ordered(mem') /\ Stage(mem') \in Lifecycle!Successors(Stage(m))
  BY <1>1, FailStage
<1> QED
  BY <1>1, <1>2 DEF WorkerAhead

\* A copy handed to Status().Update is at most one stage ahead.
LEMMA WriteAhead ==
  ASSUME WorkerAhead, ~Terminal(base), NEW m, NEW t, WriteStatus(m, t), Ordered(m),
         Stage(m) \in {Stage(base)} \cup Lifecycle!Successors(Stage(base)),
         t = "run" => ~Terminal(m)
  PROVE  WorkerAhead'
  BY DEF WorkerAhead, WriteStatus

\* The worker runs a handler on what it read, in the phase of that object.
LEMMA RunStage ==
  ASSUME TypeOK, WorkerAhead, NEW f, At(f)
  PROVE  /\ mem = base /\ base \in Object /\ ~Terminal(base) /\ Ordered(base)
         /\ Phase(base) = f /\ Stage(base) = f
  BY PhaseStage DEF TypeOK, WorkerAhead, At

\* Starting the timer changes neither stage nor order.
LEMMA StartedStage ==
  ASSUME NEW o \in Object, ~Terminal(o), Ordered(o), NEW m, m = setPhaseStartIfNeeded(o)
  PROVE  /\ m \in Object /\ ~Terminal(m) /\ Ordered(m)
         /\ Stage(m) = Stage(o) /\ Phase(m) = Phase(o)
<1>1. m.complete = o.complete
  BY DEF Object, setPhaseStartIfNeeded
<1>2. ~Terminal(m)
  BY <1>1 DEF Terminal
<1> QED
  BY <1>2, TimerStage, TimerType, PhaseStage

\* handleSuspend goes to "scaleDown" or fails.
LEMMA SuspendAhead ==
  ASSUME TypeOK, WorkerAhead, handleSuspend
  PROVE  WorkerAhead'
<1> DEFINE m == [mem EXCEPT !.suspended = "true",
                            !.snapshotReady = @ \/ ~SnapshotsEnabled(cur)]
<1>1. /\ mem = base /\ base \in Object /\ ~Terminal(base) /\ Ordered(base)
      /\ Phase(base) = "suspend" /\ Stage(base) = "suspend"
  BY RunStage DEF handleSuspend
<1>2. base.suspended = "absent"
  BY <1>1 DEF Phase
<1>3. ~Terminal(m) /\ Ordered(m) /\ Stage(m) = "scaleDown"
  BY <1>1, <1>2 DEF Terminal, Ordered, Stage, Phase, Object, SnapshotsEnabled
<1> HIDE DEF m
<1>4. CASE Fail(mem, 1) \/ Fail(mem, 0) \/ setFailed(mem, TRUE, 1)
  BY <1>1, <1>4, FailAhead DEF Fail
<1>5. CASE WriteStatus(m, "return")
  BY <1>1, <1>3, <1>5, WriteAhead DEF Lifecycle!Successors
<1> QED
  BY <1>4, <1>5 DEF handleSuspend, m

\* handleScaleDown skips its phase, or waits in it, or fails.
LEMMA ScaleDownAhead ==
  ASSUME TypeOK, WorkerAhead, handleScaleDown
  PROVE  WorkerAhead'
<1> DEFINE m == setPhaseStartIfNeeded(mem)
           W == IF SnapshotsEnabled(cur) THEN DiscoverWorkloads ELSE {}
           done == [m EXCEPT !.workloadStopped = TRUE]
           waiting == [m EXCEPT !.scaling = W]
<1>1. /\ mem = base /\ base \in Object /\ ~Terminal(base) /\ Ordered(base)
      /\ Phase(base) = "scaleDown" /\ Stage(base) = "scaleDown"
  BY RunStage DEF handleScaleDown
<1>2. /\ m \in Object /\ ~Terminal(m) /\ Ordered(m)
      /\ Stage(m) = "scaleDown" /\ Phase(m) = "scaleDown"
  BY <1>1, StartedStage
<1> HIDE DEF m, W
<1>3. ~Terminal(done) /\ Ordered(done) /\ Stage(done) \in {"snapshot", "commit"}
  BY <1>2 DEF Terminal, Ordered, Stage, Phase, Object, Tristate
<1>4. Ordered(waiting) /\ Stage(waiting) = "scaleDown"
  BY <1>2 DEF Terminal, Ordered, Stage, Phase, Object
<1> HIDE DEF done, waiting
<1>5. CASE Fail(m, 1)
  BY <1>1, <1>2, <1>5, FailAhead DEF Fail
<1>6. CASE WriteStatus(done, "run")
  BY <1>1, <1>3, <1>6, WriteAhead DEF Lifecycle!Successors
<1>7. CASE pc' = "scaled" /\ mem' = waiting /\ UNCHANGED base
  BY <1>1, <1>4, <1>7 DEF WorkerAhead
<1> QED
  BY <1>5, <1>6, <1>7 DEF handleScaleDown, m, W, done, waiting

\* The rest of handleScaleDown waits, or ends the phase, or fails.
LEMMA CheckScaledDownAhead ==
  ASSUME TypeOK, WorkerAhead, checkScaledDown
  PROVE  WorkerAhead'
<1> DEFINE t == resetPhaseStart(mem)
           done == [t EXCEPT !.workloadStopped = TRUE]
<1>1. /\ mem \in Object /\ base \in Object /\ Ordered(mem)
      /\ Stage(base) = "scaleDown" /\ Stage(mem) = "scaleDown"
  BY DEF checkScaledDown, TypeOK, WorkerAhead
<1>2. ~Terminal(mem) /\ ~Terminal(base)
  BY <1>1 DEF Stage, Terminal, Object, Tristate
<1>3. t \in Object /\ Ordered(t) /\ Stage(t) = "scaleDown"
  BY <1>1, TimerType, TimerStage
<1> HIDE DEF t
<1>4. Ordered(done) /\ Stage(done) \in {"snapshot", "commit"}
  BY <1>3 DEF Terminal, Ordered, Stage, Phase, Object, Tristate
<1> HIDE DEF done
<1>5. CASE Fail(mem, 1) \/ Fail(mem, 0)
  BY <1>1, <1>2, <1>5, FailAhead DEF Fail
<1>6. CASE WriteStatus(mem, "return")
  BY <1>1, <1>2, <1>6, WriteAhead
<1>7. CASE WriteStatus(done, "return")
  BY <1>1, <1>2, <1>4, <1>7, WriteAhead DEF Lifecycle!Successors
<1> QED
  BY <1>5, <1>6, <1>7 DEF checkScaledDown, t, done

\* The first half of handleSnapshotting skips the phase, or waits, or fails.
LEMMA CreateAhead ==
  ASSUME TypeOK, WorkerAhead, createSnapshotsForUpgrade
  PROVE  WorkerAhead'
<1> DEFINE m == setPhaseStartIfNeeded(mem)
           P == DiscoverPVCs
           recorded == [p \in PVCs |-> IF p \in P THEN Len(snaps[p]) + 1 ELSE 0]
           waiting == [m EXCEPT !.pvcSnapshots = recorded]
           done == [m EXCEPT !.snapshotReady = TRUE]
<1>1. /\ mem = base /\ base \in Object /\ ~Terminal(base) /\ Ordered(base)
      /\ Phase(base) = "snapshot" /\ Stage(base) = "snapshot"
  BY RunStage DEF createSnapshotsForUpgrade
<1>2. /\ m \in Object /\ ~Terminal(m) /\ Ordered(m)
      /\ Stage(m) = "snapshot" /\ Phase(m) = "snapshot"
  BY <1>1, StartedStage
<1> HIDE DEF m, P, recorded
<1>3. Ordered(done) /\ Stage(done) = "commit"
  BY <1>2 DEF Terminal, Ordered, Stage, Phase, Object, Tristate
<1>4. ~Terminal(waiting) /\ Ordered(waiting) /\ Stage(waiting) = "snapshot"
  BY <1>2 DEF Terminal, Ordered, Stage, Phase, Object
<1> HIDE DEF done, waiting
<1>5. CASE Fail(m, 1) \/ Fail(m, 0)
  BY <1>1, <1>2, <1>5, FailAhead DEF Fail
<1>6. CASE WriteStatus(done, "return")
  BY <1>1, <1>3, <1>6, WriteAhead DEF Lifecycle!Successors
<1>7. CASE WriteStatus(waiting, "run")
  BY <1>1, <1>4, <1>7, WriteAhead
<1> QED
  BY <1>5, <1>6, <1>7 DEF createSnapshotsForUpgrade, m, P, recorded, done, waiting

\* The second half waits, or goes to "commit", or fails.
LEMMA AwaitAhead ==
  ASSUME TypeOK, WorkerAhead, awaitSnapshots
  PROVE  WorkerAhead'
<1> DEFINE m == setPhaseStartIfNeeded(mem)
           t == resetPhaseStart(m)
           done == [t EXCEPT !.snapshotReady = TRUE]
<1>1. /\ mem = base /\ base \in Object /\ ~Terminal(base) /\ Ordered(base)
      /\ Phase(base) = "snapshot" /\ Stage(base) = "snapshot"
  BY RunStage DEF awaitSnapshots
<1>2. m \in Object /\ ~Terminal(m) /\ Ordered(m) /\ Stage(m) = "snapshot"
  BY <1>1, StartedStage
<1> HIDE DEF m
<1>3. t \in Object /\ Ordered(t) /\ Stage(t) = "snapshot"
  BY <1>2, TimerType, TimerStage
<1> HIDE DEF t
<1>4. Ordered(done) /\ Stage(done) = "commit"
  BY <1>3 DEF Terminal, Ordered, Stage, Phase, Object, Tristate
<1> HIDE DEF done
<1>5. CASE Fail(m, 1) \/ Fail(m, 0)
  BY <1>1, <1>2, <1>5, FailAhead DEF Fail
<1>6. CASE Return
  BY <1>6, ReturnAhead
<1>7. CASE WriteStatus(done, "return")
  BY <1>1, <1>4, <1>7, WriteAhead DEF Lifecycle!Successors
<1> QED
  BY <1>5, <1>6, <1>7 DEF awaitSnapshots, m, t, done

\* handleCommitting pushes only a version.
LEMMA CommittingAhead ==
  ASSUME TypeOK, WorkerAhead, handleCommitting
  PROVE  WorkerAhead'
<1> DEFINE m == [mem EXCEPT !.newVersion = TargetVersion(cur),
                            !.previousVersion = app.current]
<1>1. /\ mem = base /\ base \in Object /\ ~Terminal(base) /\ Ordered(base)
      /\ Phase(base) = "commit" /\ Stage(base) = "commit"
  BY RunStage DEF handleCommitting
<1>2. Ordered(m) /\ Stage(m) = "commit" /\ m.newVersion = TargetVersion(cur)
  BY <1>1 DEF Ordered, Stage, Phase, Object
<1>3. TargetVersion(cur) \in Versions \cup {NoVersion}
  <2>1. cur \in Requests /\ ask \in [Requests -> RequestSpecs]
    BY DEF TypeOK, handleCommitting, At
  <2>2. ask[cur] \in RequestSpec
    BY <2>1, UpgradeAssumption
  <2> QED
    BY <2>2 DEF RequestSpec, TargetVersion, TypeOK, ClusterTypeOK
<1> HIDE DEF m
<1>4. CASE Fail(mem, 1) \/ Fail(mem, 0)
  BY <1>1, <1>4, FailAhead DEF Fail
<1>5. CASE Return
  BY <1>5, ReturnAhead
<1>6. CASE TargetVersion(cur) # NoVersion /\ pc' = "push" /\ mem' = m /\ UNCHANGED base
  BY <1>1, <1>2, <1>3, <1>6 DEF WorkerAhead
<1> QED
  BY <1>4, <1>5, <1>6 DEF handleCommitting, m

\* The commit goes to "reconcile", or fails as if nothing was committed.
LEMMA CommitAhead ==
  ASSUME TypeOK, WorkerAhead, commitFile
  PROVE  WorkerAhead'
<1> DEFINE undone == [mem EXCEPT !.newVersion = base.newVersion,
                                 !.previousVersion = base.previousVersion]
           done   == [mem EXCEPT !.gitCommitted = TRUE]
<1>1. /\ mem \in Object /\ base \in Object /\ Ordered(mem)
      /\ Stage(base) = "commit" /\ Stage(mem) = "commit"
  BY DEF commitFile, TypeOK, WorkerAhead
<1>2. ~Terminal(mem) /\ ~Terminal(base)
  BY <1>1 DEF Stage, Terminal, Object, Tristate
<1>3. undone \in Object /\ ~Terminal(undone) /\ Ordered(undone) /\ Stage(undone) = "commit"
  BY <1>1, <1>2 DEF Ordered, Stage, Phase, Object, Terminal
<1>4. Ordered(done) /\ Stage(done) = "reconcile"
  BY <1>1, <1>2 DEF Ordered, Stage, Phase, Object, Terminal
<1> HIDE DEF undone, done
<1>5. CASE Fail(undone, 1)
  BY <1>1, <1>2, <1>3, <1>5, FailAhead DEF Fail
<1>6. CASE WriteStatus(done, "return")
  BY <1>1, <1>2, <1>4, <1>6, WriteAhead DEF Lifecycle!Successors
<1> QED
  BY <1>5, <1>6 DEF commitFile, undone, done

\* handleReconciling waits, or goes to "health", or needs a rollback.
LEMMA ReconcilingAhead ==
  ASSUME TypeOK, WorkerAhead, handleReconciling
  PROVE  WorkerAhead'
<1> DEFINE t == setPhaseStartIfNeeded(mem)
           m == [t EXCEPT !.suspended = "false"]
           u == resetPhaseStart(m)
           done == [u EXCEPT !.reconciled = TRUE]
<1>1. /\ mem = base /\ base \in Object /\ ~Terminal(base) /\ Ordered(base)
      /\ Phase(base) = "reconcile" /\ Stage(base) = "reconcile"
  BY RunStage DEF handleReconciling
<1>2. /\ t \in Object /\ ~Terminal(t) /\ Ordered(t)
      /\ Stage(t) = "reconcile" /\ Phase(t) = "reconcile"
  BY <1>1, StartedStage
<1> HIDE DEF t
<1>3. m \in Object /\ ~Terminal(m) /\ Ordered(m) /\ Stage(m) = "reconcile"
  <2>1. m \in Object
    BY <1>2, ConditionType
  <2> QED
    BY <1>2, <2>1 DEF Ordered, Stage, Phase, Object, Terminal
<1> HIDE DEF m
<1>4. u \in Object /\ Ordered(u) /\ Stage(u) = "reconcile"
  BY <1>3, TimerType, TimerStage
<1> HIDE DEF u
<1>5. Ordered(done) /\ Stage(done) = "health"
  <2>1. u.gitCommitted /\ ~u.healthy /\ Phase(u) = "reconcile" /\ u.complete = "absent"
    BY <1>4 DEF Stage, Phase, Ordered, Object, Tristate
  <2> QED
    BY <1>4, <2>1 DEF Ordered, Stage, Phase, Object
<1> HIDE DEF done
<1>6. CASE Fail(t, 1) \/ setFailed(t, FALSE, 1)
  BY <1>1, <1>2, <1>6, FailAhead DEF Fail
<1>7. CASE \E s \in AfterResume : setFailed(m, s, 1) \/ setFailed(m, s, 0)
  <2>1. AfterResume \subseteq BOOLEAN
    BY ResumeFlag DEF TypeOK, ClusterTypeOK
  <2> QED
    BY <1>1, <1>3, <1>7, <2>1, FailAhead
<1>8. CASE WriteStatus(m, "return")
  BY <1>1, <1>3, <1>8, WriteAhead
<1>9. CASE WriteStatus(done, "return")
  BY <1>1, <1>5, <1>9, WriteAhead DEF Lifecycle!Successors
<1> QED
  BY <1>6, <1>7, <1>8, <1>9 DEF handleReconciling, t, m, u, done

\* handleHealthChecking waits, or goes to "done", or needs a rollback.
LEMMA HealthCheckingAhead ==
  ASSUME TypeOK, WorkerAhead, handleHealthChecking
  PROVE  WorkerAhead'
<1> DEFINE m == setPhaseStartIfNeeded(mem)
           done == [m EXCEPT !.healthy = TRUE]
<1>1. /\ mem = base /\ base \in Object /\ ~Terminal(base) /\ Ordered(base)
      /\ Phase(base) = "health" /\ Stage(base) = "health"
  BY RunStage DEF handleHealthChecking
<1>2. /\ m \in Object /\ ~Terminal(m) /\ Ordered(m)
      /\ Stage(m) = "health" /\ Phase(m) = "health"
  BY <1>1, StartedStage
<1> HIDE DEF m
<1>3. Ordered(done) /\ Stage(done) = "done"
  BY <1>2 DEF Ordered, Stage, Phase, Object, Terminal
<1> HIDE DEF done
<1>4. CASE Fail(m, 1) \/ Fail(m, 0)
  BY <1>1, <1>2, <1>4, FailAhead DEF Fail
<1>5. CASE Return
  BY <1>5, ReturnAhead
<1>6. CASE WriteStatus(done, "return")
  BY <1>1, <1>3, <1>6, WriteAhead DEF Lifecycle!Successors
<1> QED
  BY <1>4, <1>5, <1>6 DEF handleHealthChecking, m, done

\* handleCompleted succeeds, or needs a rollback.
LEMMA CompletedAhead ==
  ASSUME TypeOK, WorkerAhead, handleCompleted
  PROVE  WorkerAhead'
<1> DEFINE done == [mem EXCEPT !.suspended = "false", !.complete = "true"]
<1>1. /\ mem = base /\ base \in Object /\ ~Terminal(base) /\ Ordered(base)
      /\ Phase(base) = "done" /\ Stage(base) = "done"
  BY RunStage DEF handleCompleted
<1>2. Ordered(done) /\ Stage(done) = "succeeded"
  BY <1>1 DEF Ordered, Stage, Phase, Object
<1> HIDE DEF done
<1>3. CASE Fail(mem, 1)
  BY <1>1, <1>3, FailAhead DEF Fail
<1>4. CASE WriteStatus(done, "finalize")
  BY <1>1, <1>2, <1>4, WriteAhead DEF Lifecycle!Successors
<1> QED
  BY <1>3, <1>4 DEF handleCompleted, done

-----------------------------------------------------------------------------
(* What a step may do to the stored objects *)

\* Touching an object keeps its stage.
LEMMA TouchedStage ==
  ASSUME NEW o \in Object, NEW q, Touched(o, q)
  PROVE  /\ Stage(q) = Stage(o) /\ (Ordered(q) <=> Ordered(o))
  BY DEF Touched, Object, Stage, Phase, Ordered

\* A write replaces one request's object, and its cached copy or not.
LEMMA StoreOrder ==
  ASSUME TypeOK, NEW r \in Requests, NEW o, Ordered(o), Store(r, o),
         \A q \in Requests : Ordered(obj[q]) /\ Ordered(cache[q])
  PROVE  \A q \in Requests : Ordered(obj'[q]) /\ Ordered(cache'[q])
  BY DEF Store, TypeOK

\* An object that does not change is touched.
LEMMA TouchedSelf ==
  ASSUME NEW o \in Object
  PROVE  Touched(o, o)
  BY DEF Touched, Object

\* The clock touches an object.
LEMMA TouchedOlder ==
  ASSUME NEW o \in Object
  PROVE  Touched(o, Older(o))
  BY DEF Touched, Object, Older, NoTimer

\* Finalizers and deletion touch an object.
LEMMA TouchedFinalizer ==
  ASSUME NEW o \in Object, NEW f \in BOOLEAN, NEW l \in {"live", "deleting", "gone"}
  PROVE  /\ Touched(o, [o EXCEPT !.finalizer = f])
         /\ Touched(o, [o EXCEPT !.life = l])
         /\ Touched(o, [o EXCEPT !.finalizer = f, !.life = l])
  BY DEF Touched, Object

\* Every step touches the stored objects, or moves one that has not ended by
\* at most one stage.
ObjectStep ==
  \/ \A r \in Requests : Touched(obj[r], obj'[r])
  \/ \E r \in Requests, m \in Object :
       /\ ~Terminal(obj[r])
       /\ obj' = [obj EXCEPT ![r] = m]
       /\ Stage(m) \in {Stage(obj[r])} \cup Lifecycle!Successors(Stage(obj[r]))

\* A write that touches one object touches all.
LEMMA StoreTouches ==
  ASSUME TypeOK, NEW r \in Requests, NEW o, Store(r, o), Touched(obj[r], o)
  PROVE  ObjectStep
<1>1. \A q \in Requests : Touched(obj[q], obj'[q])
  BY TouchedSelf DEF Store, TypeOK
<1> QED
  BY <1>1 DEF ObjectStep

\* A step without a write touches all objects.
LEMMA StillTouches ==
  ASSUME TypeOK, UNCHANGED obj
  PROVE  ObjectStep
<1>1. \A q \in Requests : Touched(obj[q], obj'[q])
  BY TouchedSelf DEF TypeOK
<1> QED
  BY <1>1 DEF ObjectStep

ObjectsOrdered == \A r \in Requests : Ordered(obj[r]) /\ Ordered(cache[r])

\* OneStageAhead speaks of the objects and of the worker.
LEMMA AheadParts == OneStageAhead <=> ObjectsOrdered /\ WorkerAhead
  BY DEF OneStageAhead, ObjectsOrdered, WorkerAhead

\* A write that only touches an object.
LEMMA TouchingStore ==
  ASSUME TypeOK, ObjectsOrdered, NEW r \in Requests, NEW o, Store(r, o),
         Touched(obj[r], o)
  PROVE  ObjectsOrdered' /\ ObjectStep
<1>1. obj[r] \in Object /\ Ordered(obj[r])
  BY DEF TypeOK, ObjectsOrdered
<1>2. Ordered(o)
  BY <1>1, TouchedStage
<1> QED
  BY <1>2, StoreOrder, StoreTouches DEF ObjectsOrdered

-----------------------------------------------------------------------------
(* Every step preserves the invariant *)

\* Taking up a request.
LEMMA ReconcileStep ==
  ASSUME IInv, NEW r \in Requests, Reconcile(r)
  PROVE  IInv' /\ ObjectStep
<1>1. TypeOK /\ ObjectsOrdered /\ WorkerAhead /\ obj[r] \in Object /\ cache[r] \in Object
  BY AheadParts DEF IInv, TypeOK
<1>2. TypeOK'
  BY <1>1, ReconcileType
<1>3. ASSUME NEW o, Store(r, o), Touched(obj[r], o), UNCHANGED workerVars
      PROVE  ObjectsOrdered' /\ WorkerAhead' /\ ObjectStep
  <2>1. ObjectsOrdered' /\ ObjectStep
    BY <1>1, <1>3, TouchingStore
  <2>2. WorkerAhead'
    BY <1>1, <1>3 DEF WorkerAhead, workerVars
  <2> QED
    BY <2>1, <2>2
<1>4. ASSUME ~Terminal(cache[r]), pc' = "run", base' = cache[r], mem' = cache[r],
             UNCHANGED <<obj, cache>>
      PROVE  ObjectsOrdered' /\ WorkerAhead' /\ ObjectStep
  <2>1. ObjectsOrdered' /\ ObjectStep
    BY <1>1, <1>4, StillTouches DEF ObjectsOrdered
  <2>2. WorkerAhead'
    BY <1>1, <1>4 DEF WorkerAhead, ObjectsOrdered
  <2> QED
    BY <2>1, <2>2
<1>5. /\ Touched(obj[r], [obj[r] EXCEPT !.finalizer = FALSE, !.life = "gone"])
      /\ Touched(obj[r], [obj[r] EXCEPT !.finalizer = TRUE])
  BY <1>1, TouchedFinalizer
<1>6. ObjectsOrdered' /\ WorkerAhead' /\ ObjectStep
  BY <1>3, <1>4, <1>5 DEF Reconcile
<1> QED
  BY <1>2, <1>6, AheadParts DEF IInv, OneStageAhead, ObjectsOrdered, WorkerAhead

\* The handlers leave the stored objects alone.
LEMMA HandlerStep ==
  ASSUME IInv, TypeOK', WorkerAhead', UNCHANGED <<obj, cache>>
  PROVE  IInv' /\ ObjectStep
<1>1. TypeOK /\ ObjectsOrdered
  BY AheadParts DEF IInv
<1>2. ObjectsOrdered'
  BY <1>1 DEF ObjectsOrdered
<1>3. ObjectStep
  BY <1>1, StillTouches
<1> QED
  BY <1>2, <1>3 DEF IInv, OneStageAhead, ObjectsOrdered, WorkerAhead

\* Status().Update moves the stored object by what the worker is ahead, because
\* it is still the object the worker read.
LEMMA UpdateStep ==
  ASSUME IInv, statusUpdate
  PROVE  IInv' /\ ObjectStep
<1>1. /\ TypeOK /\ ObjectsOrdered /\ WorkerAhead /\ pc = "update"
      /\ cur \in Requests /\ mem \in Object /\ base \in Object
  BY AheadParts DEF IInv, TypeOK, statusUpdate
<1>2. /\ Ordered(mem) /\ Ordered(base) /\ ~Terminal(base)
      /\ Stage(mem) \in {Stage(base)} \cup Lifecycle!Successors(Stage(base))
      /\ then = "run" => ~Terminal(mem)
  BY <1>1 DEF WorkerAhead
<1>3. TypeOK'
  BY <1>1, UpdateType
<1>4. ObjectsOrdered'
  BY <1>1, <1>2, StoreOrder DEF statusUpdate, ObjectsOrdered
<1>5. WorkerAhead'
  <2>1. CASE Return
    BY <2>1, ReturnAhead
  <2>2. CASE then # "return" /\ pc' = then /\ base' = mem /\ UNCHANGED <<cur, mem, then>>
    <3>1. then \in {"run", "finalize"}
      BY <2>2 DEF IInv, TypeOK
    <3> QED
      BY <3>1, <2>2, <1>2 DEF WorkerAhead
  <2> QED
    BY <2>1, <2>2 DEF statusUpdate
<1>6. ObjectStep
  <2>1. CASE obj[cur] = base /\ Store(cur, mem)
    BY <2>1, <1>1, <1>2 DEF ObjectStep, Store
  <2>2. CASE UNCHANGED obj
    BY <2>2, <1>1, StillTouches
  <2> QED
    BY <2>1, <2>2 DEF statusUpdate
<1> QED
  BY <1>3, <1>4, <1>5, <1>6 DEF IInv, OneStageAhead, ObjectsOrdered, WorkerAhead

\* Removing the finalizer.
LEMMA FinalizeStep ==
  ASSUME IInv, removeFinalizer
  PROVE  IInv' /\ ObjectStep
<1>1. /\ TypeOK /\ ObjectsOrdered /\ WorkerAhead /\ pc = "finalize"
      /\ cur \in Requests /\ mem \in Object /\ mem = base
  BY AheadParts DEF IInv, TypeOK, removeFinalizer, WorkerAhead
<1>2. TypeOK' /\ WorkerAhead'
  BY <1>1, FinalizeType, ReturnAhead DEF removeFinalizer
<1>3. Touched(mem, [mem EXCEPT !.finalizer = FALSE])
  BY <1>1, TouchedFinalizer
<1>4. ObjectsOrdered' /\ ObjectStep
  <2>1. CASE obj[cur] = base /\ Store(cur, [mem EXCEPT !.finalizer = FALSE])
    BY <2>1, <1>1, <1>3, TouchingStore
  <2>2. CASE UNCHANGED <<obj, cache>>
    BY <2>2, <1>1, StillTouches DEF ObjectsOrdered
  <2> QED
    BY <2>1, <2>2 DEF removeFinalizer
<1> QED
  BY <1>2, <1>4 DEF IInv, OneStageAhead, ObjectsOrdered, WorkerAhead

\* All steps of the worker.
LEMMA WorkerStepStep ==
  ASSUME IInv, WorkerStep
  PROVE  IInv' /\ ObjectStep
<1>1. TypeOK /\ WorkerAhead
  BY AheadParts DEF IInv
<1>2. CASE handleSuspend
  BY <1>1, <1>2, SuspendType, SuspendAhead, HandlerStep DEF handleSuspend
<1>3. CASE handleScaleDown
  BY <1>1, <1>3, ScaleDownType, ScaleDownAhead, HandlerStep DEF handleScaleDown
<1>4. CASE checkScaledDown
  BY <1>1, <1>4, CheckScaledDownType, CheckScaledDownAhead, HandlerStep DEF checkScaledDown
<1>5. CASE createSnapshotsForUpgrade
  BY <1>1, <1>5, CreateType, CreateAhead, HandlerStep DEF createSnapshotsForUpgrade
<1>6. CASE awaitSnapshots
  BY <1>1, <1>6, AwaitType, AwaitAhead, HandlerStep DEF awaitSnapshots
<1>7. CASE handleCommitting
  BY <1>1, <1>7, CommittingType, CommittingAhead, HandlerStep DEF handleCommitting
<1>8. CASE commitFile
  <2>1. mem.newVersion \in Versions
    BY <1>1, <1>8 DEF WorkerAhead, commitFile
  <2> QED
    BY <1>1, <1>8, <2>1, CommitType, CommitAhead, HandlerStep DEF commitFile
<1>9. CASE handleReconciling
  BY <1>1, <1>9, ReconcilingType, ReconcilingAhead, HandlerStep DEF handleReconciling
<1>10. CASE handleHealthChecking
  BY <1>1, <1>10, HealthCheckingType, HealthCheckingAhead, HandlerStep
     DEF handleHealthChecking
<1>11. CASE handleCompleted
  BY <1>1, <1>11, CompletedType, CompletedAhead, HandlerStep DEF handleCompleted
<1>12. CASE statusUpdate
  BY <1>12, UpdateStep
<1>13. CASE removeFinalizer
  BY <1>13, FinalizeStep
<1> QED
  BY <1>2, <1>3, <1>4, <1>5, <1>6, <1>7, <1>8, <1>9, <1>10, <1>11, <1>12, <1>13
     DEF WorkerStep

\* Deleting a request.
LEMMA DeleteStep ==
  ASSUME IInv, NEW r \in Requests, Delete(r)
  PROVE  IInv' /\ ObjectStep
<1> DEFINE l == IF obj[r].finalizer THEN "deleting" ELSE "gone"
<1>1. TypeOK /\ ObjectsOrdered /\ WorkerAhead /\ obj[r] \in Object
  BY AheadParts DEF IInv, TypeOK
<1>2. TypeOK'
  BY <1>1, DeleteType
<1>3. l \in {"live", "deleting", "gone"}
  OBVIOUS
<1>4. Store(r, [obj[r] EXCEPT !.life = l])
  BY DEF Delete
<1> HIDE DEF l
<1>5. Touched(obj[r], [obj[r] EXCEPT !.life = l])
  BY <1>1, <1>3, TouchedFinalizer
<1>6. ObjectsOrdered' /\ ObjectStep
  BY <1>1, <1>4, <1>5, TouchingStore
<1>7. WorkerAhead'
  BY <1>1 DEF Delete, workerVars, WorkerAhead
<1> QED
  BY <1>2, <1>6, <1>7 DEF IInv, OneStageAhead, ObjectsOrdered, WorkerAhead

\* Delivering an object to the cache.
LEMMA SyncStep ==
  ASSUME IInv, NEW r \in Requests, Sync(r)
  PROVE  IInv' /\ ObjectStep
<1>1. TypeOK /\ ObjectsOrdered /\ WorkerAhead
  BY AheadParts DEF IInv
<1>2. TypeOK' /\ ObjectStep
  BY <1>1, SyncType, StillTouches DEF Sync
<1>3. ObjectsOrdered'
  BY <1>1 DEF Sync, ObjectsOrdered, TypeOK
<1>4. WorkerAhead'
  BY <1>1 DEF Sync, workerVars, WorkerAhead
<1> QED
  BY <1>2, <1>3, <1>4 DEF IInv, OneStageAhead, ObjectsOrdered, WorkerAhead

\* The passing of time.
LEMMA TickStep ==
  ASSUME IInv, Tick
  PROVE  IInv' /\ ObjectStep
<1>1. TypeOK /\ ObjectsOrdered /\ WorkerAhead /\ base \in Object /\ mem \in Object
  BY AheadParts DEF IInv, TypeOK
<1>2. TypeOK'
  BY <1>1, TickType
<1>3. \A r \in Requests : Touched(obj[r], obj'[r])
  BY <1>1, TouchedOlder DEF Tick, TypeOK
<1>4. ObjectsOrdered'
  BY <1>1, TimerStage DEF Tick, ObjectsOrdered, TypeOK
<1>5. /\ base' = Older(base) /\ mem' = Older(mem) /\ pc' = pc /\ then' = then
  BY DEF Tick
<1>6. /\ Ordered(base) => Ordered(Older(base))
      /\ Ordered(mem) => Ordered(Older(mem))
      /\ Stage(Older(base)) = Stage(base) /\ Stage(Older(mem)) = Stage(mem)
      /\ Terminal(Older(base)) <=> Terminal(base)
      /\ Terminal(Older(mem)) <=> Terminal(mem)
      /\ Older(mem).newVersion = mem.newVersion
  BY <1>1, TimerStage
<1>7. WorkerAhead'
  BY <1>1, <1>5, <1>6 DEF WorkerAhead
<1> QED
  BY <1>2, <1>3, <1>4, <1>7 DEF IInv, OneStageAhead, ObjectsOrdered, WorkerAhead, ObjectStep

\* Every step preserves the invariant and treats the stored objects as ObjectStep says.
LEMMA NextStep ==
  ASSUME IInv, [Next]_vars
  PROVE  IInv' /\ ObjectStep
<1>1. TypeOK /\ WorkerAhead
  BY AheadParts DEF IInv
<1>2. ASSUME NEW r \in Requests, Reconcile(r) PROVE IInv' /\ ObjectStep
  BY <1>2, ReconcileStep
<1>3. CASE WorkerStep
  BY <1>3, WorkerStepStep
<1>4. CASE Crash
  <2>1. TypeOK' /\ WorkerAhead'
    BY <1>1, <1>4, CrashType, ReturnAhead DEF Crash
  <2> QED
    BY <1>4, <2>1, HandlerStep DEF Crash
<1>5. ASSUME NEW r \in Requests, Delete(r) PROVE IInv' /\ ObjectStep
  BY <1>5, DeleteStep
<1>6. ASSUME NEW r \in Requests, Sync(r) PROVE IInv' /\ ObjectStep
  BY <1>6, SyncStep
<1>7. CASE Tick
  BY <1>7, TickStep
<1>8. CASE /\ ClusterNext
           /\ UNCHANGED <<ask, obj, cache, workerVars, rollbacks, commits, faults>>
  <2>1. ClusterTypeOK'
    BY <1>1, <1>8, ClusterStepType DEF TypeOK
  <2>2. TypeOK'
    BY <1>1, <1>8, <2>1 DEF TypeOK, workerVars
  <2>3. WorkerAhead'
    BY <1>1, <1>8 DEF WorkerAhead, workerVars
  <2> QED
    BY <1>8, <2>2, <2>3, HandlerStep
<1>9. CASE UNCHANGED vars
  <2>1. TypeOK'
    BY <1>1, <1>9 DEF TypeOK, ClusterTypeOK, vars, clusterVars, workerVars
  <2>2. WorkerAhead'
    BY <1>1, <1>9 DEF WorkerAhead, vars, workerVars
  <2>3. UNCHANGED <<obj, cache>>
    BY <1>9 DEF vars
  <2> QED
    BY <2>1, <2>2, <2>3, HandlerStep
<1> QED
  BY <1>2, <1>3, <1>4, <1>5, <1>6, <1>7, <1>8, <1>9 DEF Next

\* The invariant holds initially.
LEMMA InitInv ==
  ASSUME Init
  PROVE  IInv
<1>1. Ordered(NewObject)
  BY DEF Ordered, NewObject
<1>2. ClusterTypeOK
  <2>1. snaps \in [PVCs -> Seq(Snapshot)]
    BY DEF Init, ClusterInit
  <2>2. app \in [spec : AppSpecs, current : Versions \cup {NoVersion},
                 available : Versions \cup {NoVersion}]
    BY ClusterAssumption DEF Init, ClusterInit
  <2> QED
    BY <2>1, <2>2, ClusterAssumption DEF Init, ClusterInit, ClusterTypeOK, PodStates
<1>3. TypeOK
  BY <1>2, NewObjectType, UpgradeAssumption DEF Init, TypeOK
<1>4. OneStageAhead
  BY <1>1 DEF Init, OneStageAhead
<1> QED
  BY <1>3, <1>4 DEF IInv

-----------------------------------------------------------------------------
(* The theorems *)

\* The inductive invariant holds in every behaviour.
LEMMA Invariance == Spec => []IInv
<1>1. Init => IInv
  BY InitInv
<1>2. IInv /\ [Next]_vars => IInv'
  BY NextStep
<1> QED
  BY <1>1, <1>2, PTL DEF Spec

\* Every variable keeps its type: no handler, fault, stale read or step of
\* another actor takes the controller or the cluster out of its state space.
THEOREM TypeCorrect == Spec => []TypeOK
<1>1. IInv => TypeOK
  BY DEF IInv
<1> QED
  BY <1>1, Invariance, PTL

\* What the worker is about to write is at most one stage ahead of what it
\* read, and what it is about to push is a version (Reconcile, the handlers).
THEOREM WorkerStaysClose == Spec => []OneStageAhead
<1>1. IInv => OneStageAhead
  BY DEF IInv
<1> QED
  BY <1>1, Invariance, PTL

\* A request that has ended is never taken up again, however stale the cache:
\* Status().Update refuses what was computed from an older object.
THEOREM TerminalIsStable == Spec => TerminalStable
<1>1. ASSUME IInv, [Next]_vars
      PROVE  \A r \in Requests : Terminal(obj[r]) => Touched(obj[r], obj'[r])
  <2>1. TypeOK /\ ObjectStep
    BY <1>1, NextStep DEF IInv
  <2>2. CASE \A r \in Requests : Touched(obj[r], obj'[r])
    BY <2>2
  <2>3. ASSUME NEW q \in Requests, NEW m \in Object,
               ~Terminal(obj[q]), obj' = [obj EXCEPT ![q] = m]
        PROVE  \A r \in Requests : Terminal(obj[r]) => Touched(obj[r], obj'[r])
    <3>1. \A r \in Requests : Terminal(obj[r]) => obj'[r] = obj[r]
      BY <2>1, <2>3 DEF TypeOK
    <3> QED
      BY <3>1, <2>1, TouchedSelf DEF TypeOK
  <2> QED
    BY <2>1, <2>2, <2>3 DEF ObjectStep
<1> QED
  BY <1>1, Invariance, PTL DEF Spec, TerminalStable

\* The controller implements the life cycle of UpgradeLifecycle: the stored
\* conditions of every request go through the phases in order and one at a
\* time, and end for good.
THEOREM ImplementsLifecycle == Spec => FollowsLifecycle
<1> DEFINE stages == [r \in Requests |-> Stage(obj[r])]
<1>1. Init => Lifecycle!Init
  <2>1. Stage(NewObject) = "suspend"
    BY DEF Stage, Phase, NewObject
  <2> QED
    BY <2>1 DEF Init, Lifecycle!Init
<1>2. ASSUME IInv, [Next]_vars PROVE [Lifecycle!Next]_stages
  <2>1. TypeOK /\ ObjectStep
    BY <1>2, NextStep DEF IInv
  <2>2. CASE \A r \in Requests : Touched(obj[r], obj'[r])
    <3>1. \A r \in Requests : Stage(obj'[r]) = Stage(obj[r])
      BY <2>1, <2>2, TouchedStage DEF TypeOK
    <3>2. stages' = stages
      BY <3>1
    <3> QED
      BY <3>2
  <2>3. ASSUME NEW q \in Requests, NEW m \in Object, obj' = [obj EXCEPT ![q] = m],
               Stage(m) \in {Stage(obj[q])} \cup Lifecycle!Successors(Stage(obj[q]))
        PROVE  [Lifecycle!Next]_stages
    <3>1. \A r \in Requests : obj'[r] = IF r = q THEN m ELSE obj[r]
      BY <2>1, <2>3 DEF TypeOK
    <3>2. stages' = [stages EXCEPT ![q] = Stage(m)]
      BY <3>1
    <3>3. CASE Stage(m) = Stage(obj[q])
      <4>1. stages' = stages
        BY <3>2, <3>3
      <4> QED
        BY <4>1
    <3>4. CASE Stage(m) \in Lifecycle!Successors(Stage(obj[q]))
      <4>1. stages[q] = Stage(obj[q])
        OBVIOUS
      <4>2. Stage(m) \in Lifecycle!Successors(stages[q])
        BY <3>4, <4>1
      <4>3. Lifecycle!Move(q)
        BY <3>2, <4>2 DEF Lifecycle!Move
      <4> QED
        BY <4>3 DEF Lifecycle!Next
    <3> QED
      BY <2>3, <3>3, <3>4
  <2> QED
    BY <2>1, <2>2, <2>3 DEF ObjectStep
<1> QED
  BY <1>1, <1>2, Invariance, PTL DEF Spec, FollowsLifecycle, Lifecycle!Spec
=============================================================================
