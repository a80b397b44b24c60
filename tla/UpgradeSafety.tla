--------------------------- MODULE UpgradeSafety ---------------------------
(***************************************************************************)
(* Proofs about module Upgrade, for any number of requests, workloads,     *)
(* claims and versions, any timeouts and any bound on faults.  First what  *)
(* must have happened before a commit, with a cache that may lag: Flux is  *)
(* suspended unless someone outside resumes it, and a request that         *)
(* snapshots the claims its app lists has the snapshots.  Then what an     *)
(* upgrade leaves behind in Git and in Flux when the cache does not lag.   *)
(* Last, again with a cache that may lag, that no pod ran while the        *)
(* snapshots were taken.                                                   *)
(***************************************************************************)
EXTENDS UpgradeProofs

-----------------------------------------------------------------------------
(* What never changes *)

\* The specs of the app and of the requests are the user's: no step writes them.
LEMMA SpecsFixed ==
  ASSUME TypeOK, [Next]_vars
  PROVE  app'.spec = app.spec /\ ask' = ask
<1> USE DEF TypeOK, ClusterTypeOK
<1>1. CASE WorkerStep
  <2>1. CASE handleCompleted
    <3>1. \/ app' = app
          \/ app' = [app EXCEPT !.current = mem.newVersion, !.available = NoVersion]
      BY <2>1 DEF handleCompleted
    <3> QED
      BY <2>1, <3>1 DEF handleCompleted
  <2> QED
    BY <1>1, <2>1
       DEF WorkerStep, handleSuspend, handleScaleDown, checkScaledDown,
           createSnapshotsForUpgrade, awaitSnapshots, handleCommitting, commitFile,
           handleReconciling, handleHealthChecking, statusUpdate, removeFinalizer,
           clusterVars
<1>2. CASE ClusterNext /\ UNCHANGED <<ask, obj, cache, workerVars, rollbacks, commits, faults>>
  BY <1>2
     DEF ClusterNext, FluxApply, PodStart, PodReady, PodStop, SnapshotReady,
         ExternalResume, updateManagedAppStatus
<1> QED
  BY <1>1, <1>2 DEF Next, vars, clusterVars, Reconcile, Crash, Delete, Sync, Tick

-----------------------------------------------------------------------------
(* The commit under suspension *)

\* A request that got past handleSuspend has a target that the preflight accepts.
Accepted(o) == o.suspended # "absent" => ValidateSuspendTarget

\* Nothing but a person resumes the Kustomization while the worker is between
\* VerifyStillSuspended and the commit.
PushInv ==
  /\ \A r \in Requests : Accepted(obj[r]) /\ Accepted(cache[r])
  /\ Accepted(base) /\ Accepted(mem)
  /\ pc = "push" => suspended /\ ValidateSuspendTarget

\* A failing handler keeps what was accepted.
LEMMA FailAccepted ==
  ASSUME NEW m \in Object, NEW s, NEW n, Accepted(m), setFailed(m, s, n),
         app'.spec = app.spec
  PROVE  Accepted(mem)' /\ pc' = "update" /\ base' = base
  BY DEF Accepted, setFailed, WriteStatus, ValidateSuspendTarget, Object

\* A handler of a request past handleSuspend keeps it accepted.
LEMMA HandlerAccepted ==
  ASSUME KustomizationCurrent, IInv, PushInv, app'.spec = app.spec, UNCHANGED <<obj, cache>>,
         \/ handleSuspend \/ handleScaleDown \/ checkScaledDown
         \/ createSnapshotsForUpgrade \/ awaitSnapshots
         \/ handleCommitting \/ commitFile
         \/ handleReconciling \/ handleHealthChecking \/ handleCompleted
  PROVE  PushInv'
<1>1. mem \in Object /\ base \in Object
  BY DEF IInv, TypeOK
<1> DEFINE m == setPhaseStartIfNeeded(mem)
<1>2. m \in Object /\ m.suspended = mem.suspended /\ resetPhaseStart(m).suspended = mem.suspended
      /\ resetPhaseStart(mem).suspended = mem.suspended /\ Accepted(m) /\ Accepted(mem)
      /\ resetPhaseStart(m) \in Object /\ resetPhaseStart(mem) \in Object
  BY <1>1, TimerType DEF setPhaseStartIfNeeded, resetPhaseStart, Object, Accepted, PushInv
<1> SUFFICES /\ Accepted(mem)' /\ Accepted(base)'
             /\ pc' = "push" => suspended' /\ ValidateSuspendTarget'
  BY DEF PushInv, Accepted, ValidateSuspendTarget
<1> HIDE DEF m
<1> USE FailAccepted DEF Accepted, Fail, WriteStatus, ValidateSuspendTarget
<1>3. CASE handleSuspend
  BY <1>1, <1>2, <1>3 DEF handleSuspend, PushInv, runUpgradePreflight, Object
<1>4. CASE handleScaleDown
  BY <1>1, <1>2, <1>4 DEF handleScaleDown, PushInv, Object, m
<1>5. CASE checkScaledDown
  BY <1>1, <1>2, <1>5 DEF checkScaledDown, PushInv, Object
<1>6. CASE createSnapshotsForUpgrade
  BY <1>1, <1>2, <1>6 DEF createSnapshotsForUpgrade, PushInv, Object, m
<1>7. CASE awaitSnapshots
  BY <1>1, <1>2, <1>7, NewObjectType DEF awaitSnapshots, PushInv, Object, m, Return, NewObject
<1>8. CASE handleCommitting
  <2>1. VerifyStillSuspended(TRUE) => suspended
    BY CurrentFlag DEF IInv, TypeOK, ClusterTypeOK
  <2> QED
    BY <1>1, <1>2, <1>8, <2>1
       DEF handleCommitting, PushInv, Object, m, Return, NewObject, At, Phase
<1>9. CASE commitFile
  BY <1>1, <1>2, <1>9 DEF commitFile, PushInv, Object
<1>10. CASE handleReconciling
  <2> DEFINE q == [m EXCEPT !.suspended = "false"]
  <2>1. /\ q \in Object /\ q.suspended = "false" /\ Accepted(q)
        /\ [resetPhaseStart(q) EXCEPT !.reconciled = TRUE].suspended = "false"
    <3>1. ValidateSuspendTarget
      BY <1>10 DEF handleReconciling, PushInv, At, Phase
    <3>2. q \in Object
      BY <1>2, ConditionType
    <3> QED
      BY <1>2, <3>1, <3>2 DEF Object, resetPhaseStart
  <2> HIDE DEF q
  <2> QED
    BY <1>1, <1>2, <1>10, <2>1 DEF handleReconciling, PushInv, m, q
<1>11. CASE handleHealthChecking
  BY <1>1, <1>2, <1>11 DEF handleHealthChecking, PushInv, Object, m, Return, NewObject
<1>12. CASE handleCompleted
  BY <1>1, <1>2, <1>12 DEF handleCompleted, PushInv, Object, At, Phase
<1> QED
  BY <1>3, <1>4, <1>5, <1>6, <1>7, <1>8, <1>9, <1>10, <1>11, <1>12

\* Objects are accepted together with what the clock, the finalizer and a
\* deletion make of them.
LEMMA TouchedAccepted ==
  ASSUME NEW o \in Object, NEW q, Touched(o, q), Accepted(o)
  PROVE  Accepted(q)
  BY DEF Touched, Object, Accepted

\* A write of an accepted object.
LEMMA StoreAccepted ==
  ASSUME TypeOK, PushInv, NEW r \in Requests, NEW o, Accepted(o), Store(r, o)
  PROVE  \A q \in Requests : Accepted(obj'[q]) /\ Accepted(cache'[q])
  BY DEF Store, TypeOK, PushInv

\* Every step preserves it, unless a person resumes the Kustomization.
LEMMA PushStep ==
  ASSUME KustomizationCurrent, "resume" \notin Disturbances, IInv, PushInv, [Next]_vars
  PROVE  PushInv'
<1>1. TypeOK /\ mem \in Object /\ base \in Object
  BY DEF IInv, TypeOK
<1>2. app'.spec = app.spec
  BY <1>1, SpecsFixed
<1>3. ASSUME \A q \in Requests : Accepted(obj'[q]) /\ Accepted(cache'[q]),
             Accepted(base'), Accepted(mem'),
             pc' = "push" => suspended' /\ ValidateSuspendTarget
      PROVE  PushInv'
  BY <1>2, <1>3 DEF PushInv, Accepted, ValidateSuspendTarget
<1>4. Accepted(NewObject)
  BY DEF Accepted, NewObject
<1>5. ASSUME NEW r \in Requests, Reconcile(r) PROVE PushInv'
  <2>1. obj[r] \in Object /\ Accepted(obj[r]) /\ Accepted(cache[r])
    BY <1>1 DEF TypeOK, PushInv
  <2>2. /\ Accepted([obj[r] EXCEPT !.finalizer = FALSE, !.life = "gone"])
        /\ Accepted([obj[r] EXCEPT !.finalizer = TRUE])
    BY <2>1, TouchedFinalizer, TouchedAccepted
  <2>3. \A q \in Requests : Accepted(obj'[q]) /\ Accepted(cache'[q])
    BY <1>1, <1>5, <2>2, StoreAccepted DEF Reconcile, PushInv
  <2> QED
    BY <1>3, <1>5, <2>1, <2>3 DEF Reconcile, workerVars, PushInv
<1>6. CASE WorkerStep
  <2>1. CASE statusUpdate
    <3>1. \A q \in Requests : Accepted(obj'[q]) /\ Accepted(cache'[q])
      BY <1>1, <2>1, StoreAccepted DEF statusUpdate, PushInv, TypeOK
    <3>2. Accepted(base') /\ Accepted(mem') /\ pc' # "push"
      BY <1>1, <1>4, <2>1 DEF statusUpdate, PushInv, Return, TypeOK
    <3> QED
      BY <1>3, <3>1, <3>2
  <2>2. CASE removeFinalizer
    <3>1. Accepted([mem EXCEPT !.finalizer = FALSE]) /\ cur \in Requests
      BY <1>1, <2>2, TouchedFinalizer, TouchedAccepted DEF PushInv, removeFinalizer, TypeOK
    <3>2. \A q \in Requests : Accepted(obj'[q]) /\ Accepted(cache'[q])
      BY <1>1, <2>2, <3>1, StoreAccepted DEF removeFinalizer, PushInv
    <3> QED
      BY <1>3, <1>4, <2>2, <3>2 DEF removeFinalizer, Return
  <2>3. CASE ~statusUpdate /\ ~removeFinalizer
    <3>1. UNCHANGED <<obj, cache>>
      BY <1>6, <2>3
         DEF WorkerStep, handleSuspend, handleScaleDown, checkScaledDown,
             createSnapshotsForUpgrade, awaitSnapshots, handleCommitting, commitFile,
             handleReconciling, handleHealthChecking, handleCompleted
    <3> QED
      BY <1>2, <1>6, <2>3, <3>1, HandlerAccepted DEF WorkerStep
  <2> QED
    BY <2>1, <2>2, <2>3
<1>7. CASE Crash
  BY <1>3, <1>4, <1>7 DEF Crash, Return, PushInv
<1>8. ASSUME NEW r \in Requests, Delete(r) PROVE PushInv'
  <2>1. obj[r] \in Object /\ Accepted(obj[r])
    BY <1>1 DEF TypeOK, PushInv
  <2>2. \A l \in {"deleting", "gone"} : Accepted([obj[r] EXCEPT !.life = l])
    BY <2>1, TouchedFinalizer, TouchedAccepted
  <2>3. \A q \in Requests : Accepted(obj'[q]) /\ Accepted(cache'[q])
    BY <1>1, <1>8, <2>2, StoreAccepted DEF Delete
  <2> QED
    BY <1>3, <1>8, <2>3 DEF Delete, workerVars, clusterVars, PushInv
<1>9. ASSUME NEW r \in Requests, Sync(r) PROVE PushInv'
  BY <1>1, <1>3, <1>9 DEF Sync, workerVars, clusterVars, PushInv, TypeOK
<1>10. CASE Tick
  <2>1. ASSUME NEW o \in Object, Accepted(o) PROVE Accepted(Older(o))
    BY <2>1, TouchedOlder, TouchedAccepted
  <2>2. \A q \in Requests : Accepted(obj'[q]) /\ Accepted(cache'[q])
    BY <1>1, <1>10, <2>1 DEF Tick, TypeOK, PushInv
  <2> QED
    BY <1>1, <1>3, <1>10, <2>1, <2>2 DEF Tick, clusterVars, PushInv
<1>11. CASE ClusterNext /\ UNCHANGED <<ask, obj, cache, workerVars, rollbacks, commits, faults>>
  <2>1. suspended /\ ValidateSuspendTarget => suspended'
    BY <1>11 DEF ClusterNext, FluxApply, PodStart, PodReady, PodStop, SnapshotReady,
                 ExternalResume, updateManagedAppStatus, ValidateSuspendTarget, fluxVars
  <2> QED
    BY <1>3, <1>11, <2>1 DEF PushInv, workerVars
<1>12. CASE UNCHANGED vars
  BY <1>3, <1>12 DEF vars, clusterVars, workerVars, PushInv
<1> QED
  BY <1>5, <1>6, <1>7, <1>8, <1>9, <1>10, <1>11, <1>12 DEF Next

\* Every call of CommitFile, the first of a request and those of its retries, finds
\* the Kustomization suspended, whatever the cluster, other requests, crashes, lost
\* writes and stale reads of the requests did before: as long as no person resumes
\* it, and VerifyStillSuspended reads what FluxUp wrote last.  Without the latter
\* TLC finds a commit with Flux resumed.
THEOREM CommitsAreSuspended ==
  ASSUME KustomizationCurrent, "resume" \notin Disturbances
  PROVE  Spec => CommitWhileSuspended
<1>1. Init => PushInv
  BY DEF Init, PushInv, Accepted, NewObject
<1>2. IInv /\ PushInv /\ [Next]_vars => PushInv'
  BY PushStep
<1>3. PushInv /\ [Next]_vars
        => [(pc = "push" /\ pc' = "update") \/ git' # git => suspended]_vars
  <2>1. ASSUME PushInv, Next, git' # git PROVE pc = "push"
    BY <2>1 DEF Next, Reconcile, WorkerStep, handleSuspend, handleScaleDown,
          checkScaledDown, createSnapshotsForUpgrade, awaitSnapshots, handleCommitting,
          commitFile, handleReconciling, handleHealthChecking, handleCompleted,
          statusUpdate, removeFinalizer, Crash, Delete, Sync, Tick, clusterVars,
          ClusterNext, FluxApply, PodStart, PodReady, PodStop, SnapshotReady,
          ExternalResume, updateManagedAppStatus
  <2> QED
    BY <2>1 DEF PushInv
<1> QED
  BY <1>1, <1>2, <1>3, Invariance, PTL DEF Spec, CommitWhileSuspended
-----------------------------------------------------------------------------
(* Snapshots before the commit *)

\* The ManagedApp lists its claims; with discovered ones the property fails.
ClaimsListed == \A s \in AppSpecs : s.explicitPVCs

\* Every claim has a recorded snapshot, and there is one in that place.
Full(o) == \A p \in PVCs : o.pvcSnapshots[p] \in 1..Len(snaps[p])

\* None of the recorded snapshots is still being taken.
Settled(o) == \A p \in PVCs : SnapshotOf(o, p) # "pending"

\* Snapshots are recorded for all claims or for none, and SnapshotReady is set
\* only when they are recorded and none of them is pending.
SnapsOf(r, o) ==
  /\ Recorded(o) = {} \/ Full(o)
  /\ o.snapshotReady /\ SnapshotsEnabled(r) => Recorded(o) # {} /\ Settled(o)

\* What q says of the snapshots contains what o says: o may be an older version.
Behind(o, q) ==
  /\ o.snapshotReady => q.snapshotReady
  /\ Recorded(o) # {} => q.pvcSnapshots = o.pvcSnapshots

\* SnapshotsPrecedeCommit is not inductive: it needs the same of what is stored,
\* of what the cache still says and of what the worker is about to write.
SnapInv ==
  /\ \A r \in Requests :
       /\ SnapsOf(r, obj[r]) /\ SnapsOf(r, cache[r])
       /\ Behind(cache[r], obj[r])
       /\ commits[r] # {} => obj[r].snapshotReady
  /\ pc # "idle" => /\ SnapsOf(cur, base) /\ SnapsOf(cur, mem)
                    /\ Behind(base, mem) /\ Behind(base, obj[cur])

\* The two objects say the same of the snapshots.
SameSnaps(o, q) ==
  q.snapshotReady = o.snapshotReady /\ q.pvcSnapshots = o.pvcSnapshots

\* A pod can start.
PodMissing == \E w \in replicas : pods[w] = "none"

\* Snapshots keep their place, none becomes pending again, and only one that is
\* pending is spoilt, by a pod that starts.
SnapsKept ==
  \A p \in PVCs : \A i \in 1..Len(snaps[p]) :
    /\ i \in 1..Len(snaps'[p])
    /\ snaps[p][i].state # "pending" => snaps'[p][i].state # "pending"
    /\ snaps[p][i].quiet =>
         snaps'[p][i].quiet \/ (snaps[p][i].state = "pending" /\ PodMissing)

\* No step takes a snapshot away, makes it pending again or spoils it later.
LEMMA SnapsMonotone ==
  ASSUME TypeOK, [Next]_vars
  PROVE  SnapsKept
<1>1. snaps \in [PVCs -> Seq(Snapshot)]
  BY DEF TypeOK, ClusterTypeOK
<1>2. ASSUME UNCHANGED snaps PROVE SnapsKept
  BY <1>2 DEF SnapsKept
<1>3. ASSUME NEW P, CreateSnapshots(P) PROVE SnapsKept
  <2> SUFFICES ASSUME NEW p \in PVCs, NEW i \in 1..Len(snaps[p])
               PROVE  i \in 1..Len(snaps'[p]) /\ snaps'[p][i] = snaps[p][i]
    BY DEF SnapsKept
  <2>1. snaps[p] \in Seq(Snapshot)
    BY <1>1
  <2>2. \/ snaps'[p] = snaps[p]
        \/ snaps'[p] = Append(snaps[p], [state |-> "pending", quiet |-> Quiet(p)])
    BY <1>3 DEF CreateSnapshots
  <2> QED
    BY <2>1, <2>2
<1>4. ASSUME NEW P, ApplyRetentionPolicy(P) PROVE SnapsKept
  <2> SUFFICES ASSUME NEW p \in PVCs, NEW i \in 1..Len(snaps[p])
               PROVE  /\ i \in 1..Len(snaps'[p])
                      /\ snaps'[p][i] = snaps[p][i] \/ snaps'[p][i].state = "deleted"
                      /\ snaps[p][i].quiet => snaps'[p][i].quiet
    BY DEF SnapsKept
  <2>1. snaps[p] \in Seq(Snapshot) /\ snaps[p][i] \in Snapshot
    BY <1>1
  <2>2. snaps'[p] = snaps[p] \/ snaps'[p] = Pruned(snaps[p])
    BY <1>4 DEF ApplyRetentionPolicy
  <2>3. CASE MaxCount # 0 /\ snaps'[p] = Pruned(snaps[p])
    <3>1. snaps'[p] = [j \in 1..Len(snaps[p]) |->
                         IF Cardinality(Newer(snaps[p], j)) >= MaxCount
                         THEN [snaps[p][j] EXCEPT !.state = "deleted"]
                         ELSE snaps[p][j]]
      BY <2>3 DEF Pruned
    <3>2. DOMAIN snaps'[p] = 1..Len(snaps[p]) /\ Len(snaps'[p]) = Len(snaps[p])
      <4>1. snaps'[p] \in Seq(Snapshot)
        BY <2>1, <2>3, PrunedType
      <4> QED
        BY <2>1, <3>1, <4>1
    <3>3. snaps'[p][i] = snaps[p][i] \/ snaps'[p][i] = [snaps[p][i] EXCEPT !.state = "deleted"]
      BY <3>1
    <3> QED
      BY <2>1, <3>2, <3>3 DEF Snapshot
  <2> QED
    BY <2>2, <2>3 DEF Pruned
<1>5. ASSUME NEW w, PodStart(w) PROVE SnapsKept
  <2> SUFFICES ASSUME NEW p \in PVCs, NEW i \in 1..Len(snaps[p])
               PROVE  /\ i \in 1..Len(snaps'[p])
                      /\ snaps'[p][i].state = snaps[p][i].state
                      /\ snaps'[p][i] = snaps[p][i] \/ snaps[p][i].state = "pending"
    BY <1>5 DEF SnapsKept, PodMissing, PodStart
  <2>1. snaps[p] \in Seq(Snapshot) /\ snaps[p][i] \in Snapshot
    BY <1>1
  <2>2. snaps'[p] = [j \in 1..Len(snaps[p]) |->
                       IF p \in Mounts[w] /\ snaps[p][j].state = "pending"
                       THEN [snaps[p][j] EXCEPT !.quiet = FALSE] ELSE snaps[p][j]]
    BY <1>5 DEF PodStart
  <2>3. \A j \in 1..Len(snaps[p]) : snaps[p][j] \in Snapshot
    BY <2>1
  <2>4. snaps'[p] \in [1..Len(snaps[p]) -> Snapshot]
    BY <2>2, <2>3, SnapshotType
  <2>5. Len(snaps'[p]) = Len(snaps[p])
    BY <2>1, <2>4
  <2>6. \/ snaps'[p][i] = snaps[p][i]
        \/ /\ snaps'[p][i] = [snaps[p][i] EXCEPT !.quiet = FALSE]
           /\ snaps[p][i].state = "pending"
    BY <2>2
  <2> QED
    BY <2>1, <2>5, <2>6 DEF Snapshot
<1>6. ASSUME NEW q \in PVCs, NEW j, SnapshotReady(q, j) PROVE SnapsKept
  <2> SUFFICES ASSUME NEW p \in PVCs, NEW i \in 1..Len(snaps[p])
               PROVE  /\ i \in 1..Len(snaps'[p])
                      /\ snaps'[p][i] = snaps[p][i] \/ snaps'[p][i].state = "ready"
                      /\ snaps[p][i].quiet => snaps'[p][i].quiet
    BY DEF SnapsKept
  <2>1. snaps[p] \in Seq(Snapshot) /\ snaps[p][i] \in Snapshot
    BY <1>1
  <2>2. snaps'[p] = IF p = q THEN [snaps[p] EXCEPT ![j] = [snaps[p][j] EXCEPT !.state = "ready"]]
                    ELSE snaps[p]
    BY <1>1, <1>6 DEF SnapshotReady
  <2>3. j \in 1..Len(snaps[q])
    BY <1>6 DEF SnapshotReady
  <2> QED
    BY <2>1, <2>2, <2>3 DEF Snapshot
<1>7. CASE WorkerStep
  BY <1>2, <1>3, <1>4, <1>7
     DEF WorkerStep, handleSuspend, handleScaleDown, checkScaledDown,
         createSnapshotsForUpgrade, awaitSnapshots, handleCommitting, commitFile,
         handleReconciling, handleHealthChecking, handleCompleted, statusUpdate,
         removeFinalizer, clusterVars
<1>8. CASE ClusterNext
  BY <1>2, <1>5, <1>6, <1>8
     DEF ClusterNext, FluxApply, PodReady, PodStop, ExternalResume, updateManagedAppStatus
<1> QED
  BY <1>2, <1>7, <1>8 DEF Next, vars, clusterVars, Reconcile, Crash, Delete, Sync, Tick

\* What is recorded stays right while snapshots keep their places.
LEMMA SnapsOfKept ==
  ASSUME SnapsKept, app'.spec = app.spec, ask' = ask, NEW r, NEW o \in Object, SnapsOf(r, o)
  PROVE  SnapsOf(r, o)'
  BY DEF SnapsKept, SnapsOf, Full, Settled, Recorded, SnapshotOf, SnapshotsEnabled

\* SnapsOf is about nothing but the snapshots.
LEMMA SameSnapsOf ==
  ASSUME NEW r, NEW o, NEW q, SameSnaps(o, q), SnapsOf(r, o)
  PROVE  SnapsOf(r, q)
  BY DEF SameSnaps, SnapsOf, Full, Settled, Recorded, SnapshotOf

\* So is Behind.
LEMMA BehindSame ==
  ASSUME NEW o, NEW q, SameSnaps(o, q)
  PROVE  /\ \A x : Behind(x, o) => Behind(x, q)
         /\ \A x : Behind(o, x) => Behind(q, x)
         /\ Behind(o, q)
  BY DEF SameSnaps, Behind, Recorded

\* Older than an older version is older.
LEMMA BehindTrans ==
  ASSUME NEW o, NEW q, NEW x, Behind(o, q), Behind(q, x)
  PROVE  Behind(o, x)
  BY DEF Behind, Recorded

\* Timers, finalizers and deletions say nothing about snapshots.
LEMMA TouchedSnaps ==
  ASSUME NEW o \in Object, NEW q, Touched(o, q)
  PROVE  SameSnaps(o, q)
  BY DEF Touched, Object, SameSnaps

\* A failure says nothing about snapshots.
LEMMA FailSnaps ==
  ASSUME NEW m \in Object, NEW s, NEW n, setFailed(m, s, n)
  PROVE  SameSnaps(m, mem') /\ cur' = cur /\ base' = base
  BY DEF setFailed, WriteStatus, SameSnaps, Object

\* Nor does the timer.
LEMMA TimerSnaps ==
  ASSUME NEW m \in Object
  PROVE  /\ SameSnaps(m, setPhaseStartIfNeeded(m)) /\ SameSnaps(m, resetPhaseStart(m))
         /\ SameSnaps(m, Older(m))
  BY DEF SameSnaps, setPhaseStartIfNeeded, resetPhaseStart, Older, Object

\* Handlers other than handleSuspend and handleSnapshotting leave the
\* snapshots of the copy alone, or drop the copy.
LEMMA OtherHandlerSnaps ==
  ASSUME TypeOK,
         \/ handleScaleDown \/ checkScaledDown \/ handleCommitting \/ commitFile
         \/ handleReconciling \/ handleHealthChecking \/ handleCompleted
  PROVE  Return \/ (SameSnaps(mem, mem') /\ cur' = cur /\ base' = base)
<1> DEFINE m == setPhaseStartIfNeeded(mem)
<1>1. mem \in Object /\ base \in Object /\ m \in Object /\ SameSnaps(mem, m)
  BY TimerType, TimerSnaps DEF TypeOK
<1> HIDE DEF m
<1> USE FailSnaps DEF Fail, WriteStatus, SameSnaps
<1>2. CASE handleScaleDown
  BY <1>1, <1>2 DEF handleScaleDown, m, Object
<1>3. CASE checkScaledDown
  BY <1>1, <1>3 DEF checkScaledDown, resetPhaseStart, Object
<1>4. CASE handleCommitting
  BY <1>1, <1>4 DEF handleCommitting, Object
<1>5. CASE commitFile
  <2> DEFINE undone == [mem EXCEPT !.newVersion = base.newVersion,
                                   !.previousVersion = base.previousVersion]
  <2>1. undone \in Object /\ SameSnaps(mem, undone)
    BY <1>1 DEF Object
  <2>2. SameSnaps(mem, [mem EXCEPT !.gitCommitted = TRUE])
    BY <1>1 DEF Object
  <2> HIDE DEF undone
  <2> QED
    BY <1>5, <2>1, <2>2 DEF commitFile, undone
<1>6. CASE handleReconciling
  <2> DEFINE q == [m EXCEPT !.suspended = "false"]
  <2>1. /\ q \in Object /\ SameSnaps(m, q)
        /\ SameSnaps(m, [resetPhaseStart(q) EXCEPT !.reconciled = TRUE])
    <3>1. q \in Object
      BY <1>1, ConditionType
    <3> QED
      BY <1>1, <3>1 DEF Object, resetPhaseStart
  <2> HIDE DEF q
  <2> QED
    BY <1>1, <1>6, <2>1 DEF handleReconciling, m, q
<1>7. CASE handleHealthChecking
  BY <1>1, <1>7 DEF handleHealthChecking, m, Object
<1>8. CASE handleCompleted
  BY <1>1, <1>8 DEF handleCompleted, Object
<1> QED
  BY <1>2, <1>3, <1>4, <1>5, <1>6, <1>7, <1>8

\* The handlers that set SnapshotReady or record snapshots.
LEMMA SnapHandlers ==
  ASSUME ClaimsListed, IInv, SnapInv, SnapsKept, app'.spec = app.spec, ask' = ask,
         handleSuspend \/ createSnapshotsForUpgrade \/ awaitSnapshots
  PROVE  \/ Return
         \/ SnapsOf(cur, mem)' /\ Behind(base, mem)' /\ cur' = cur /\ base' = base
<1> DEFINE m == setPhaseStartIfNeeded(mem)
<1>1. /\ mem \in Object /\ base \in Object /\ m \in Object /\ SameSnaps(mem, m)
      /\ mem = base /\ pc = "run" /\ cur \in Requests /\ mem' \in Object
  <2>1. pc = "run"
    BY DEF handleSuspend, createSnapshotsForUpgrade, awaitSnapshots, At
  <2>2. TypeOK'
    BY SuspendType, CreateType, AwaitType DEF IInv
  <2> QED
    BY <2>1, <2>2, TimerType, TimerSnaps DEF TypeOK, IInv, OneStageAhead
<1>2. SnapsOf(cur, mem) /\ SnapsOf(cur, m) /\ Behind(base, m) /\ Behind(base, mem)
  BY <1>1, SameSnapsOf, BehindSame DEF SnapInv
<1> HIDE DEF m
<1>3. ASSUME NEW q \in Object, SameSnaps(mem, q), mem' = q, cur' = cur, base' = base
      PROVE  SnapsOf(cur, mem)' /\ Behind(base, mem)'
  <2>1. SnapsOf(cur, q) /\ Behind(base, q)
    BY <1>2, <1>3, SameSnapsOf, BehindSame
  <2>2. SnapsOf(cur, mem)'
    BY <1>3, <2>1, SnapsOfKept
  <2> QED
    BY <1>3, <2>1, <2>2 DEF Behind, Recorded
<1>4. ASSUME NEW q \in Object, SameSnaps(mem, q), NEW s, NEW n, setFailed(q, s, n)
      PROVE  SnapsOf(cur, mem)' /\ Behind(base, mem)' /\ cur' = cur /\ base' = base
  <2>1. SameSnaps(q, mem') /\ cur' = cur /\ base' = base
    BY <1>4, FailSnaps
  <2>2. SameSnaps(mem, mem')
    BY <1>4, <2>1 DEF SameSnaps
  <2> QED
    BY <1>1, <1>3, <2>1, <2>2
<1>5. CASE handleSuspend
  <2>1. CASE Fail(mem, 1) \/ Fail(mem, 0) \/ setFailed(mem, TRUE, 1)
    BY <1>1, <1>4, <2>1 DEF Fail, SameSnaps
  <2>2. ASSUME WriteStatus(
                 [mem EXCEPT !.suspended = "true",
                             !.snapshotReady = mem.snapshotReady \/ ~SnapshotsEnabled(cur)],
                 "return")
        PROVE  SnapsOf(cur, mem)' /\ Behind(base, mem)' /\ cur' = cur /\ base' = base
    <3>1. /\ mem'.pvcSnapshots = mem.pvcSnapshots
          /\ mem'.snapshotReady = (mem.snapshotReady \/ ~SnapshotsEnabled(cur))
          /\ cur' = cur /\ base' = base
      BY <1>1, <2>2 DEF WriteStatus, Object
    <3>2. SnapsOf(cur, mem')
      BY <1>2, <3>1 DEF SnapsOf, Full, Settled, Recorded, SnapshotOf
    <3>3. SnapsOf(cur, mem)'
      BY <1>1, <3>1, <3>2, SnapsOfKept
    <3> QED
      BY <1>1, <3>1, <3>3 DEF Behind, Recorded
  <2> QED
    BY <1>5, <2>1, <2>2 DEF handleSuspend
<1>6. CASE createSnapshotsForUpgrade
  <2>1. DiscoverPVCs = PVCs /\ PVCs # {}
    BY ClusterAssumption DEF ClaimsListed, IInv, TypeOK, ClusterTypeOK, DiscoverPVCs
  <2>2. CASE Fail(m, 1) \/ Fail(m, 0)
    BY <1>1, <1>4, <2>2 DEF Fail
  <2>3. ASSUME CreateSnapshots(PVCs),
               WriteStatus([m EXCEPT !.pvcSnapshots =
                              [p \in PVCs |-> IF p \in PVCs THEN Len(snaps[p]) + 1 ELSE 0]], "run")
        PROVE  SnapsOf(cur, mem)' /\ Behind(base, mem)' /\ cur' = cur /\ base' = base
    <3>1. /\ mem'.pvcSnapshots = [p \in PVCs |-> Len(snaps[p]) + 1]
          /\ mem'.snapshotReady = m.snapshotReady
          /\ cur' = cur /\ base' = base
      BY <1>1, <2>3 DEF WriteStatus, Object
    <3>2. Recorded(base) = {} /\ ~base.snapshotReady
      BY <1>1, <1>6 DEF createSnapshotsForUpgrade, At, Phase
    <3>3. ~m.snapshotReady
      BY <1>1, <3>2 DEF SameSnaps
    <3>4. \A p \in PVCs : mem'.pvcSnapshots[p] \in 1..Len(snaps'[p])
      <4> TAKE p \in PVCs
      <4>1. snaps[p] \in Seq(Snapshot)
        BY DEF IInv, TypeOK, ClusterTypeOK
      <4>2. snaps'[p] = Append(snaps[p], [state |-> "pending", quiet |-> Quiet(p)])
        BY <2>3 DEF CreateSnapshots
      <4> QED
        BY <3>1, <4>1, <4>2
    <3> QED
      BY <3>1, <3>2, <3>3, <3>4 DEF SnapsOf, Full, Behind
  <2> QED
    BY <1>6, <2>1, <2>2, <2>3 DEF createSnapshotsForUpgrade, m
<1>7. CASE awaitSnapshots
  <2>1. CASE Fail(m, 1) \/ Fail(m, 0)
    BY <1>1, <1>4, <2>1 DEF Fail
  <2>2. ASSUME ~ \E p \in Recorded(mem) : SnapshotOf(mem, p) = "pending",
               WriteStatus([resetPhaseStart(m) EXCEPT !.snapshotReady = TRUE], "return")
        PROVE  SnapsOf(cur, mem)' /\ Behind(base, mem)' /\ cur' = cur /\ base' = base
    <3>1. /\ mem'.pvcSnapshots = mem.pvcSnapshots /\ mem'.snapshotReady
          /\ cur' = cur /\ base' = base
      BY <1>1, <2>2 DEF WriteStatus, Object, SameSnaps, resetPhaseStart
    <3>2. Recorded(mem) # {} /\ Full(mem)
      BY <1>2, <1>7 DEF awaitSnapshots, SnapsOf
    <3>3. Recorded(mem) = PVCs
      BY <3>2 DEF Full, Recorded
    <3>4. Settled(mem)
      BY <2>2, <3>3 DEF Settled
    <3>5. SnapsOf(cur, mem')
      BY <3>1, <3>2, <3>4 DEF SnapsOf, Full, Settled, Recorded, SnapshotOf
    <3>6. SnapsOf(cur, mem)'
      BY <1>1, <3>1, <3>5, SnapsOfKept
    <3> QED
      BY <1>1, <3>1, <3>6 DEF Behind, Recorded
  <2> QED
    BY <1>7, <2>1, <2>2 DEF awaitSnapshots, m
<1> QED
  BY <1>5, <1>6, <1>7

\* A write over the object that was read, of a copy that follows it.
LEMMA StoreSnaps ==
  ASSUME TypeOK, SnapInv, NEW r \in Requests, NEW o \in Object, Store(r, o),
         SnapsOf(r, o), Behind(obj[r], o), UNCHANGED <<snaps, app, ask, commits>>
  PROVE  /\ \A q \in Requests : /\ SnapsOf(q, obj[q])' /\ SnapsOf(q, cache[q])'
                                /\ Behind(cache[q], obj[q])'
                                /\ commits'[q] # {} => obj'[q].snapshotReady
         /\ \A q \in Requests : \A x : Behind(x, obj[q]) => Behind(x, obj'[q])
<1> SUFFICES ASSUME NEW q \in Requests
             PROVE  /\ SnapsOf(q, obj'[q]) /\ SnapsOf(q, cache'[q])
                    /\ Behind(cache'[q], obj'[q])
                    /\ commits[q] # {} => obj'[q].snapshotReady
                    /\ \A x : Behind(x, obj[q]) => Behind(x, obj'[q])
  BY DEF SnapsOf, Full, Settled, Recorded, SnapshotOf, SnapshotsEnabled, Behind
<1>1. obj'[q] = (IF q = r THEN o ELSE obj[q]) /\ cache'[q] \in {obj'[q], cache[q]}
  BY DEF Store, TypeOK
<1>2. CASE q # r
  <2>1. obj'[q] = obj[q] /\ cache'[q] = cache[q]
    BY <1>2 DEF Store, TypeOK
  <2> QED
    BY <2>1 DEF SnapInv
<1>3. CASE q = r
  <2>1. SnapsOf(q, obj'[q]) /\ SnapsOf(q, cache'[q])
    BY <1>1, <1>3 DEF SnapInv
  <2>2. \A x : Behind(x, obj[q]) => Behind(x, obj'[q])
    BY <1>1, <1>3, BehindTrans
  <2>3. Behind(cache'[q], obj'[q])
    BY <1>1, <2>2 DEF SnapInv, Behind
  <2>4. commits[q] # {} => obj'[q].snapshotReady
    BY <1>1, <1>3 DEF SnapInv, Behind
  <2> QED
    BY <2>1, <2>2, <2>3, <2>4
<1> QED
  BY <1>2, <1>3

\* The worker's part of the invariant, and that of the objects.
WorkerSnaps ==
  pc # "idle" => /\ SnapsOf(cur, base) /\ SnapsOf(cur, mem)
                 /\ Behind(base, mem) /\ Behind(base, obj[cur])

\* The invariant of what is stored and cached.
ObjectSnaps ==
  \A r \in Requests :
    /\ SnapsOf(r, obj[r]) /\ SnapsOf(r, cache[r])
    /\ Behind(cache[r], obj[r])
    /\ commits[r] # {} => obj[r].snapshotReady

\* The invariant in two parts: what is stored, and what the worker holds.
LEMMA SnapParts == SnapInv <=> ObjectSnaps /\ WorkerSnaps
  BY DEF SnapInv, ObjectSnaps, WorkerSnaps

\* Objects that no step writes.
LEMMA StillSnaps ==
  ASSUME TypeOK, ObjectSnaps, SnapsKept, app'.spec = app.spec, ask' = ask,
         UNCHANGED <<obj, cache, commits>>
  PROVE  ObjectSnaps'
<1> SUFFICES ASSUME NEW r \in Requests
             PROVE  SnapsOf(r, obj[r])' /\ SnapsOf(r, cache[r])' /\ Behind(cache[r], obj[r])'
                    /\ (commits'[r] # {} => obj'[r].snapshotReady)
  BY DEF ObjectSnaps
<1>1. obj[r] \in Object /\ cache[r] \in Object
  BY DEF TypeOK
<1>2. SnapsOf(r, obj[r])' /\ SnapsOf(r, cache[r])'
  BY <1>1, SnapsOfKept DEF ObjectSnaps
<1> QED
  BY <1>2 DEF ObjectSnaps, Behind, Recorded

\* A worker that goes on with the same copy.
LEMMA StillWorker ==
  ASSUME TypeOK, WorkerSnaps, SnapsKept, app'.spec = app.spec, ask' = ask,
         UNCHANGED <<obj, workerVars>>
  PROVE  WorkerSnaps'
<1> SUFFICES ASSUME pc # "idle"
             PROVE  SnapsOf(cur, base)' /\ SnapsOf(cur, mem)' /\ Behind(base, mem)'
                    /\ Behind(base, obj[cur])'
  BY DEF WorkerSnaps, workerVars
<1>1. base \in Object /\ mem \in Object
  BY DEF TypeOK
<1>2. SnapsOf(cur, base)' /\ SnapsOf(cur, mem)'
  BY <1>1, SnapsOfKept DEF WorkerSnaps, workerVars
<1> QED
  BY <1>2 DEF WorkerSnaps, workerVars, Behind, Recorded

\* Taking up a request: the worker's copy is what the cache says.
LEMMA ReconcileSnaps ==
  ASSUME IInv, SnapInv, NEW r \in Requests, Reconcile(r)
  PROVE  SnapInv'
<1>1. TypeOK /\ obj[r] \in Object /\ cache[r] \in Object /\ ObjectSnaps
  BY SnapParts DEF IInv, TypeOK
<1>2. UNCHANGED <<snaps, app, ask, commits>>
  BY DEF Reconcile, clusterVars
<1>3. ASSUME NEW o \in Object, Touched(obj[r], o), Store(r, o), UNCHANGED workerVars
      PROVE  SnapInv'
  <2>1. SameSnaps(obj[r], o) /\ SnapsOf(r, o) /\ Behind(obj[r], o)
    BY <1>1, <1>3, TouchedSnaps, SameSnapsOf, BehindSame DEF ObjectSnaps
  <2>2. ObjectSnaps'
    BY <1>1, <1>2, <1>3, <2>1, StoreSnaps DEF ObjectSnaps
  <2>3. WorkerSnaps'
    BY <1>3 DEF WorkerSnaps, workerVars, Reconcile
  <2> QED
    BY <2>2, <2>3 DEF SnapInv, ObjectSnaps, WorkerSnaps
<1>4. ASSUME pc' = "run", cur' = r, base' = cache[r], mem' = cache[r], UNCHANGED <<obj, cache>>
      PROVE  SnapInv'
  <2>1. SnapsKept /\ app'.spec = app.spec
    BY <1>2 DEF SnapsKept
  <2>2. ObjectSnaps'
    BY <1>1, <1>2, <1>4, <2>1, StillSnaps
  <2>3. WorkerSnaps'
    <3>1. SnapsOf(r, cache[r])'
      BY <2>2 DEF ObjectSnaps
    <3>2. SnapsOf(cur, base)' /\ SnapsOf(cur, mem)'
      BY <1>4, <3>1
    <3>3. Behind(base, mem)' /\ Behind(base, obj[cur])'
      BY <1>1, <1>4 DEF ObjectSnaps, Behind, Recorded
    <3> QED
      BY <3>2, <3>3 DEF WorkerSnaps
  <2> QED
    BY <2>2, <2>3 DEF SnapInv, ObjectSnaps, WorkerSnaps
<1>5. /\ Touched(obj[r], [obj[r] EXCEPT !.finalizer = FALSE, !.life = "gone"])
      /\ Touched(obj[r], [obj[r] EXCEPT !.finalizer = TRUE])
      /\ [obj[r] EXCEPT !.finalizer = FALSE, !.life = "gone"] \in Object
      /\ [obj[r] EXCEPT !.finalizer = TRUE] \in Object
  <2>1. [obj[r] EXCEPT !.finalizer = FALSE, !.life = "gone"] \in Object
    BY <1>1 DEF Object
  <2>2. [obj[r] EXCEPT !.finalizer = TRUE] \in Object
    BY <1>1 DEF Object
  <2> QED
    BY <1>1, <2>1, <2>2, TouchedFinalizer
<1> QED
  BY <1>3, <1>4, <1>5 DEF Reconcile

\* After a handler: the copy's part is known, the objects are as they were.
LEMMA HandlerSnaps ==
  ASSUME ClaimsListed, IInv, SnapInv, SnapsKept, app'.spec = app.spec, ask' = ask,
         UNCHANGED <<obj, cache>>, pc # "idle",
         \/ handleSuspend \/ handleScaleDown \/ checkScaledDown
         \/ createSnapshotsForUpgrade \/ awaitSnapshots
         \/ handleCommitting \/ commitFile
         \/ handleReconciling \/ handleHealthChecking \/ handleCompleted
  PROVE  SnapInv'
<1>1. /\ TypeOK /\ ObjectSnaps /\ WorkerSnaps /\ cur \in Requests
      /\ base \in Object /\ mem \in Object
  BY SnapParts DEF IInv, TypeOK
<1>2. WorkerSnaps'
  <2>1. CASE Return
    BY <2>1 DEF Return, WorkerSnaps
  <2>2. ASSUME SnapsOf(cur, mem)', Behind(base, mem)', cur' = cur, base' = base
        PROVE  WorkerSnaps'
    <3>1. SnapsOf(cur, base)'
      BY <1>1, <2>2, SnapsOfKept DEF WorkerSnaps
    <3>2. Behind(base, obj[cur])'
      BY <1>1, <2>2 DEF WorkerSnaps, Behind, Recorded
    <3> QED
      BY <2>2, <3>1, <3>2 DEF WorkerSnaps
  <2>3. ASSUME SameSnaps(mem, mem'), cur' = cur, base' = base PROVE WorkerSnaps'
    <3>1. SnapsOf(cur, mem') /\ Behind(base, mem')
      BY <1>1, <2>3, SameSnapsOf, BehindSame DEF WorkerSnaps
    <3>3. SnapsOf(cur, mem)'
      BY <2>3, <3>1
         DEF SnapsOf, SnapsKept, Full, Settled, Recorded, SnapshotOf, SnapshotsEnabled
    <3>4. Behind(base, mem)'
      BY <2>3, <3>1 DEF Behind, Recorded
    <3> QED
      BY <2>2, <2>3, <3>3, <3>4
  <2> QED
    BY <1>1, <2>1, <2>2, <2>3, SnapHandlers, OtherHandlerSnaps
<1>3. CASE UNCHANGED commits
  <2>1. ObjectSnaps'
    BY <1>1, <1>3, StillSnaps
  <2> QED
    BY <1>2, <2>1 DEF SnapInv, ObjectSnaps, WorkerSnaps
<1>4. CASE commitFile
  <2>1. base.snapshotReady
    BY <1>4 DEF IInv, OneStageAhead, commitFile, Stage, Phase
  <2>2. obj[cur].snapshotReady
    BY <1>1, <2>1 DEF WorkerSnaps, Behind
  <2>3. ObjectSnaps'
    <3> SUFFICES ASSUME NEW r \in Requests
                 PROVE  /\ SnapsOf(r, obj[r])' /\ SnapsOf(r, cache[r])' /\ Behind(cache[r], obj[r])'
                        /\ commits'[r] # {} => obj'[r].snapshotReady
      BY DEF ObjectSnaps
    <3>1. obj[r] \in Object /\ cache[r] \in Object
      BY <1>1 DEF TypeOK
    <3>2. SnapsOf(r, obj[r])' /\ SnapsOf(r, cache[r])'
      BY <1>1, <3>1, SnapsOfKept DEF ObjectSnaps
    <3>3. Behind(cache[r], obj[r])'
      BY <1>1 DEF ObjectSnaps, Behind, Recorded
    <3>4. commits'[r] = commits[r] \/ r = cur
      BY <1>1, <1>4 DEF commitFile, TypeOK
    <3> QED
      BY <1>1, <2>2, <3>2, <3>3, <3>4 DEF ObjectSnaps
  <2> QED
    BY <1>2, <2>3 DEF SnapInv, ObjectSnaps, WorkerSnaps
<1> QED
  BY <1>3, <1>4
     DEF handleSuspend, handleScaleDown, checkScaledDown, createSnapshotsForUpgrade,
         awaitSnapshots, handleCommitting, handleReconciling, handleHealthChecking,
         handleCompleted

\* Writes of the worker.
LEMMA UpdateSnaps ==
  ASSUME IInv, SnapInv, statusUpdate
  PROVE  SnapInv'
<1>1. /\ TypeOK /\ ObjectSnaps /\ WorkerSnaps /\ cur \in Requests
      /\ base \in Object /\ mem \in Object /\ pc # "idle"
  BY SnapParts DEF IInv, TypeOK, statusUpdate
<1>2. UNCHANGED <<snaps, app, ask, commits>> /\ SnapsKept
  BY DEF statusUpdate, clusterVars, SnapsKept
<1>3. CASE obj[cur] = base /\ Store(cur, mem)
  <2>1. ObjectSnaps'
    BY <1>1, <1>2, <1>3, StoreSnaps DEF ObjectSnaps, WorkerSnaps
  <2>2. CASE Return
    BY <2>1, <2>2 DEF Return, SnapInv, ObjectSnaps
  <2>3. CASE pc' = then /\ base' = mem /\ UNCHANGED <<cur, mem, then>>
    <3>1. obj'[cur] = mem
      BY <1>1, <1>3 DEF Store, TypeOK
    <3>2. SnapsOf(cur, mem)'
      BY <1>1, <1>2, <2>3, SnapsOfKept DEF WorkerSnaps
    <3>3. WorkerSnaps'
      BY <2>3, <3>1, <3>2 DEF WorkerSnaps, Behind
    <3> QED
      BY <2>1, <3>3 DEF SnapInv, ObjectSnaps, WorkerSnaps
  <2> QED
    BY <2>2, <2>3 DEF statusUpdate
<1>4. CASE Return /\ UNCHANGED <<obj, cache>>
  <2>1. ObjectSnaps'
    BY <1>1, <1>2, <1>4, StillSnaps
  <2> QED
    BY <1>4, <2>1 DEF Return, SnapInv, ObjectSnaps
<1> QED
  BY <1>3, <1>4 DEF statusUpdate

\* Removing the finalizer writes the copy as it was read.
LEMMA FinalizeSnaps ==
  ASSUME IInv, SnapInv, removeFinalizer
  PROVE  SnapInv'
<1> DEFINE o == [mem EXCEPT !.finalizer = FALSE]
<1>1. /\ TypeOK /\ ObjectSnaps /\ WorkerSnaps /\ cur \in Requests
      /\ base \in Object /\ mem \in Object /\ mem = base /\ pc # "idle"
  BY SnapParts DEF IInv, TypeOK, removeFinalizer, OneStageAhead
<1>2. UNCHANGED <<snaps, app, ask, commits>> /\ SnapsKept
  BY DEF removeFinalizer, clusterVars, SnapsKept
<1>3. o \in Object
  BY <1>1 DEF Object
<1>4. SnapsOf(cur, o) /\ Behind(mem, o)
  <2>1. SameSnaps(mem, o)
    BY <1>1, TouchedFinalizer, TouchedSnaps
  <2> QED
    BY <1>1, <2>1, SameSnapsOf, BehindSame DEF WorkerSnaps
<1> HIDE DEF o
<1>5. ObjectSnaps'
  <2>1. CASE obj[cur] = base /\ Store(cur, o)
    BY <1>1, <1>2, <1>3, <1>4, <2>1, StoreSnaps DEF ObjectSnaps
  <2>2. CASE UNCHANGED <<obj, cache>>
    BY <1>1, <1>2, <2>2, StillSnaps
  <2> QED
    BY <2>1, <2>2 DEF removeFinalizer, o
<1> QED
  BY <1>5 DEF removeFinalizer, Return, SnapInv, ObjectSnaps

\* A deletion leaves the status alone.
LEMMA DeleteSnaps ==
  ASSUME IInv, SnapInv, NEW r \in Requests, Delete(r)
  PROVE  SnapInv'
<1> DEFINE l == IF obj[r].finalizer THEN "deleting" ELSE "gone"
           o == [obj[r] EXCEPT !.life = l]
<1>1. TypeOK /\ ObjectSnaps /\ WorkerSnaps /\ obj[r] \in Object
  BY SnapParts DEF IInv, TypeOK
<1>2. UNCHANGED <<snaps, app, ask, commits, workerVars>> /\ Store(r, o) /\ SnapsKept
  BY DEF Delete, clusterVars, SnapsKept
<1>3. o \in Object /\ SameSnaps(obj[r], o)
  BY <1>1 DEF Object, SameSnaps
<1> HIDE DEF o
<1>4. SnapsOf(r, o) /\ Behind(obj[r], o)
  BY <1>1, <1>3, SameSnapsOf, BehindSame DEF ObjectSnaps
<1>5. /\ ObjectSnaps'
      /\ \A q \in Requests : \A x : Behind(x, obj[q]) => Behind(x, obj'[q])
  BY <1>1, <1>2, <1>3, <1>4, StoreSnaps DEF ObjectSnaps
<1>6. WorkerSnaps'
  <2> SUFFICES ASSUME pc # "idle"
               PROVE  SnapsOf(cur, base)' /\ SnapsOf(cur, mem)' /\ Behind(base, mem)'
                      /\ Behind(base, obj[cur])'
    BY <1>2 DEF WorkerSnaps, workerVars
  <2>1. cur \in Requests /\ mem \in Object /\ base \in Object
    BY <1>1 DEF TypeOK
  <2>2. SnapsOf(cur, base)' /\ SnapsOf(cur, mem)'
    BY <1>1, <1>2, <2>1, SnapsOfKept DEF WorkerSnaps, workerVars
  <2>3. Behind(base, obj'[cur])
    BY <1>1, <1>5, <2>1 DEF WorkerSnaps
  <2> QED
    BY <1>1, <1>2, <2>2, <2>3 DEF WorkerSnaps, workerVars, Behind, Recorded
<1> QED
  BY <1>5, <1>6 DEF SnapInv, ObjectSnaps, WorkerSnaps

\* The cache catches up with the API server.
LEMMA SyncSnaps ==
  ASSUME IInv, SnapInv, NEW r \in Requests, Sync(r)
  PROVE  SnapInv'
<1>1. TypeOK /\ ObjectSnaps /\ WorkerSnaps
  BY SnapParts DEF IInv
<1>2. /\ UNCHANGED <<snaps, app, ask, obj, commits, workerVars>> /\ SnapsKept
      /\ cache' = [cache EXCEPT ![r] = obj[r]]
  BY DEF Sync, clusterVars, SnapsKept
<1>3. ObjectSnaps'
  <2> SUFFICES ASSUME NEW q \in Requests
               PROVE  /\ SnapsOf(q, obj[q])' /\ SnapsOf(q, cache[q])' /\ Behind(cache[q], obj[q])'
                      /\ commits'[q] # {} => obj'[q].snapshotReady
    BY DEF ObjectSnaps
  <2>1. obj[q] \in Object /\ cache[q] \in Object /\ cache'[q] \in {obj[q], cache[q]}
    BY <1>1, <1>2 DEF TypeOK
  <2>2. SnapsOf(q, obj[q])' /\ SnapsOf(q, cache[q])'
    BY <1>1, <1>2, <2>1, SnapsOfKept DEF ObjectSnaps
  <2>3. Behind(cache[q], obj[q])'
    BY <1>1, <1>2, <2>1 DEF ObjectSnaps, Behind, Recorded
  <2> QED
    BY <1>1, <1>2, <2>2, <2>3 DEF ObjectSnaps
<1>4. WorkerSnaps'
  BY <1>1, <1>2, StillWorker
<1> QED
  BY <1>3, <1>4 DEF SnapInv, ObjectSnaps, WorkerSnaps

\* Time ages timers.
LEMMA TickSnaps ==
  ASSUME IInv, SnapInv, Tick
  PROVE  SnapInv'
<1>1. /\ TypeOK /\ ObjectSnaps /\ WorkerSnaps /\ base \in Object /\ mem \in Object
      /\ \A r \in Requests : obj[r] \in Object /\ cache[r] \in Object
  BY SnapParts DEF IInv, TypeOK
<1>2. UNCHANGED <<snaps, app, ask, pc, cur, commits>> /\ SnapsKept
  BY DEF Tick, clusterVars, SnapsKept
<1>3. /\ \A r \in Requests : SameSnaps(obj[r], obj'[r]) /\ SameSnaps(cache[r], cache'[r])
      /\ SameSnaps(base, base') /\ SameSnaps(mem, mem')
  BY <1>1, TimerSnaps DEF Tick
<1>4. ASSUME NEW r, NEW o, NEW q, SameSnaps(o, q), SnapsOf(r, o) PROVE SnapsOf(r, q)'
  BY <1>2, <1>4 DEF SameSnaps, SnapsOf, Full, Settled, Recorded, SnapshotOf, SnapshotsEnabled
<1>5. ASSUME NEW o, NEW p, NEW q, NEW x, SameSnaps(o, p), SameSnaps(q, x), Behind(o, q)
      PROVE  Behind(p, x)
  BY <1>5 DEF SameSnaps, Behind, Recorded
<1>6. ObjectSnaps'
  BY <1>1, <1>2, <1>3, <1>4, <1>5 DEF ObjectSnaps, SameSnaps, Behind, Recorded
<1>7. WorkerSnaps'
  <2> SUFFICES ASSUME pc # "idle"
               PROVE  SnapsOf(cur, base)' /\ SnapsOf(cur, mem)' /\ Behind(base, mem)'
                      /\ Behind(base, obj[cur])'
    BY <1>2 DEF WorkerSnaps
  <2>1. cur \in Requests
    BY <1>1 DEF TypeOK
  <2>2. SnapsOf(cur, base)' /\ SnapsOf(cur, mem)'
    BY <1>1, <1>2, <1>3, <1>4 DEF WorkerSnaps
  <2>3. Behind(base', mem') /\ Behind(base', obj'[cur])
    BY <1>1, <1>3, <1>5, <2>1 DEF WorkerSnaps
  <2> QED
    BY <1>2, <2>2, <2>3 DEF Behind, Recorded
<1> QED
  BY <1>6, <1>7 DEF SnapInv, ObjectSnaps, WorkerSnaps

\* Every step preserves the invariant when the claims are listed.
LEMMA SnapStep ==
  ASSUME ClaimsListed, IInv, SnapInv, [Next]_vars
  PROVE  SnapInv'
<1>1. TypeOK /\ ObjectSnaps /\ WorkerSnaps
  BY SnapParts DEF IInv
<1>2. SnapsKept /\ app'.spec = app.spec /\ ask' = ask
  BY <1>1, SnapsMonotone, SpecsFixed
<1>3. ASSUME UNCHANGED <<obj, cache, commits, workerVars>> PROVE SnapInv'
  <2>1. ObjectSnaps' /\ WorkerSnaps'
    BY <1>1, <1>2, <1>3, StillSnaps, StillWorker
  <2> QED
    BY <2>1 DEF SnapInv, ObjectSnaps, WorkerSnaps
<1>4. CASE WorkerStep
  <2>1. CASE statusUpdate \/ removeFinalizer
    BY <2>1, UpdateSnaps, FinalizeSnaps
  <2>2. CASE ~statusUpdate /\ ~removeFinalizer
    <3>1. UNCHANGED <<obj, cache>> /\ pc # "idle"
      BY <1>4, <2>2
         DEF WorkerStep, handleSuspend, handleScaleDown, checkScaledDown,
             createSnapshotsForUpgrade, awaitSnapshots, handleCommitting, commitFile,
             handleReconciling, handleHealthChecking, handleCompleted, At
    <3> QED
      BY <1>2, <1>4, <2>2, <3>1, HandlerSnaps DEF WorkerStep
  <2> QED
    BY <2>1, <2>2
<1>5. CASE Crash
  <2>1. ObjectSnaps'
    BY <1>1, <1>2, <1>5, StillSnaps DEF Crash
  <2> QED
    BY <1>5, <2>1 DEF Crash, Return, SnapInv, ObjectSnaps
<1>6. CASE ClusterNext /\ UNCHANGED <<ask, obj, cache, workerVars, rollbacks, commits, faults>>
  BY <1>3, <1>6
<1>7. CASE UNCHANGED vars
  BY <1>3, <1>7 DEF vars
<1> QED
  BY <1>4, <1>5, <1>6, <1>7, ReconcileSnaps, DeleteSnaps, SyncSnaps, TickSnaps DEF Next

\* When the ManagedApp lists its claims, a request that takes snapshots has, when
\* it has committed, recorded a snapshot of every claim, and none is pending:
\* retries, stale reads, quotas and other requests notwithstanding.
THEOREM SnapshotsComeFirst ==
  ASSUME ClaimsListed
  PROVE  Spec => []SnapshotsPrecedeCommit
<1>1. Init => SnapInv
  <2> SUFFICES ASSUME Init PROVE SnapInv
    OBVIOUS
  <2>1. Recorded(NewObject) = {} /\ ~NewObject.snapshotReady
    BY DEF Recorded, NewObject
  <2> QED
    BY <2>1 DEF Init, SnapInv, SnapsOf, Behind
<1>2. IInv /\ SnapInv /\ [Next]_vars => SnapInv'
  BY SnapStep
<1>3. SnapInv => SnapshotsPrecedeCommit
  BY DEF SnapInv, SnapsOf, SnapshotsPrecedeCommit, Settled, Full
<1> QED
  BY <1>1, <1>2, <1>3, Invariance, PTL DEF Spec

-----------------------------------------------------------------------------
(* A cache that does not lag *)

\* The controller's cache never lags behind the API server.
CacheCurrent == "stale" \notin Disturbances

\* The cache is the API server's state, and the worker's base is the stored
\* object unless that has been deleted meanwhile.
NoLag ==
  /\ cache = obj
  /\ pc # "idle" => /\ base.life = "live" /\ mem.life = "live"
                    /\ Touched(base, obj[cur])
                    /\ obj[cur].life = "live" => obj[cur] = base

\* Touching is symmetric and transitive.
LEMMA TouchedEquivalence ==
  ASSUME NEW o \in Object, NEW q \in Object, Touched(o, q)
  PROVE  /\ Touched(q, o)
         /\ \A x \in Object : Touched(q, x) => Touched(o, x)
<1>1. Touched(q, o)
  BY DEF Touched, Object
<1>2. ASSUME NEW x \in Object, Touched(q, x) PROVE Touched(o, x)
  BY <1>2 DEF Touched, Object
<1> QED
  BY <1>1, <1>2

\* A write reaches the cache at once.
LEMMA StoreNoLag ==
  ASSUME CacheCurrent, TypeOK, cache = obj, NEW r \in Requests, NEW o, Store(r, o)
  PROVE  cache' = obj' /\ obj'[r] = o /\ \A q \in Requests : q # r => obj'[q] = obj[q]
  BY DEF Store, CacheCurrent, TypeOK

\* A handler of a live request keeps it live.
LEMMA HandlerLife ==
  ASSUME TypeOK, pc # "idle" => mem.life = "live",
         \/ handleSuspend \/ handleScaleDown \/ checkScaledDown
         \/ createSnapshotsForUpgrade \/ awaitSnapshots
         \/ handleCommitting \/ commitFile
         \/ handleReconciling \/ handleHealthChecking \/ handleCompleted
  PROVE  Return \/ (mem'.life = "live" /\ cur' = cur /\ base' = base)
<1> DEFINE m == setPhaseStartIfNeeded(mem)
<1>1. /\ mem \in Object /\ base \in Object /\ m \in Object /\ mem.life = "live"
      /\ m.life = "live"
  <2>1. mem \in Object /\ base \in Object /\ m \in Object /\ pc # "idle"
    BY TimerType
       DEF TypeOK, handleSuspend, handleScaleDown, checkScaledDown,
           createSnapshotsForUpgrade, awaitSnapshots, handleCommitting, commitFile,
           handleReconciling, handleHealthChecking, handleCompleted, At
  <2> QED
    BY <2>1 DEF setPhaseStartIfNeeded, Object
<1> HIDE DEF m
<1>2. ASSUME NEW q \in Object, q.life = "live", NEW s, NEW n, setFailed(q, s, n)
      PROVE  mem'.life = "live" /\ cur' = cur /\ base' = base
  BY <1>2 DEF setFailed, WriteStatus, Object
<1> USE DEF Fail, WriteStatus
<1>3. CASE handleSuspend
  BY <1>1, <1>2, <1>3 DEF handleSuspend, Object
<1>4. CASE handleScaleDown
  BY <1>1, <1>2, <1>4 DEF handleScaleDown, Object, m
<1>5. CASE checkScaledDown
  BY <1>1, <1>2, <1>5 DEF checkScaledDown, resetPhaseStart, Object
<1>6. CASE createSnapshotsForUpgrade
  BY <1>1, <1>2, <1>6 DEF createSnapshotsForUpgrade, Object, m
<1>7. CASE awaitSnapshots
  BY <1>1, <1>2, <1>7 DEF awaitSnapshots, resetPhaseStart, Object, m
<1>8. CASE handleCommitting
  BY <1>1, <1>2, <1>8 DEF handleCommitting, Object
<1>9. CASE commitFile
  <2> DEFINE undone == [mem EXCEPT !.newVersion = base.newVersion,
                                   !.previousVersion = base.previousVersion]
  <2>1. undone \in Object /\ undone.life = "live"
    BY <1>1 DEF Object
  <2> HIDE DEF undone
  <2> QED
    BY <1>1, <1>2, <1>9, <2>1 DEF commitFile, undone, Object
<1>10. CASE handleReconciling
  <2> DEFINE q == [m EXCEPT !.suspended = "false"]
  <2>1. q \in Object /\ q.life = "live"
    BY <1>1, ConditionType DEF Object
  <2>2. [resetPhaseStart(q) EXCEPT !.reconciled = TRUE].life = "live"
    BY <2>1 DEF resetPhaseStart, Object
  <2> HIDE DEF q
  <2> QED
    BY <1>1, <1>2, <1>10, <2>1, <2>2 DEF handleReconciling, m, q
<1>11. CASE handleHealthChecking
  BY <1>1, <1>2, <1>11 DEF handleHealthChecking, Object, m
<1>12. CASE handleCompleted
  BY <1>1, <1>2, <1>12 DEF handleCompleted, Object
<1> QED
  BY <1>3, <1>4, <1>5, <1>6, <1>7, <1>8, <1>9, <1>10, <1>11, <1>12

\* Every step preserves it.
LEMMA NoLagStep ==
  ASSUME CacheCurrent, IInv, NoLag, [Next]_vars
  PROVE  NoLag'
<1>1. TypeOK /\ mem \in Object /\ base \in Object /\ cache = obj
  BY DEF IInv, TypeOK, NoLag
<1>2. ASSUME NEW r \in Requests, Reconcile(r) PROVE NoLag'
  <2>1. CASE UNCHANGED workerVars
    BY <1>1, <1>2, <2>1, StoreNoLag DEF Reconcile, NoLag, workerVars
  <2>2. CASE cache[r].life = "live" /\ cur' = r /\ base' = cache[r] /\ mem' = cache[r]
             /\ UNCHANGED <<obj, cache>>
    BY <1>1, <2>2, TouchedSelf DEF NoLag, TypeOK
  <2> QED
    BY <1>2, <2>1, <2>2 DEF Reconcile
<1>3. CASE WorkerStep
  <2>1. CASE statusUpdate
    <3>1. cur \in Requests /\ mem.life = "live"
      BY <1>1, <2>1 DEF statusUpdate, TypeOK, NoLag
    <3>2. CASE obj[cur] = base /\ Store(cur, mem)
      <4>1. cache' = obj' /\ obj'[cur] = mem
        BY <1>1, <3>1, <3>2, StoreNoLag
      <4> QED
        BY <1>1, <2>1, <3>1, <4>1, TouchedSelf DEF statusUpdate, Return, NoLag
    <3> QED
      BY <1>1, <2>1, <3>2 DEF statusUpdate, Return, NoLag
  <2>2. CASE removeFinalizer
    <3>1. cur \in Requests
      BY <1>1, <2>2 DEF removeFinalizer, TypeOK
    <3>2. cache' = obj'
      BY <1>1, <2>2, <3>1, StoreNoLag DEF removeFinalizer
    <3> QED
      BY <2>2, <3>2 DEF removeFinalizer, Return, NoLag
  <2>3. CASE ~statusUpdate /\ ~removeFinalizer
    <3>1. UNCHANGED <<obj, cache>> /\ pc # "idle"
      BY <1>3, <2>3
         DEF WorkerStep, handleSuspend, handleScaleDown, checkScaledDown,
             createSnapshotsForUpgrade, awaitSnapshots, handleCommitting, commitFile,
             handleReconciling, handleHealthChecking, handleCompleted, At
    <3>2. Return \/ (mem'.life = "live" /\ cur' = cur /\ base' = base)
      BY <1>1, <1>3, <2>3, HandlerLife DEF WorkerStep, NoLag
    <3> QED
      BY <3>1, <3>2 DEF Return, NoLag, Touched
  <2> QED
    BY <2>1, <2>2, <2>3
<1>4. CASE Crash
  BY <1>1, <1>4 DEF Crash, Return, NoLag
<1>5. ASSUME NEW r \in Requests, Delete(r) PROVE NoLag'
  <2> DEFINE o == [obj[r] EXCEPT !.life = IF obj[r].finalizer THEN "deleting" ELSE "gone"]
  <2>1. obj[r] \in Object
    BY <1>1 DEF TypeOK
  <2>2. Touched(obj[r], o) /\ o.life # "live"
    BY <2>1, TouchedFinalizer DEF Object
  <2>3. Store(r, o) /\ UNCHANGED workerVars
    BY <1>5 DEF Delete
  <2> HIDE DEF o
  <2>4. cache' = obj' /\ obj'[r] = o /\ \A q \in Requests : q # r => obj'[q] = obj[q]
    BY <1>1, <2>3, StoreNoLag
  <2>5. \A x \in Object : Touched(x, obj[r]) => Touched(x, o)
    BY <2>1, <2>2 DEF Touched, Object
  <2>6. CASE pc # "idle"
    <3>1. cur \in Requests /\ Touched(base, obj[cur])
      BY <1>1, <2>6 DEF TypeOK, NoLag
    <3>2. Touched(base, obj'[cur]) /\ (obj'[cur].life = "live" => obj'[cur] = base)
      BY <1>1, <2>2, <2>4, <2>5, <2>6, <3>1 DEF NoLag
    <3> QED
      BY <2>3, <2>4, <2>6, <3>2 DEF NoLag, workerVars, Touched
  <2> QED
    BY <2>3, <2>4, <2>6 DEF NoLag, workerVars
<1>6. ASSUME NEW r \in Requests, Sync(r) PROVE NoLag'
  BY <1>1, <1>6 DEF Sync
<1>7. CASE Tick
  <2>1. cache' = obj'
    BY <1>1, <1>7 DEF Tick
  <2>2. CASE pc # "idle"
    <3>1. cur \in Requests /\ obj[cur] \in Object /\ obj'[cur] = Older(obj[cur])
      BY <1>1, <1>7, <2>2 DEF TypeOK, Tick
    <3>2. Older(base).life = "live" /\ Older(mem).life = "live"
      BY <1>1, <2>2 DEF NoLag, Older, Object
    <3>3. Older(obj[cur]).life = "live" => Older(obj[cur]) = Older(base)
      BY <2>2, <3>1 DEF NoLag, Older, Object
    <3>4. Touched(Older(base), Older(obj[cur]))
      <4>1. Touched(base, obj[cur])
        BY <2>2 DEF NoLag
      <4>2. Older(base) \in Object /\ Older(obj[cur]) \in Object
        BY <1>1, <3>1, TimerType
      <4>3. Touched(base, Older(base)) /\ Touched(obj[cur], Older(obj[cur]))
        BY <1>1, <3>1, TouchedOlder
      <4> QED
        BY <1>1, <3>1, <4>1, <4>2, <4>3, TouchedEquivalence
    <3> QED
      BY <1>7, <2>1, <3>1, <3>2, <3>3, <3>4 DEF NoLag, Tick, Touched
  <2> QED
    BY <1>7, <2>1, <2>2 DEF NoLag, Tick
<1>8. CASE ClusterNext /\ UNCHANGED <<ask, obj, cache, workerVars, rollbacks, commits, faults>>
  BY <1>8 DEF NoLag, workerVars, Touched
<1>9. CASE UNCHANGED vars
  BY <1>9 DEF NoLag, vars, workerVars, Touched
<1> QED
  BY <1>2, <1>3, <1>4, <1>5, <1>6, <1>7, <1>8, <1>9 DEF Next

-----------------------------------------------------------------------------
(* The kinds of steps *)

\* The steps of the handlers.
Handler ==
  \/ handleSuspend \/ handleScaleDown \/ checkScaledDown
  \/ createSnapshotsForUpgrade \/ awaitSnapshots
  \/ handleCommitting \/ commitFile
  \/ handleReconciling \/ handleHealthChecking \/ handleCompleted

\* No object is written but for its timers, its finalizer and its life, and none
\* that is being deleted comes back.
AllTouched ==
  \A r \in Requests : /\ Touched(obj[r], obj'[r])
                      /\ obj[r].life # "live" => obj'[r].life # "live"

\* Time, the cluster, deletions and finalizers: the worker keeps its copy.
Aside ==
  /\ AllTouched /\ Touched(mem, mem') /\ Touched(base, base')
  /\ UNCHANGED <<pc, cur, git, commits>> /\ suspended' \in {suspended, FALSE}

\* The worker takes up a request, as it is stored.
TakeUp ==
  /\ pc = "idle" /\ pc' = "run" /\ cur' \in Requests
  /\ mem' = obj[cur'] /\ base' = obj[cur']
  /\ UNCHANGED <<obj, git, commits, suspended>>

\* The copy is dropped: after the finalizer, in a crash, or because the request
\* was deleted while the worker had it.
Drop ==
  /\ Return /\ AllTouched /\ UNCHANGED <<git, commits, suspended>>
  /\ pc = "update" => obj[cur].life # "live" \/ Failing(1)

\* The copy is written over the object that was read.
Written ==
  /\ pc = "update" /\ obj[cur] = base /\ obj' = [obj EXCEPT ![cur] = mem]
  /\ \/ Return
     \/ pc' \in {"run", "finalize"} /\ base' = mem /\ UNCHANGED <<cur, mem>>
  /\ UNCHANGED <<git, commits, suspended>>

\* With a current cache every step is of one of these kinds.
LEMMA StepKinds ==
  ASSUME CacheCurrent, IInv, NoLag, [Next]_vars
  PROVE  Aside \/ TakeUp \/ Drop \/ Written \/ (Handler /\ UNCHANGED obj)
<1>1. /\ TypeOK /\ mem \in Object /\ base \in Object /\ cache = obj
      /\ \A r \in Requests : obj[r] \in Object
  BY DEF IInv, TypeOK, NoLag
<1>2. Touched(mem, mem) /\ Touched(base, base) /\ \A r \in Requests : Touched(obj[r], obj[r])
  BY <1>1, TouchedSelf
<1>3. ASSUME UNCHANGED <<obj, git, commits, workerVars>>, suspended' \in {suspended, FALSE}
      PROVE  Aside
  BY <1>2, <1>3 DEF Aside, AllTouched, workerVars
<1>4. ASSUME NEW r \in Requests, NEW o, Store(r, o), Touched(obj[r], o),
             obj[r].life # "live" => o.life # "live"
      PROVE  AllTouched
  BY <1>1, <1>2, <1>4, StoreNoLag DEF AllTouched
<1>5. ASSUME NEW r \in Requests, Reconcile(r) PROVE Aside \/ TakeUp
  <2> DEFINE d == [obj[r] EXCEPT !.finalizer = FALSE, !.life = "gone"]
             f == [obj[r] EXCEPT !.finalizer = TRUE]
  <2>1. /\ Touched(obj[r], d) /\ Touched(obj[r], f) /\ d.life = "gone"
        /\ f.life = obj[r].life
    BY <1>1, TouchedFinalizer DEF Object
  <2> HIDE DEF d, f
  <2>2. CASE Store(r, d) /\ UNCHANGED <<workerVars, clusterVars, commits>>
    BY <1>2, <1>4, <2>1, <2>2 DEF Aside, workerVars, clusterVars
  <2>3. CASE Store(r, f) /\ UNCHANGED <<workerVars, clusterVars, commits>>
    BY <1>2, <1>4, <2>1, <2>3 DEF Aside, workerVars, clusterVars
  <2>4. CASE pc = "idle" /\ pc' = "run" /\ cur' = r /\ base' = cache[r] /\ mem' = cache[r]
             /\ UNCHANGED <<obj, clusterVars, commits>>
    BY <1>1, <2>4 DEF TakeUp, clusterVars
  <2> QED
    BY <1>5, <2>2, <2>3, <2>4 DEF Reconcile, d, f
<1>6. CASE WorkerStep
  <2>1. CASE statusUpdate
    <3>1. cur \in Requests /\ UNCHANGED <<git, commits, suspended>> /\ pc = "update"
      BY <1>1, <2>1 DEF statusUpdate, TypeOK, clusterVars
    <3>2. CASE obj[cur] = base /\ Store(cur, mem)
      <4>1. obj' = [obj EXCEPT ![cur] = mem]
        BY <3>2 DEF Store
      <4>2. Return \/ (pc' \in {"run", "finalize"} /\ base' = mem /\ UNCHANGED <<cur, mem>>)
        BY <1>1, <2>1 DEF statusUpdate, TypeOK
      <4> QED
        BY <3>1, <3>2, <4>1, <4>2 DEF Written
    <3>3. CASE obj[cur] # base /\ Return /\ UNCHANGED obj
      BY <1>2, <3>1, <3>3 DEF Drop, AllTouched, NoLag
    <3> QED
      BY <2>1, <3>2, <3>3 DEF statusUpdate
  <2>2. CASE removeFinalizer
    <3> DEFINE o == [mem EXCEPT !.finalizer = FALSE]
    <3>1. /\ cur \in Requests /\ UNCHANGED <<git, commits, suspended>> /\ pc = "finalize"
          /\ mem = base /\ Return
      BY <1>1, <2>2 DEF removeFinalizer, TypeOK, clusterVars, IInv, OneStageAhead
    <3>2. Touched(mem, o) /\ o.life = mem.life
      BY <1>1, TouchedFinalizer DEF Object
    <3> HIDE DEF o
    <3>3. CASE obj[cur] = base /\ Store(cur, o)
      BY <1>4, <3>1, <3>2, <3>3 DEF Drop
    <3>4. CASE UNCHANGED obj
      BY <1>2, <3>1, <3>4 DEF Drop, AllTouched
    <3> QED
      BY <2>2, <3>3, <3>4 DEF removeFinalizer, o
  <2>3. CASE ~statusUpdate /\ ~removeFinalizer
    BY <1>6, <2>3
       DEF WorkerStep, Handler, handleSuspend, handleScaleDown, checkScaledDown,
           createSnapshotsForUpgrade, awaitSnapshots, handleCommitting, commitFile,
           handleReconciling, handleHealthChecking, handleCompleted
  <2> QED
    BY <2>1, <2>2, <2>3
<1>7. CASE Crash
  BY <1>2, <1>7 DEF Crash, Drop, AllTouched, clusterVars
<1>8. ASSUME NEW r \in Requests, Delete(r) PROVE Aside
  <2> DEFINE o == [obj[r] EXCEPT !.life = IF obj[r].finalizer THEN "deleting" ELSE "gone"]
  <2>1. Touched(obj[r], o) /\ o.life # "live"
    BY <1>1, TouchedFinalizer DEF Object
  <2> HIDE DEF o
  <2>2. Store(r, o)
    BY <1>8 DEF Delete, o
  <2> QED
    BY <1>2, <1>4, <1>8, <2>1, <2>2 DEF Delete, Aside, workerVars, clusterVars
<1>9. ASSUME NEW r \in Requests, Sync(r) PROVE Aside
  BY <1>3, <1>9 DEF Sync, clusterVars
<1>10. CASE Tick
  <2>1. \A o \in Object : Older(o).life = o.life
    BY DEF Older, Object
  <2> QED
    BY <1>1, <1>10, <2>1, TouchedOlder DEF Tick, Aside, AllTouched, clusterVars
<1>11. CASE ClusterNext /\ UNCHANGED <<ask, obj, cache, workerVars, rollbacks, commits, faults>>
  <2>1. suspended' \in {suspended, FALSE} /\ git' = git
    BY <1>11 DEF ClusterNext, FluxApply, PodStart, PodReady, PodStop, SnapshotReady,
                 ExternalResume, updateManagedAppStatus, fluxVars
  <2> QED
    BY <1>3, <1>11, <2>1
<1>12. CASE UNCHANGED vars
  BY <1>3, <1>12 DEF vars, clusterVars
<1> QED
  BY <1>5, <1>6, <1>7, <1>8, <1>9, <1>10, <1>11, <1>12 DEF Next

-----------------------------------------------------------------------------
(* Git holds the version that a request has recorded *)

\* What a handler does to Git and to the copy's record of it: nothing, or it
\* pushes the copy's version and, unless the call is reported to have failed,
\* records the commit.
LEMMA HandlerCommit ==
  ASSUME IInv, Handler
  PROVE  /\ pc # "idle"
         /\ \/ Return /\ UNCHANGED <<git, commits>>
            \/ /\ cur' = cur /\ base' = base /\ mem'.gitCommitted = mem.gitCommitted
               /\ mem.gitCommitted => mem'.newVersion = mem.newVersion
               /\ UNCHANGED <<git, commits>>
            \/ /\ cur' = cur /\ base' = base /\ pc = "push"
               /\ git' = mem.newVersion
               /\ commits' = [commits EXCEPT ![cur] = @ \cup {mem.newVersion}]
               /\ \/ pc' = "update" /\ mem'.gitCommitted /\ mem'.newVersion = mem.newVersion
                  \/ (Failing(1) \/ Failing(2)) /\ mem'.gitCommitted = mem.gitCommitted
<1> DEFINE m == setPhaseStartIfNeeded(mem)
           Kept == /\ cur' = cur /\ base' = base /\ mem'.gitCommitted = mem.gitCommitted
                   /\ mem.gitCommitted => mem'.newVersion = mem.newVersion
           Same(q) == q.gitCommitted = mem.gitCommitted
                      /\ (mem.gitCommitted => q.newVersion = mem.newVersion)
<1>1. mem \in Object /\ base \in Object /\ m \in Object /\ pc # "idle"
  BY TimerType
     DEF IInv, Handler, TypeOK, handleSuspend, handleScaleDown, checkScaledDown,
         createSnapshotsForUpgrade, awaitSnapshots, handleCommitting, commitFile,
         handleReconciling, handleHealthChecking, handleCompleted, At
<1>2. Same(m) /\ Same(mem)
  BY <1>1 DEF setPhaseStartIfNeeded, Object
<1> HIDE DEF m
<1>3. ASSUME NEW q \in Object, Same(q), NEW s, NEW n, setFailed(q, s, n)
      PROVE  Kept
  BY <1>3 DEF setFailed, WriteStatus, Object
<1> USE DEF Fail, WriteStatus
<1>4. CASE handleSuspend
  BY <1>1, <1>2, <1>3, <1>4 DEF handleSuspend, Object
<1>5. CASE handleScaleDown
  BY <1>1, <1>2, <1>3, <1>5 DEF handleScaleDown, Object, m
<1>6. CASE checkScaledDown
  BY <1>1, <1>2, <1>3, <1>6 DEF checkScaledDown, resetPhaseStart, Object
<1>7. CASE createSnapshotsForUpgrade
  BY <1>1, <1>2, <1>3, <1>7 DEF createSnapshotsForUpgrade, Object, m
<1>8. CASE awaitSnapshots
  BY <1>1, <1>2, <1>3, <1>8 DEF awaitSnapshots, resetPhaseStart, Object, m
<1>9. CASE handleCommitting
  <2>1. ~mem.gitCommitted
    BY <1>1, <1>9 DEF handleCommitting, At, Phase
  <2> QED
    BY <1>1, <1>2, <1>3, <1>9, <2>1 DEF handleCommitting, Object
<1>10. CASE commitFile
  <2> DEFINE undone == [mem EXCEPT !.newVersion = base.newVersion,
                                   !.previousVersion = base.previousVersion]
  <2>1. undone \in Object /\ undone.gitCommitted = mem.gitCommitted
    BY <1>1 DEF Object
  <2> HIDE DEF undone
  <2>2. ASSUME Fail(undone, 1)
        PROVE  cur' = cur /\ base' = base /\ mem'.gitCommitted = mem.gitCommitted
    BY <2>1, <2>2 DEF setFailed, Object
  <2>3. ASSUME Fail(undone, 1) PROVE Failing(1) \/ Failing(2)
    <3>1. 1 + 1 = 2
      OBVIOUS
    <3>2. Failing(1) \/ Failing(1 + 1)
      BY <2>3, Zenon DEF setFailed
    <3> QED
      BY <3>1, <3>2
  <2>4. ~mem.gitCommitted
    BY <1>1, <1>10 DEF IInv, OneStageAhead, commitFile, Stage, Phase, Object
  <2> QED
    BY <1>1, <1>10, <2>1, <2>2, <2>3, <2>4 DEF commitFile, undone, Object
<1>11. CASE handleReconciling
  <2> DEFINE q == [m EXCEPT !.suspended = "false"]
             d == [resetPhaseStart(q) EXCEPT !.reconciled = TRUE]
  <2>1. q \in Object /\ Same(q)
    BY <1>1, <1>2, ConditionType DEF Object
  <2>2. Same(d)
    BY <2>1 DEF resetPhaseStart, Object
  <2> HIDE DEF q, d
  <2> QED
    BY <1>1, <1>2, <1>3, <1>11, <2>1, <2>2 DEF handleReconciling, m, q, d
<1>12. CASE handleHealthChecking
  BY <1>1, <1>2, <1>3, <1>12 DEF handleHealthChecking, Object, m
<1>13. CASE handleCompleted
  BY <1>1, <1>2, <1>3, <1>13 DEF handleCompleted, Object
<1> QED
  BY <1>1, <1>4, <1>5, <1>6, <1>7, <1>8, <1>9, <1>10, <1>11, <1>12, <1>13 DEF Handler

\* The app has at most one upgrade request.
OneRequest == \A r, q \in Requests : r = q

\* The version in Git is the recorded one, also in the copy that is to be
\* written, unless another request commits.
GitInv ==
  /\ GitHoldsRecordedVersion
  /\ pc # "idle" => (mem.gitCommitted /\ Alone(cur) => git = mem.newVersion)

\* The fields of an object that no deletion, finalizer or timer changes.
LEMMA TouchedFields ==
  ASSUME NEW o \in Object, NEW q \in Object, Touched(o, q)
  PROVE  /\ q.gitCommitted = o.gitCommitted /\ q.newVersion = o.newVersion
         /\ q.suspended = o.suspended /\ q.complete = o.complete
         /\ q.reconciled = o.reconciled
  BY DEF Touched, Object

\* Every step preserves it.
LEMMA GitStep ==
  ASSUME CacheCurrent, IInv, IInv', NoLag, GitInv, [Next]_vars
  PROVE  GitInv'
<1>1. /\ TypeOK /\ mem \in Object /\ base \in Object /\ mem' \in Object
      /\ \A r \in Requests : obj[r] \in Object /\ obj'[r] \in Object
  BY DEF IInv, TypeOK
<1>2. CASE Aside
  <2>1. /\ mem'.gitCommitted = mem.gitCommitted /\ mem'.newVersion = mem.newVersion
        /\ \A r \in Requests : /\ obj'[r].gitCommitted = obj[r].gitCommitted
                               /\ obj'[r].newVersion = obj[r].newVersion
    BY <1>1, <1>2, TouchedFields DEF Aside, AllTouched
  <2> QED
    BY <1>2, <2>1 DEF Aside, GitInv, GitHoldsRecordedVersion, Alone
<1>3. CASE TakeUp
  BY <1>3 DEF TakeUp, GitInv, GitHoldsRecordedVersion, Alone
<1>4. CASE Drop
  <2>1. \A r \in Requests : /\ obj'[r].gitCommitted = obj[r].gitCommitted
                            /\ obj'[r].newVersion = obj[r].newVersion
    BY <1>1, <1>4, TouchedFields DEF Drop, AllTouched
  <2> QED
    BY <1>4, <2>1 DEF Drop, Return, GitInv, GitHoldsRecordedVersion, Alone
<1>5. CASE Written
  BY <1>1, <1>5 DEF Written, Return, TypeOK, GitInv, GitHoldsRecordedVersion, Alone
<1>6. CASE Handler /\ UNCHANGED obj
  <2>1. pc # "idle" /\ cur \in Requests
    BY <1>1, <1>6, HandlerCommit DEF TypeOK
  <2>2. CASE /\ UNCHANGED <<git, commits>>
             /\ \/ Return
                \/ /\ cur' = cur
                   /\ mem'.gitCommitted => mem.gitCommitted /\ mem'.newVersion = mem.newVersion
    BY <1>6, <2>1, <2>2 DEF Return, GitInv, GitHoldsRecordedVersion, Alone
  <2>3. CASE /\ pc = "push" /\ git' = mem.newVersion /\ cur' = cur
             /\ commits' = [commits EXCEPT ![cur] = @ \cup {mem.newVersion}]
             /\ mem'.gitCommitted => mem'.newVersion = mem.newVersion \/ mem.gitCommitted
    <3>1. ~base.gitCommitted /\ ~mem.gitCommitted
      BY <1>1, <2>3 DEF IInv, OneStageAhead, Stage, Phase, Object
    <3>2. ~obj[cur].gitCommitted
      BY <1>1, <2>1, <3>1, TouchedFields DEF NoLag
    <3>3. \A r \in Requests : r # cur => ~Alone(r)'
      <4>1. mem.newVersion \in commits'[cur]
        BY <1>1, <2>1, <2>3 DEF TypeOK
      <4> QED
        BY <2>1, <4>1 DEF Alone
    <3> QED
      BY <1>6, <2>3, <3>1, <3>2, <3>3 DEF GitInv, GitHoldsRecordedVersion
  <2> QED
    BY <1>6, <2>2, <2>3, HandlerCommit
<1> QED
  BY <1>2, <1>3, <1>4, <1>5, <1>6, StepKinds

\* Initially the cache is current, and no request has changed anything.
LEMMA OutcomeInit ==
  ASSUME Init
  PROVE  /\ NoLag /\ pc = "idle" /\ ~suspended
         /\ \A r \in Requests : obj[r] = NewObject /\ commits[r] = {}
  BY DEF Init, ClusterInit, NoLag

\* The invariants that the following theorems share.
LEMMA OutcomeInv ==
  ASSUME CacheCurrent
  PROVE  Spec => [](IInv /\ NoLag)
<1>1. Init => NoLag
  BY OutcomeInit
<1>2. IInv /\ NoLag /\ [Next]_vars => NoLag'
  BY NoLagStep
<1> QED
  BY <1>1, <1>2, Invariance, PTL DEF Spec

\* With a current cache, whatever crashes and lost status updates make
\* handleCommitting do again, and whatever Renovate publishes meanwhile, the
\* version a request has recorded as committed is the one in Git, until another
\* request of the app commits.
THEOREM GitMatchesRecord ==
  ASSUME CacheCurrent
  PROVE  Spec => []GitHoldsRecordedVersion
<1>1. Init => GitInv
  BY OutcomeInit DEF GitInv, GitHoldsRecordedVersion, NewObject
<1>2. IInv /\ IInv' /\ NoLag /\ GitInv /\ [Next]_vars => GitInv'
  BY GitStep
<1>3. GitInv => GitHoldsRecordedVersion
  BY DEF GitInv
<1> QED
  BY <1>1, <1>2, <1>3, OutcomeInv, PTL DEF Spec

-----------------------------------------------------------------------------
(* The Kustomization is resumed *)

\* A step after which no call has failed is no failing call.
LEMMA NothingFails ==
  ASSUME faults' = 0, TypeOK
  PROVE  \A n \in Nat : Failing(n) => n = 0
  BY DEF TypeOK, Failing

\* What has failed stays so.
LEMMA FaultsGrow ==
  ASSUME TypeOK, [Next]_vars, faults' = 0
  PROVE  faults = 0
<1>1. faults \in Nat
  BY DEF TypeOK
<1>2. ASSUME NEW n \in Nat, Failing(n) PROVE faults = 0
  BY <1>1, <1>2 DEF Failing
<1>3. ASSUME NEW q, NEW s, NEW n \in Nat, setFailed(q, s, n) PROVE faults = 0
  <2>1. n + 1 \in Nat
    OBVIOUS
  <2> QED
    BY <1>2, <1>3, <2>1 DEF setFailed
<1>4. ASSUME NEW q, NEW n \in Nat, Fail(q, n) PROVE faults = 0
  BY <1>3, <1>4 DEF Fail
<1>5. CASE Handler
  <2>1. CASE handleSuspend
    BY <1>3, <1>4, <2>1, Zenon DEF handleSuspend
  <2>2. CASE handleScaleDown
    BY <1>3, <1>4, <2>2, Zenon DEF handleScaleDown
  <2>3. CASE checkScaledDown
    BY <1>3, <1>4, <2>3, Zenon DEF checkScaledDown
  <2>4. CASE createSnapshotsForUpgrade
    BY <1>3, <1>4, <2>4, Zenon DEF createSnapshotsForUpgrade
  <2>5. CASE awaitSnapshots
    BY <1>3, <1>4, <2>5, Zenon DEF awaitSnapshots
  <2>6. CASE handleCommitting
    BY <1>3, <1>4, <2>6, Zenon DEF handleCommitting
  <2>7. CASE commitFile
    BY <1>3, <1>4, <2>7, Zenon DEF commitFile
  <2>8. CASE handleReconciling
    BY <1>3, <1>4, <2>8, Zenon DEF handleReconciling
  <2>9. CASE handleHealthChecking
    BY <1>3, <1>4, <2>9, Zenon DEF handleHealthChecking
  <2>10. CASE handleCompleted
    <3>1. (\E updated, pruned \in BOOLEAN :
             Failing((IF updated THEN 0 ELSE 1) + (IF pruned THEN 0 ELSE 1)))
          \/ Fail(mem, 1)
      BY <2>10, Zenon DEF handleCompleted
    <3> QED
      BY <1>2, <1>4, <3>1
  <2> QED
    BY <1>5, <2>1, <2>2, <2>3, <2>4, <2>5, <2>6, <2>7, <2>8, <2>9, <2>10 DEF Handler
<1>6. CASE statusUpdate \/ removeFinalizer
  BY <1>2, <1>6 DEF statusUpdate, removeFinalizer
<1>7. CASE Crash \/ \E r \in Requests : Reconcile(r) \/ Delete(r) \/ Sync(r)
  BY <1>2, <1>7 DEF Crash, Reconcile, Delete, Sync
<1> QED
  BY <1>5, <1>6, <1>7 DEF Next, WorkerStep, Handler, Tick, vars

\* An object that answers for the suspension: it is under way and says so, or
\* it failed after its commit and leaves the suspension to a rollback.
Holding(o) ==
  \/ ~Terminal(o) /\ o.suspended = "true"
  \/ o.complete = "false" /\ o.gitCommitted

\* A request that answers for it: its object does, or the copy that is about to
\* be written does, or it was deleted before it ended.
Holder(r) ==
  \/ Holding(obj[r])
  \/ /\ ~Terminal(obj[r])
     /\ obj[r].life # "live" \/ (cur = r /\ pc = "update" /\ Holding(mem))

\* Suspended=False is set after the commit or at the end, and before Reconciled.
ResumedLate(o) ==
  /\ o.suspended = "false" => o.gitCommitted \/ Terminal(o)
  /\ o.reconciled /\ ~Terminal(o) => o.suspended = "false"

\* What holds as long as no call has failed: someone answers for the suspension,
\* and a copy that gives it up is written after the resume.
ResumeInv ==
  /\ suspended => \E r \in Requests : Holder(r)
  /\ pc = "update" /\ base.suspended = "true" /\ ~Holding(mem) => ~suspended
  /\ \A r \in Requests : ResumedLate(obj[r])
  /\ pc # "idle" => ResumedLate(base) /\ ResumedLate(mem)

\* What a handler does to the suspension.
HandlerResumes ==
  /\ cur' = cur /\ base' = base
  /\ ResumedLate(mem')
  /\ \/ suspended' \in {suspended, FALSE}
     \/ pc' = "update" /\ Holding(mem')
  /\ pc' = "update" /\ base.suspended = "true" /\ ~Holding(mem') => ~suspended'

\* A failure keeps the copy's promise: it resumes, or there is a commit.
LEMMA FailResumes ==
  ASSUME KustomizationCurrent, IInv, ~Failing(1), NEW q \in Object, ResumedLate(q), NEW s \in {suspended, FALSE},
         base.suspended = "true" => q.suspended = "true" \/ q.gitCommitted,
         setFailed(q, s, 0)
  PROVE  HandlerResumes
<1> DEFINE f == [q EXCEPT !.complete = "false"]
           g == [f EXCEPT !.suspended = "false"]
<1>1. /\ f.complete = "false" /\ f.gitCommitted = q.gitCommitted
      /\ g.complete = "false" /\ g.gitCommitted = q.gitCommitted
  BY DEF Object
<1> HIDE DEF f, g
<1>2. 0 + 1 = 1
  OBVIOUS
<1>3. /\ pc' = "update" /\ cur' = cur /\ base' = base
      /\ \/ mem' = f /\ q.gitCommitted /\ suspended' = s
         \/ mem' = g /\ suspended' = FALSE
         \/ mem' = f /\ ~q.gitCommitted /\ q.suspended # "true" /\ suspended' = s
  <2>1. AfterResume = {FALSE}
    BY ResumeFlag DEF IInv, TypeOK, ClusterTypeOK
  <2> QED
    BY <1>2, <2>1 DEF setFailed, WriteStatus, ResumeKustomization, f, g
<1> QED
  BY <1>1, <1>3 DEF HandlerResumes, ResumedLate, Holding, Terminal

\* A handler resumes before it gives the suspension up, and takes the
\* suspension on together with the condition that says so.
LEMMA HandlerSuspension ==
  ASSUME KustomizationCurrent, faults' = 0, IInv, Handler, ResumedLate(base), ResumedLate(mem)
  PROVE  \/ Return /\ suspended' = suspended
         \/ HandlerResumes
<1> DEFINE m == setPhaseStartIfNeeded(mem)
           Same(q) == /\ q.suspended = mem.suspended /\ q.gitCommitted = mem.gitCommitted
                      /\ q.complete = mem.complete /\ q.reconciled = mem.reconciled
<1>1. /\ TypeOK /\ mem \in Object /\ base \in Object /\ m \in Object
      /\ ~Failing(1) /\ ~Failing(2) /\ suspended \in BOOLEAN
  BY TimerType, NothingFails DEF IInv, TypeOK, ClusterTypeOK
<1>2. ASSUME NEW q, NEW s, setFailed(q, s, 1) PROVE FALSE
  <2>1. 1 + 1 = 2
    OBVIOUS
  <2> QED
    BY <1>1, <1>2, <2>1 DEF setFailed
<1>3. Same(m) /\ m.workloadStopped = mem.workloadStopped
  BY <1>1 DEF setPhaseStartIfNeeded, Object
<1>4. pc = "run" => mem = base /\ ~Terminal(mem)
  BY DEF IInv, OneStageAhead
<1> HIDE DEF m
<1>5. ASSUME NEW q \in Object, Same(q), NEW s \in {suspended, FALSE},
             base.suspended = "true" => q.suspended = "true" \/ q.gitCommitted,
             setFailed(q, s, 0)
      PROVE  HandlerResumes
  BY <1>5, <1>1, FailResumes DEF ResumedLate, Terminal
\* A copy that goes on as it was, or with a condition that is not among these.
<1>6. ASSUME NEW q \in Object, Same(q), mem' = q, suspended' = suspended, cur' = cur, base' = base,
             base.suspended = "true" => Holding(mem)
      PROVE  HandlerResumes
  BY <1>6 DEF HandlerResumes, ResumedLate, Holding, Terminal
<1>7. pc = "run" /\ Phase(mem) \in {"suspend", "scaleDown", "snapshot", "commit"} =>
        (base.suspended = "true" => Holding(mem) /\ mem.suspended = "true")
  BY <1>4 DEF Holding
<1>8. pc \in {"scaled", "push"} =>
        /\ ~Terminal(mem) /\ mem.suspended = "true"
        /\ Holding(mem)
  <2>1. pc \in {"scaled", "push"} => Stage(mem) \in {"scaleDown", "commit"}
    BY DEF IInv, OneStageAhead
  <2>2. Stage(mem) \in {"scaleDown", "commit"} =>
          mem.complete = "absent" /\ Phase(mem) \in {"scaleDown", "commit"}
    BY DEF Stage
  <2>3. Phase(mem) \in {"scaleDown", "commit"} =>
          mem.suspended \in {"true", "false"} /\ (mem.gitCommitted => ~mem.workloadStopped)
    BY <1>1 DEF Phase, Object, Tristate
  <2>4. mem.gitCommitted => mem.workloadStopped
    BY DEF IInv, OneStageAhead, Ordered
  <2> QED
    BY <2>1, <2>2, <2>3, <2>4 DEF ResumedLate, Terminal, Holding
<1>9. CASE handleSuspend
  <2> DEFINE q == [mem EXCEPT !.suspended = "true",
                              !.snapshotReady = @ \/ ~SnapshotsEnabled(cur)]
  <2>1. q.suspended = "true" /\ q.complete = mem.complete /\ q.reconciled = mem.reconciled
    BY <1>1 DEF Object
  <2>2. pc = "run" /\ mem.suspended = "absent" /\ ~Terminal(mem) /\ mem = base /\ ~mem.reconciled
    BY <1>4, <1>9 DEF handleSuspend, At, Phase, ResumedLate
  <2> HIDE DEF q
  <2>3. ASSUME mem' = q, pc' = "update", cur' = cur, base' = base PROVE HandlerResumes
    BY <2>1, <2>2, <2>3 DEF HandlerResumes, ResumedLate, Holding, Terminal
  <2> QED
    BY <1>1, <1>2, <1>5, <1>9, <2>2, <2>3 DEF handleSuspend, WriteStatus, Fail, q
<1>10. CASE handleScaleDown
  <2> DEFINE q == [m EXCEPT !.workloadStopped = TRUE]
  <2>1. q \in Object /\ Same(q)
    BY <1>1, <1>3, ConditionType DEF Object
  <2>2. pc = "run" /\ Phase(mem) = "scaleDown"
    BY <1>10 DEF handleScaleDown, At
  <2>3. ASSUME NEW W, mem' = [m EXCEPT !.scaling = W],
               suspended' = suspended, cur' = cur, base' = base
        PROVE HandlerResumes
    <3>1. Same(mem')
      BY <1>1, <1>3, <2>3 DEF Object
    <3> QED
      BY <1>7, <2>2, <2>3, <3>1 DEF HandlerResumes, ResumedLate, Holding, Terminal
  <2> HIDE DEF q
  <2> QED
    BY <1>1, <1>2, <1>6, <1>7, <1>10, <2>1, <2>2, <2>3
       DEF handleScaleDown, WriteStatus, Fail, q, m
<1>11. CASE checkScaledDown
  <2> DEFINE q == [resetPhaseStart(mem) EXCEPT !.workloadStopped = TRUE]
  <2>1. resetPhaseStart(mem) \in Object
    BY <1>1, TimerType
  <2>2. q \in Object /\ Same(q) /\ pc = "scaled"
    BY <1>1, <1>11, <2>1, ConditionType DEF Object, resetPhaseStart, checkScaledDown
  <2> HIDE DEF q
  <2> QED
    BY <1>1, <1>2, <1>5, <1>6, <1>8, <1>11, <2>2
       DEF checkScaledDown, WriteStatus, Fail, q
<1>12. CASE createSnapshotsForUpgrade
  <2>1. pc = "run" /\ Phase(mem) = "snapshot"
    BY <1>12 DEF createSnapshotsForUpgrade, At
  <2>2. ASSUME NEW f, mem' = [m EXCEPT !.pvcSnapshots = f],
               suspended' = suspended, cur' = cur, base' = base
        PROVE HandlerResumes
    <3>1. Same(mem')
      BY <1>1, <1>3, <2>2 DEF Object
    <3> QED
      BY <1>7, <2>1, <2>2, <3>1 DEF HandlerResumes, ResumedLate, Holding, Terminal
  <2> DEFINE q == [m EXCEPT !.snapshotReady = TRUE]
  <2>3. q \in Object /\ Same(q)
    <3>1. q \in Object
      BY <1>1, ConditionType
    <3>2. Same(q)
      BY <1>1, <1>3 DEF Object
    <3> QED
      BY <3>1, <3>2
  <2> HIDE DEF q
  <2>4. Fail(m, 0) => HandlerResumes
    <3>1. base.suspended = "true" => m.suspended = "true"
      BY <1>3, <1>7, <2>1
    <3>2. m \in Object /\ Same(m) /\ suspended \in {suspended, FALSE}
      BY <1>1, <1>3
    <3> QED
      BY <1>5, <3>1, <3>2 DEF Fail
  <2>5. ~Fail(m, 1)
    BY <1>2 DEF Fail
  <2> QED
    BY <1>6, <1>7, <1>12, <2>1, <2>2, <2>3, <2>4, <2>5
       DEF createSnapshotsForUpgrade, WriteStatus, m, q
<1>13. CASE awaitSnapshots
  <2> DEFINE q == [resetPhaseStart(m) EXCEPT !.snapshotReady = TRUE]
  <2>1. pc = "run" /\ Phase(mem) = "snapshot"
    BY <1>13 DEF awaitSnapshots, At
  <2>2. q \in Object /\ Same(q)
    <3>1. q \in Object
      BY <1>1, ConditionType, TimerType
    <3>2. Same(q)
      BY <1>1, <1>3 DEF Object, resetPhaseStart
    <3> QED
      BY <3>1, <3>2
  <2> HIDE DEF q
  <2>3. Fail(m, 0) => HandlerResumes
    <3>1. base.suspended = "true" => m.suspended = "true"
      BY <1>3, <1>7, <2>1
    <3>2. m \in Object /\ Same(m) /\ suspended \in {suspended, FALSE}
      BY <1>1, <1>3
    <3> QED
      BY <1>5, <3>1, <3>2 DEF Fail
  <2>4. ~Fail(m, 1)
    BY <1>2 DEF Fail
  <2> QED
    BY <1>6, <1>7, <1>13, <2>1, <2>2, <2>3, <2>4
       DEF awaitSnapshots, WriteStatus, m, q
<1>14. CASE handleCommitting
  <2>1. pc = "run" /\ Phase(mem) = "commit"
    BY <1>14 DEF handleCommitting, At
  <2>2. ASSUME NEW v, NEW u, mem' = [mem EXCEPT !.newVersion = v, !.previousVersion = u],
               suspended' = suspended, cur' = cur, base' = base
        PROVE HandlerResumes
    <3>1. Same(mem')
      BY <1>1, <2>2 DEF Object
    <3> QED
      BY <1>7, <2>1, <2>2, <3>1 DEF HandlerResumes, ResumedLate, Holding, Terminal
  <2> QED
    BY <1>1, <1>2, <1>5, <1>7, <1>14, <2>1, <2>2 DEF handleCommitting, Fail
<1>15. CASE commitFile
  <2>1. ASSUME mem' = [mem EXCEPT !.gitCommitted = TRUE], suspended' = suspended,
               cur' = cur, base' = base, pc = "push"
        PROVE HandlerResumes
    <3>1. mem'.suspended = mem.suspended /\ mem'.complete = mem.complete /\ mem'.gitCommitted
          /\ mem'.reconciled = mem.reconciled
      BY <1>1, <2>1 DEF Object
    <3> QED
      BY <1>8, <2>1, <3>1 DEF HandlerResumes, ResumedLate, Holding, Terminal
  <2> QED
    BY <1>2, <1>15, <2>1 DEF commitFile, WriteStatus, Fail
<1>16. CASE handleReconciling
  <2> DEFINE q == [m EXCEPT !.suspended = "false"]
             d == [resetPhaseStart(q) EXCEPT !.reconciled = TRUE]
  <2>1. /\ q \in Object /\ q.suspended = "false" /\ q.gitCommitted = mem.gitCommitted
        /\ q.complete = mem.complete /\ q.reconciled = mem.reconciled
    BY <1>1, <1>3, ConditionType DEF Object
  <2>2. d.suspended = "false" /\ d.gitCommitted = mem.gitCommitted
    BY <2>1 DEF resetPhaseStart, Object
  <2>3. mem.gitCommitted
    BY <1>16 DEF handleReconciling, At, Phase
  <2> HIDE DEF q, d
  <2>4. ResumedLate(q) /\ ResumedLate(d)
    BY <2>1, <2>2, <2>3 DEF ResumedLate
  <2>5. ASSUME setFailed(q, FALSE, 0) PROVE HandlerResumes
    BY <1>1, <2>1, <2>3, <2>4, <2>5, FailResumes
  <2>6. AfterResume = {FALSE}
    BY ResumeFlag DEF IInv, TypeOK, ClusterTypeOK
  <2> QED
    BY <1>2, <1>16, <2>4, <2>5, <2>6
       DEF handleReconciling, WriteStatus, Fail, ResumeKustomization, HandlerResumes, m, q, d
<1>17. mem.reconciled /\ ~Terminal(mem) => mem.suspended = "false"
  BY DEF ResumedLate
<1>18. CASE handleHealthChecking
  <2> DEFINE q == [m EXCEPT !.healthy = TRUE]
  <2>1. q \in Object /\ Same(q)
    BY <1>1, <1>3, ConditionType DEF Object
  <2>2. pc = "run" /\ mem.reconciled /\ base.suspended = "false"
    BY <1>4, <1>17, <1>18 DEF handleHealthChecking, At, Phase
  <2> HIDE DEF q
  <2> QED
    BY <1>1, <1>2, <1>3, <1>5, <1>6, <1>18, <2>1, <2>2
       DEF handleHealthChecking, WriteStatus, Fail, m, q
<1>19. CASE handleCompleted
  <2> DEFINE q == [mem EXCEPT !.suspended = "false", !.complete = "true"]
  <2>1. q.complete = "true"
    BY <1>1 DEF Object
  <2>2. pc = "run" /\ mem.reconciled /\ base.suspended = "false"
    BY <1>4, <1>17, <1>19 DEF handleCompleted, At, Phase
  <2> HIDE DEF q
  <2> QED
    BY <1>2, <1>19, <2>1, <2>2
       DEF handleCompleted, WriteStatus, Fail, HandlerResumes, ResumedLate, Terminal, q
<1> QED
  BY <1>9, <1>10, <1>11, <1>12, <1>13, <1>14, <1>15, <1>16, <1>18, <1>19 DEF Handler

\* Every step preserves the invariant.
LEMMA ResumeStep ==
  ASSUME KustomizationCurrent, CacheCurrent, faults' = 0, IInv, IInv', NoLag, ResumeInv,
         [Next]_vars
  PROVE  ResumeInv'
<1>1. /\ TypeOK /\ mem \in Object /\ base \in Object /\ mem' \in Object /\ base' \in Object
      /\ \A r \in Requests : obj[r] \in Object /\ obj'[r] \in Object
      /\ suspended \in BOOLEAN
  BY DEF IInv, TypeOK, ClusterTypeOK
<1>2. ~Failing(1)
  BY <1>1, NothingFails
<1>3. ASSUME NEW o \in Object, NEW q \in Object, Touched(o, q)
      PROVE  /\ Holding(q) = Holding(o) /\ ResumedLate(q) = ResumedLate(o)
             /\ Terminal(q) = Terminal(o) /\ q.suspended = o.suspended
  BY <1>3, TouchedFields DEF Holding, ResumedLate, Terminal
<1>4. ASSUME AllTouched
      PROVE  \A r \in Requests : /\ Holding(obj'[r]) = Holding(obj[r])
                                 /\ ResumedLate(obj'[r]) = ResumedLate(obj[r])
                                 /\ Terminal(obj'[r]) = Terminal(obj[r])
                                 /\ obj[r].life # "live" => obj'[r].life # "live"
  BY <1>1, <1>3, <1>4 DEF AllTouched
<1>5. CASE Aside
  <2>1. /\ Holding(mem') = Holding(mem) /\ ResumedLate(mem') = ResumedLate(mem)
        /\ ResumedLate(base') = ResumedLate(base) /\ base'.suspended = base.suspended
    BY <1>1, <1>3, <1>5 DEF Aside
  <2>2. \A r \in Requests : Holder(r) => Holder(r)'
    BY <1>4, <1>5, <2>1 DEF Aside, Holder, Holding, Terminal
  <2>3. suspended' => suspended
    BY <1>1, <1>5 DEF Aside
  <2>4. (suspended => \E r \in Requests : Holder(r))'
    BY <2>2, <2>3 DEF ResumeInv
  <2>5. pc' = "update" /\ base'.suspended = "true" /\ ~Holding(mem') => ~suspended'
    BY <1>5, <2>1, <2>3 DEF Aside, ResumeInv
  <2>6. \A r \in Requests : ResumedLate(obj'[r])
    BY <1>4, <1>5 DEF Aside, ResumeInv
  <2>7. pc' # "idle" => ResumedLate(base') /\ ResumedLate(mem')
    BY <1>5, <2>1 DEF Aside, ResumeInv
  <2> QED
    BY <2>4, <2>5, <2>6, <2>7 DEF ResumeInv, ResumedLate, Holding, Terminal
<1>6. CASE TakeUp
  <2>1. \A r \in Requests : Holder(r) => Holder(r)'
    BY <1>6 DEF TakeUp, Holder, Holding, Terminal
  <2> QED
    BY <1>6, <2>1 DEF TakeUp, ResumeInv, ResumedLate, Terminal
<1>7. CASE Drop
  <2>1. \A r \in Requests : Holder(r) => Holder(r)'
    BY <1>2, <1>4, <1>7 DEF Drop, Return, Holder, Holding, Terminal
  <2> QED
    BY <1>4, <1>7, <2>1 DEF Drop, Return, ResumeInv, ResumedLate, Terminal
<1>8. CASE Written
  <2>1. cur \in Requests /\ obj[cur] = base /\ base.life = "live" /\ ~Terminal(base)
    BY <1>1, <1>8 DEF Written, TypeOK, NoLag, IInv, OneStageAhead
  <2>2. \A r \in Requests : obj'[r] = IF r = cur THEN mem ELSE obj[r]
    BY <1>1, <1>8 DEF Written, TypeOK
  <2>3. suspended /\ Holder(cur) => Holding(mem)
    BY <1>8, <2>1 DEF Written, ResumeInv, Holder, Holding, Terminal
  <2>4. suspended => \E r \in Requests : \/ Holding(obj'[r])
                                         \/ ~Terminal(obj'[r]) /\ obj'[r].life # "live"
    BY <2>1, <2>2, <2>3 DEF ResumeInv, Holder
  <2>5. suspended' => \E r \in Requests : Holder(r)'
    BY <1>8, <2>4 DEF Written, Holder, Holding, Terminal
  <2>6. \A r \in Requests : ResumedLate(obj[r])'
    BY <1>8, <2>2 DEF Written, ResumeInv, ResumedLate, Terminal
  <2>7. pc' # "update" /\ (pc' # "idle" => base' = mem /\ mem' = mem)
    BY <1>8 DEF Written, Return
  <2> QED
    BY <1>8, <2>5, <2>6, <2>7 DEF Written, ResumeInv, ResumedLate, Terminal
<1>9. CASE Handler /\ UNCHANGED obj
  <2>1. pc \notin {"idle", "update"} /\ cur \in Requests
    BY <1>1, <1>9
       DEF TypeOK, Handler, handleSuspend, handleScaleDown, checkScaledDown,
           createSnapshotsForUpgrade, awaitSnapshots, handleCommitting, commitFile,
           handleReconciling, handleHealthChecking, handleCompleted, At
  <2>2. \A r \in Requests : Holder(r) => Holder(r)'
    BY <1>9, <2>1 DEF Holder, Holding, Terminal
  <2>3. CASE Return /\ suspended' = suspended
    BY <1>9, <2>2, <2>3 DEF Return, ResumeInv, ResumedLate, Terminal
  <2>4. CASE HandlerResumes
    <3>1. ~Terminal(base)
      <4>1. CASE pc = "run"
        BY <4>1 DEF IInv, OneStageAhead
      <4>2. CASE pc \in {"scaled", "push"}
        <5>1. Stage(base) \in {"scaleDown", "commit"}
          BY <4>2 DEF IInv, OneStageAhead
        <5> QED
          BY <5>1 DEF Stage, Terminal
      <4> QED
        BY <1>9, <4>1, <4>2
           DEF Handler, handleSuspend, handleScaleDown, checkScaledDown,
               createSnapshotsForUpgrade, awaitSnapshots, handleCommitting, commitFile,
               handleReconciling, handleHealthChecking, handleCompleted, At
    <3>2. ~Terminal(obj[cur])
      BY <1>1, <1>3, <2>1, <3>1 DEF NoLag
    <3>3. pc' = "update" /\ Holding(mem') => Holder(cur)'
      BY <1>9, <2>4, <3>2 DEF HandlerResumes, Holder, Holding, Terminal
    <3>4. suspended' => \E r \in Requests : Holder(r)'
      BY <2>1, <2>2, <2>4, <3>3 DEF HandlerResumes, ResumeInv
    <3> QED
      BY <1>9, <2>1, <2>4, <3>4 DEF HandlerResumes, ResumeInv, ResumedLate, Holding, Terminal
  <2> QED
    BY <1>9, <2>1, <2>3, <2>4, HandlerSuspension DEF ResumeInv
<1> QED
  BY <1>5, <1>6, <1>7, <1>8, <1>9, StepKinds

\* With current caches and as long as no call fails, when every request of the app
\* has ended and none failed after its commit, Flux is not left suspended: however
\* many requests suspended it, and whoever resumed it in between.
THEOREM EndedRequestsResume ==
  ASSUME KustomizationCurrent, CacheCurrent
  PROVE  Spec => []EndedIsResumed
<1> DEFINE Inv == faults = 0 => ResumeInv
<1>1. Init => Inv
  BY OutcomeInit DEF ResumeInv, ResumedLate, NewObject
<1>2. IInv /\ IInv' /\ NoLag /\ Inv /\ [Next]_vars => Inv'
  BY ResumeStep, FaultsGrow DEF IInv
<1>3. Inv => EndedIsResumed
  BY DEF ResumeInv, EndedIsResumed, Holder, Holding, Terminal
<1> HIDE DEF Inv
<1> QED
  BY <1>1, <1>2, <1>3, OutcomeInv, PTL DEF Spec

-----------------------------------------------------------------------------
(* The snapshots are consistent.  SnapshotsConsistent needs to know that no  *)
(* pod can start between the scale-down and the end of the snapshots.        *)

\* No pod is evicted: a workload whose pod is being replaced is not found, and so
\* is not scaled down.
NoEvictions == "evict" \notin Disturbances

\* What is suspended is the app's own Kustomization.  With a suspendRef Flux goes
\* on applying the app, and scales it up again.
OwnKustomization == \A s \in AppSpecs : ~s.suspendRef

\* The workload is scaled to 0 and has no pods.
Down(w) == w \notin replicas /\ pods[w] = "none"

\* That of every workload with claims.
AllDown == \A w \in Workloads : Mounts[w] # {} => Down(w)

\* No copy of request r, in the cache or in the worker, leads back to handleSuspend.
Past(r) ==
  /\ cache[r].suspended # "absent"
  /\ pc # "idle" /\ cur = r => base.suspended # "absent"

\* Flux was resumed, by the request or by someone else, and r will not suspend it
\* again: it commits no more, but for a commit that it is about to make.
Resumed(r) == ~suspended /\ Past(r)

\* The recorded snapshots are consistent.
QuietRecord(o) == \A p \in Recorded(o) : snaps[p][o.pvcSnapshots[p]].quiet

\* What a version o of the object of request r says, as long as Flux has not been
\* resumed: the workloads are down, and the snapshots are consistent.  A request
\* without snapshots skips their phase.
Sound(r, o) ==
  /\ ~SnapshotsEnabled(r) =>
       Recorded(o) = {} /\ (o.suspended # "absent" => o.snapshotReady)
  /\ ~Resumed(r) =>
       QuietRecord(o) /\ (o.workloadStopped /\ SnapshotsEnabled(r) => AllDown)

\* Until Flux is resumed what is not scaled down has pods, and nothing is scaled
\* down while r may still suspend Flux anew.
Stopping(r) ==
  /\ ~Resumed(r) => ~PodMissing
  /\ ~Past(r) => /\ replicas = Workloads
                 /\ ~obj[r].workloadStopped /\ ~cache[r].workloadStopped

\* What is stored and what is cached, which may be older, is sound.
ObjectsSound ==
  \A r \in Requests :
    /\ Sound(r, obj[r]) /\ Sound(r, cache[r]) /\ Stopping(r)
    /\ cache[r].suspended # "absent" => obj[r].suspended # "absent"
    /\ commits[r] # {} => QuietRecord(obj[r])

\* The worker's copies are sound; it read what the cache had seen, waits for all
\* that it scaled down, and pushes only with consistent snapshots.
WorkerSound ==
  pc # "idle" =>
    /\ Sound(cur, base) /\ Sound(cur, mem)
    /\ base.suspended # "absent" =>
         cache[cur].suspended # "absent" /\ mem.suspended # "absent"
    /\ base.suspended = "absent" /\ mem.suspended # "absent" =>
         pc = "update" /\ then = "return" /\ ~mem.workloadStopped
    /\ pc = "scaled" => SnapshotsEnabled(cur)
    /\ pc = "scaled" /\ ~Resumed(cur) =>
         \A w \in Workloads : Mounts[w] # {} =>
           w \notin replicas /\ (w \in mem.scaling \/ pods[w] = "none")
    /\ pc = "push" => QuietRecord(base)

\* The inductive invariant.
QuietInv == ObjectsSound /\ WorkerSound

\* What every step leaves: no copy of r leads back again, what was resumed is not
\* suspended again, and what is down stays down until Flux is resumed.
Steady(r) ==
  /\ Past(r) => Past(r)'
  /\ Resumed(r) => Resumed(r)'
  /\ suspended /\ ~Resumed(r)' /\ AllDown => AllDown'

\* What is recorded stays consistent.
LEMMA QuietKept ==
  ASSUME SnapsKept, NEW o \in Object, Recorded(o) = {} \/ Full(o), QuietRecord(o),
         ~PodMissing \/ Settled(o)
  PROVE  QuietRecord(o)'
  BY DEF SnapsKept, Full, Settled, SnapshotOf, QuietRecord, Recorded, Object

\* So does what was recorded when SnapshotReady was set, whatever pods start.
LEMMA ReadyKept ==
  ASSUME SnapsKept, NEW r, NEW o \in Object, SnapsOf(r, o), Sound(r, o), QuietRecord(o),
         o.snapshotReady
  PROVE  QuietRecord(o)'
<1>1. CASE SnapshotsEnabled(r)
  BY <1>1, QuietKept DEF SnapsOf
<1>2. CASE ~SnapshotsEnabled(r)
  BY <1>2 DEF Sound, QuietRecord, Recorded
<1> QED
  BY <1>1, <1>2

\* What is sound stays so.
LEMMA SoundKept ==
  ASSUME SnapsKept, app'.spec = app.spec, ask' = ask, NEW r, NEW o \in Object,
         Steady(r), Stopping(r), SnapsOf(r, o), Sound(r, o), o.workloadStopped => Past(r)
  PROVE  Sound(r, o)'
<1>1. SnapshotsEnabled(r)' = SnapshotsEnabled(r)
  BY DEF SnapshotsEnabled
<1>2. ASSUME ~Resumed(r)' PROVE QuietRecord(o)'
  <2>1. ~Resumed(r) /\ ~PodMissing /\ QuietRecord(o)
    BY <1>2 DEF Steady, Stopping, Sound
  <2> QED
    BY <2>1, QuietKept DEF SnapsOf
<1>3. ASSUME ~Resumed(r)', o.workloadStopped, SnapshotsEnabled(r) PROVE AllDown'
  <2>1. ~Resumed(r) /\ AllDown
    BY <1>3 DEF Steady, Sound
  <2>2. suspended
    BY <1>3, <2>1 DEF Resumed
  <2> QED
    BY <1>3, <2>1, <2>2 DEF Steady
<1> QED
  BY <1>1, <1>2, <1>3 DEF Sound, Recorded

\* Steps that write no object, and commit at most what the worker is pushing.
LEMMA StillSound ==
  ASSUME SnapsKept, app'.spec = app.spec, ask' = ask, IInv, SnapInv, QuietInv,
         UNCHANGED <<obj, cache>>,
         \A r \in Requests :
           /\ Steady(r) /\ Stopping(r)'
           /\ commits'[r] # {} => commits[r] # {} \/ (pc = "push" /\ cur = r)
  PROVE  ObjectsSound'
<1> SUFFICES ASSUME NEW r \in Requests
             PROVE  /\ Sound(r, obj[r])' /\ Sound(r, cache[r])' /\ Stopping(r)'
                    /\ cache'[r].suspended # "absent" => obj'[r].suspended # "absent"
                    /\ commits'[r] # {} => QuietRecord(obj[r])'
  BY DEF ObjectsSound
<1>1. /\ obj[r] \in Object /\ cache[r] \in Object
      /\ SnapsOf(r, obj[r]) /\ SnapsOf(r, cache[r]) /\ Steady(r) /\ Stopping(r) /\ Stopping(r)'
      /\ Sound(r, obj[r]) /\ Sound(r, cache[r])
      /\ cache[r].suspended # "absent" => obj[r].suspended # "absent"
  BY DEF IInv, TypeOK, SnapInv, QuietInv, ObjectsSound
<1>2. obj[r].workloadStopped \/ cache[r].workloadStopped => Past(r)
  BY <1>1 DEF Stopping
<1>3. \A o : o = obj[r] \/ o = cache[r] => Sound(r, o)'
  BY <1>1, <1>2, SoundKept
<1>4. ASSUME commits'[r] # {} PROVE QuietRecord(obj[r])'
  <2>1. QuietRecord(obj[r]) /\ obj[r].snapshotReady
    <3>1. CASE commits[r] # {}
      BY <3>1 DEF QuietInv, ObjectsSound, SnapInv
    <3>2. CASE pc = "push" /\ cur = r
      <4>1. /\ base.snapshotReady /\ QuietRecord(base)
            /\ SnapsOf(r, base) /\ Behind(base, obj[r]) /\ Sound(r, base)
        BY <3>2 DEF QuietInv, WorkerSound, SnapInv, IInv, OneStageAhead, Stage, Phase
      <4>2. CASE SnapshotsEnabled(r)
        BY <4>1, <4>2 DEF SnapsOf, Behind, QuietRecord, Recorded
      <4>3. CASE ~SnapshotsEnabled(r)
        BY <1>1, <4>1, <4>3 DEF Sound, QuietRecord, Behind
      <4> QED
        BY <4>2, <4>3
    <3> QED
      BY <1>4, <3>1, <3>2
  <2>2. \A o : o = obj[r] => QuietRecord(o)'
    BY <1>1, <2>1, ReadyKept
  <2> QED
    BY <2>2
<1> QED
  BY <1>1, <1>3, <1>4

\* A request that the worker has begun to stop is past its suspension.
LEMMA WorkerPast ==
  ASSUME IInv, QuietInv, pc # "idle"
  PROVE  /\ base.suspended # "absent" => Past(cur)
         /\ base.workloadStopped \/ mem.workloadStopped => Past(cur)
<1>1. Ordered(base) /\ Ordered(mem)
  BY DEF IInv, OneStageAhead
<1>2. base.suspended # "absent" => Past(cur)
  BY DEF QuietInv, WorkerSound, Past
<1> QED
  BY <1>1, <1>2 DEF Ordered, QuietInv, WorkerSound

\* What the worker read and holds, when the objects are left alone.
LEMMA CopiesKept ==
  ASSUME SnapsKept, app'.spec = app.spec, ask' = ask, IInv, SnapInv, QuietInv, pc # "idle",
         NEW r, r = cur, Steady(r), NEW o, o = base \/ o = mem
  PROVE  Sound(r, o)'
<1>1. cur \in Requests /\ o \in Object /\ SnapsOf(cur, o) /\ Sound(cur, o) /\ Stopping(cur)
  BY DEF IInv, TypeOK, SnapInv, QuietInv, ObjectsSound, WorkerSound
<1> QED
  BY <1>1, WorkerPast, SoundKept

-----------------------------------------------------------------------------
(* The cluster *)

\* A step of the cluster, or one that touches neither Flux nor the workloads.
Elsewhere == ClusterNext \/ UNCHANGED <<suspended, replicas, pods>>

\* Flux is held back or has nothing to scale up, and no pod is missing.
LEMMA ClusterSteady ==
  ASSUME OwnKustomization, NoEvictions, IInv, ObjectsSound, Elsewhere,
         UNCHANGED <<obj, cache, workerVars>>, app'.spec = app.spec, NEW r \in Requests
  PROVE  /\ Steady(r) /\ Stopping(r)'
         /\ ~Resumed(r)' /\ Past(r) =>
              replicas' = replicas /\ \A w \in Workloads : pods[w] = "none" => pods'[w] = "none"
<1>1. /\ ~app.spec.suspendRef /\ replicas \subseteq Workloads /\ pods \in [Workloads -> PodStates]
      /\ Stopping(r)
  BY DEF OwnKustomization, IInv, TypeOK, ClusterTypeOK, ObjectsSound
<1>2. suspended' => suspended
  BY DEF Elsewhere, ClusterNext, FluxApply, PodStart, PodReady, PodStop, SnapshotReady,
         updateManagedAppStatus, ExternalResume, fluxVars
<1>3. Past(r)' <=> Past(r)
  BY DEF Past, workerVars
<1>4. Resumed(r) => Resumed(r)'
  BY <1>2, <1>3 DEF Resumed
<1>5. CASE Resumed(r)
  BY <1>1, <1>3, <1>4, <1>5 DEF Steady, Stopping, Resumed
<1>6. CASE ~Resumed(r)
  <2>1. ~PodMissing /\ (~Past(r) => replicas = Workloads) /\ (Past(r) => suspended)
    BY <1>1, <1>6 DEF Stopping, Resumed
  <2>2. ASSUME NEW ok, FluxApply(ok)
        PROVE  ~Past(r) /\ ~suspended /\ replicas' = Workloads /\ ~PodMissing'
    <3>1. ~suspended /\ ~Past(r) /\ replicas' = Workloads
      BY <1>1, <2>1, <2>2 DEF FluxApply, AppSuspended
    <3>2. \A w \in Workloads : pods'[w] # "none"
      BY <2>1, <2>2, <3>1 DEF FluxApply, PodMissing
    <3> QED
      BY <3>1, <3>2 DEF PodMissing
  <2>3. ASSUME NEW w \in Workloads, PodStart(w) PROVE FALSE
    BY <2>1, <2>3 DEF PodStart, PodMissing
  <2>4. ASSUME NEW w \in Workloads, PodReady(w) \/ PodStop(w)
        PROVE  /\ replicas' = replicas /\ ~PodMissing'
               /\ \A x \in Workloads : pods[x] = "none" => pods'[x] = "none"
    <3>1. replicas' = replicas
      BY <2>4 DEF PodReady, PodStop
    <3>2. CASE PodReady(w)
      BY <1>1, <2>1, <3>1, <3>2 DEF PodReady, PodMissing
    <3>3. CASE PodStop(w)
      BY <1>1, <2>1, <3>1, <3>3 DEF PodStop, PodMissing, NoEvictions
    <3> QED
      BY <2>4, <3>2, <3>3
  <2>5. ASSUME UNCHANGED <<replicas, pods>>
        PROVE  /\ replicas' = replicas /\ ~PodMissing'
               /\ \A x \in Workloads : pods[x] = "none" => pods'[x] = "none"
    BY <2>1, <2>5 DEF PodMissing
  <2>6. /\ ~PodMissing' /\ (~Past(r) => replicas' = Workloads)
        /\ suspended => /\ replicas' = replicas
                        /\ \A x \in Workloads : pods[x] = "none" => pods'[x] = "none"
    BY <2>1, <2>2, <2>3, <2>4, <2>5
       DEF Elsewhere, ClusterNext, SnapshotReady, ExternalResume, updateManagedAppStatus, workloadVars
  <2>7. Stopping(r)'
    BY <1>1, <1>3, <2>6 DEF Stopping
  <2>8. suspended /\ AllDown => AllDown'
    BY <2>6 DEF AllDown, Down
  <2> QED
    BY <1>3, <1>4, <2>1, <2>6, <2>7, <2>8 DEF Steady
<1> QED
  BY <1>5, <1>6

\* The steps of the cluster preserve the invariant.
LEMMA ClusterQuiet ==
  ASSUME OwnKustomization, NoEvictions, IInv, SnapInv, QuietInv, SnapsKept, Elsewhere,
         UNCHANGED <<obj, cache, workerVars, commits, ask>>, app'.spec = app.spec
  PROVE  QuietInv'
<1>1. \A r \in Requests : Steady(r) /\ Stopping(r)'
  BY ClusterSteady DEF QuietInv
<1>2. ObjectsSound'
  BY <1>1, StillSound
<1>3. WorkerSound'
  <2> SUFFICES ASSUME pc # "idle" PROVE WorkerSound'
    BY DEF WorkerSound, workerVars
  <2>1. cur \in Requests
    BY DEF IInv, TypeOK
  <2>2. Sound(cur, base)' /\ Sound(cur, mem)'
    <3>1. \A r, o : r = cur /\ (o = base \/ o = mem) => Sound(r, o)'
      BY <1>1, <2>1, CopiesKept
    <3> QED
      BY <3>1 DEF workerVars
  <2>3. ASSUME pc = "scaled", ~Resumed(cur)', NEW w \in Workloads, Mounts[w] # {}
        PROVE  w \notin replicas' /\ (w \in mem.scaling \/ pods'[w] = "none")
    <3>1. PICK r \in Requests : r = cur
      BY <2>1
    <3>2. ~Resumed(r)' /\ Past(r)
      <4>1. base.suspended # "absent"
        BY <2>3 DEF IInv, OneStageAhead, Stage, Phase
      <4> QED
        BY <2>3, <3>1, <4>1, WorkerPast DEF workerVars, Resumed, Past
    <3>3. replicas' = replicas /\ \A x \in Workloads : pods[x] = "none" => pods'[x] = "none"
      BY <3>2, ClusterSteady DEF QuietInv
    <3>4. ~Resumed(r)
      BY <1>1, <3>2 DEF Steady
    <3> QED
      BY <2>3, <3>1, <3>3, <3>4 DEF QuietInv, WorkerSound
  <2>4. SnapshotsEnabled(cur)' = SnapshotsEnabled(cur)
    BY DEF SnapshotsEnabled, workerVars
  <2>5. ASSUME pc = "push" PROVE QuietRecord(base)'
    <3>1. /\ base \in Object /\ SnapsOf(cur, base) /\ Sound(cur, base) /\ QuietRecord(base)
          /\ base.snapshotReady
      BY <2>5 DEF IInv, TypeOK, SnapInv, QuietInv, WorkerSound, OneStageAhead, Stage, Phase
    <3>2. \A o : o = base => QuietRecord(o)'
      BY <3>1, ReadyKept
    <3> QED
      BY <3>2 DEF workerVars
  <2> QED
    BY <2>2, <2>3, <2>4, <2>5 DEF WorkerSound, QuietInv, workerVars
<1> QED
  BY <1>2, <1>3 DEF QuietInv

-----------------------------------------------------------------------------
(* Writes, crashes, deletion, the cache and the clock *)

\* Object q has got as far as o, or its snapshots have become ready meanwhile.
Like(o, q) ==
  /\ q.suspended = "absent" <=> o.suspended = "absent"
  /\ q.workloadStopped = o.workloadStopped
  /\ q.pvcSnapshots = o.pvcSnapshots /\ (o.snapshotReady => q.snapshotReady)

\* What is sound does not depend on the rest of the object.
LEMMA SoundLike ==
  ASSUME NEW r, NEW o, NEW q, Like(o, q), Sound(r, o)
  PROVE  Sound(r, q)
  BY DEF Like, Sound, QuietRecord, Recorded

\* Soundness is about the cluster, and about whether Flux was resumed.
LEMMA SoundStill ==
  ASSUME UNCHANGED <<clusterVars, ask>>, NEW r, NEW o, Past(r) => Past(r)', Sound(r, o)
  PROVE  Sound(r, o)'
<1>1. Resumed(r) => Resumed(r)'
  BY DEF Resumed, clusterVars
<1> QED
  BY <1>1 DEF Sound, clusterVars, SnapshotsEnabled, QuietRecord, Recorded, AllDown, Down

\* Objects that get no further.
LEMMA LikeObjects ==
  ASSUME UNCHANGED <<clusterVars, ask, commits>>, ObjectsSound,
         \A r \in Requests : /\ Past(r) => Past(r)'
                             /\ Like(obj[r], obj'[r])
                             /\ Like(cache[r], cache'[r]) \/ Like(obj[r], cache'[r])
  PROVE  ObjectsSound'
<1> SUFFICES ASSUME NEW r \in Requests
             PROVE  /\ Sound(r, obj[r])' /\ Sound(r, cache[r])' /\ Stopping(r)'
                    /\ cache'[r].suspended # "absent" => obj'[r].suspended # "absent"
                    /\ commits'[r] # {} => QuietRecord(obj[r])'
  BY DEF ObjectsSound
<1>1. Sound(r, obj'[r]) /\ Sound(r, cache'[r])
  BY SoundLike DEF ObjectsSound
<1>2. Sound(r, obj[r])' /\ Sound(r, cache[r])'
  <2>1. \A o : Sound(r, o) => Sound(r, o)'
    BY SoundStill
  <2>2. \A o : o = obj'[r] \/ o = cache'[r] => Sound(r, o)'
    BY <1>1, <2>1
  <2> QED
    BY <2>2
<1>3. Stopping(r)'
  BY DEF ObjectsSound, Stopping, Resumed, PodMissing, clusterVars, Like
<1>4. cache'[r].suspended # "absent" => obj'[r].suspended # "absent"
  BY DEF ObjectsSound, Like
<1>5. commits'[r] # {} => QuietRecord(obj[r])'
  BY DEF ObjectsSound, Like, QuietRecord, Recorded, clusterVars
<1> QED
  BY <1>2, <1>3, <1>4, <1>5

\* No copy leads back when the objects get no further and the worker keeps what
\* it read or returns.
LEMMA PastKept ==
  ASSUME ObjectsSound,
         \/ UNCHANGED <<pc, cur>> /\ (base'.suspended = "absent" => base.suspended = "absent")
         \/ pc' = "idle",
         NEW r \in Requests, Like(cache[r], cache'[r]) \/ Like(obj[r], cache'[r])
  PROVE  /\ Past(r) => Past(r)'
         /\ cache[r].suspended # "absent" => cache'[r].suspended # "absent"
  BY DEF Past, Like, ObjectsSound

\* A worker that keeps its copies, but for the timers.
LEMMA LikeWorker ==
  ASSUME UNCHANGED <<clusterVars, ask, pc, cur, then>>, IInv, QuietInv,
         Like(base, base'), Like(mem, mem'), mem'.scaling = mem.scaling,
         \A r \in Requests :
           /\ Past(r) => Past(r)'
           /\ cache[r].suspended # "absent" => cache'[r].suspended # "absent"
  PROVE  WorkerSound'
<1> SUFFICES ASSUME pc # "idle" PROVE WorkerSound'
  BY DEF WorkerSound
<1>1. cur \in Requests
  BY DEF IInv, TypeOK
<1>2. Sound(cur, base') /\ Sound(cur, mem')
  BY SoundLike DEF QuietInv, WorkerSound
<1>3. Sound(cur, base)' /\ Sound(cur, mem)'
  <2>1. \A r, o : r = cur /\ Sound(r, o) => Sound(r, o)'
    BY <1>1, SoundStill
  <2>2. \A r, o : r = cur /\ (o = base' \/ o = mem') => Sound(r, o)'
    BY <1>2, <2>1
  <2> QED
    BY <2>2
<1>4. SnapshotsEnabled(cur)' = SnapshotsEnabled(cur)
  BY DEF SnapshotsEnabled, clusterVars
<1>5. Resumed(cur) => Resumed(cur)'
  <2>1. \A r : r = cur => (Past(r) => Past(r)')
    BY <1>1
  <2> QED
    BY <2>1 DEF Resumed, Past, clusterVars
<1>6. QuietRecord(base) => QuietRecord(base)'
  BY DEF QuietRecord, Recorded, Like, clusterVars
<1> QED
  BY <1>1, <1>3, <1>4, <1>5, <1>6 DEF WorkerSound, QuietInv, Like, clusterVars

\* An idle worker holds nothing.
LEMMA ReturnSound == ASSUME Return PROVE WorkerSound'
  BY DEF Return, WorkerSound

\* A write that gets an object no further.
LEMMA StoreLike ==
  ASSUME TypeOK, NEW r \in Requests, NEW o, Store(r, o), Like(obj[r], o)
  PROVE  \A q \in Requests : /\ Like(obj[q], obj'[q])
                             /\ Like(cache[q], cache'[q]) \/ Like(obj[q], cache'[q])
<1>1. \A x : Like(x, x)
  BY DEF Like
<1>2. obj' = [obj EXCEPT ![r] = o] /\ (cache' = [cache EXCEPT ![r] = o] \/ cache' = cache)
  BY DEF Store
<1> QED
  BY <1>1, <1>2 DEF TypeOK

\* Deletions, deliveries, crashes, time and the finalizer.
LEMMA AsideQuiet ==
  ASSUME IInv, QuietInv,
         \/ \E r \in Requests : Delete(r) \/ Sync(r)
         \/ Tick \/ Crash \/ removeFinalizer
  PROVE  QuietInv'
<1>0. /\ \A x : Like(x, x)
      /\ \A r \in Requests : obj[r] \in Object /\ cache[r] \in Object
      /\ mem \in Object /\ base \in Object /\ TypeOK
  BY DEF Like, IInv, TypeOK
<1>1. ASSUME UNCHANGED <<clusterVars, ask, commits, pc, cur, then>>,
             Like(base, base'), Like(mem, mem'), mem'.scaling = mem.scaling,
             \A r \in Requests : /\ Like(obj[r], obj'[r])
                                 /\ Like(cache[r], cache'[r]) \/ Like(obj[r], cache'[r])
      PROVE  QuietInv'
  <2>1. \A r \in Requests :
          /\ Past(r) => Past(r)'
          /\ cache[r].suspended # "absent" => cache'[r].suspended # "absent"
    BY <1>1, PastKept DEF QuietInv, Like
  <2> QED
    BY <1>1, <2>1, LikeObjects, LikeWorker DEF QuietInv
<1>2. ASSUME UNCHANGED <<clusterVars, ask, commits>>, Return,
             \A r \in Requests : /\ Like(obj[r], obj'[r])
                                 /\ Like(cache[r], cache'[r]) \/ Like(obj[r], cache'[r])
      PROVE  QuietInv'
  <2>1. \A r \in Requests : Past(r) => Past(r)'
    BY <1>2, PastKept DEF QuietInv, Return
  <2> QED
    BY <1>2, <2>1, LikeObjects, ReturnSound DEF QuietInv
<1>3. ASSUME NEW r \in Requests, Delete(r) PROVE QuietInv'
  <2> DEFINE o == [obj[r] EXCEPT !.life = IF obj[r].finalizer THEN "deleting" ELSE "gone"]
  <2>1. Like(obj[r], o)
    BY <1>0 DEF Like, Object
  <2>2. Store(r, o) /\ UNCHANGED <<clusterVars, ask, workerVars, commits>>
    BY <1>3 DEF Delete
  <2> HIDE DEF o
  <2> QED
    BY <1>0, <1>1, <2>1, <2>2, StoreLike DEF workerVars
<1>4. ASSUME NEW r \in Requests, Sync(r) PROVE QuietInv'
  BY <1>0, <1>1, <1>4 DEF Sync, workerVars, TypeOK
<1>5. CASE Tick
  <2>1. \A o \in Object : Like(o, Older(o)) /\ Older(o).scaling = o.scaling
    BY DEF Like, Older, Object
  <2> QED
    BY <1>0, <1>1, <1>5, <2>1 DEF Tick
<1>6. CASE Crash
  BY <1>0, <1>2, <1>6 DEF Crash
<1>7. CASE removeFinalizer
  <2>1. cur \in Requests /\ mem = base /\ Return /\ UNCHANGED <<clusterVars, ask, commits>>
    BY <1>7 DEF removeFinalizer, IInv, TypeOK, OneStageAhead
  <2>2. CASE obj[cur] = base /\ Store(cur, [mem EXCEPT !.finalizer = FALSE])
    <3>1. Like(obj[cur], [mem EXCEPT !.finalizer = FALSE])
      BY <1>0, <2>1, <2>2 DEF Like, Object
    <3> QED
      BY <1>0, <1>2, <2>1, <2>2, <3>1, StoreLike
  <2>3. CASE UNCHANGED <<obj, cache>>
    BY <1>0, <1>2, <2>1, <2>3
  <2> QED
    BY <1>7, <2>2, <2>3 DEF removeFinalizer
<1> QED
  BY <1>3, <1>4, <1>5, <1>6, <1>7

\* Taking up a request: the worker's copies are what the cache says.
LEMMA ReconcileQuiet ==
  ASSUME IInv, QuietInv, NEW r \in Requests, Reconcile(r)
  PROVE  QuietInv'
<1>0. /\ \A x : Like(x, x) /\ obj[r] \in Object /\ TypeOK
      /\ UNCHANGED <<clusterVars, ask, commits>> /\ pc = "idle"
  BY DEF Like, IInv, TypeOK, Reconcile
<1>1. ASSUME NEW o, Store(r, o), Like(obj[r], o), UNCHANGED workerVars PROVE QuietInv'
  <2>1. \A q \in Requests :
          /\ Like(obj[q], obj'[q])
          /\ Like(cache[q], cache'[q]) \/ Like(obj[q], cache'[q])
    BY <1>0, <1>1, StoreLike
  <2>2. \A q \in Requests : Past(q) => Past(q)'
    BY <1>1, <2>1, PastKept DEF QuietInv, workerVars
  <2> QED
    BY <1>0, <1>1, <2>1, <2>2, LikeObjects DEF QuietInv, WorkerSound, workerVars
<1>2. CASE Store(r, [obj[r] EXCEPT !.finalizer = FALSE, !.life = "gone"]) /\ UNCHANGED workerVars
  <2>1. Like(obj[r], [obj[r] EXCEPT !.finalizer = FALSE, !.life = "gone"])
    BY <1>0 DEF Like, Object
  <2> QED
    BY <1>1, <1>2, <2>1
<1>3. CASE Store(r, [obj[r] EXCEPT !.finalizer = TRUE]) /\ UNCHANGED workerVars
  <2>1. Like(obj[r], [obj[r] EXCEPT !.finalizer = TRUE])
    BY <1>0 DEF Like, Object
  <2> QED
    BY <1>1, <1>3, <2>1
<1>4. CASE /\ pc' = "run" /\ cur' = r /\ base' = cache[r] /\ mem' = cache[r]
           /\ UNCHANGED <<then, obj, cache>>
  <2>1. \A q \in Requests : Past(q) => Past(q)'
    BY <1>4 DEF Past
  <2>2. ObjectsSound'
    BY <1>0, <1>4, <2>1, LikeObjects DEF QuietInv
  <2>3. Sound(r, cache[r])'
    BY <2>2 DEF ObjectsSound
  <2>4. WorkerSound'
    BY <1>4, <2>3 DEF WorkerSound, Sound, Resumed, Past
  <2> QED
    BY <2>2, <2>4 DEF QuietInv
<1> QED
  BY <1>2, <1>3, <1>4 DEF Reconcile

\* Status().Update stores the worker's copy over what the worker read.
LEMMA UpdateQuiet ==
  ASSUME OneRequest, IInv, SnapInv, QuietInv, statusUpdate
  PROVE  QuietInv'
<1>0. /\ pc = "update" /\ cur \in Requests /\ mem \in Object /\ TypeOK
      /\ UNCHANGED <<clusterVars, ask, commits>>
  BY DEF statusUpdate, IInv, TypeOK
<1>1. CASE Return /\ UNCHANGED <<obj, cache>>
  <2>1. \A x : Like(x, x)
    BY DEF Like
  <2>2. \A r \in Requests : Past(r) => Past(r)'
    BY <1>1, <2>1, PastKept DEF QuietInv, Return
  <2> QED
    BY <1>0, <1>1, <2>1, <2>2, LikeObjects, ReturnSound DEF QuietInv
<1>2. CASE obj[cur] = base /\ Store(cur, mem)
  <2>1. PICK r \in Requests : r = cur
    BY <1>0
  <2>2. /\ \A q \in Requests : q = r
        /\ obj'[r] = mem /\ cache'[r] \in {mem, cache[r]}
    BY <1>0, <1>2, <2>1 DEF OneRequest, Store, TypeOK
  <2>3. /\ Sound(r, mem) /\ Sound(r, cache[r]) /\ Stopping(r)
        /\ base.suspended # "absent" =>
             cache[r].suspended # "absent" /\ mem.suspended # "absent"
        /\ base.suspended = "absent" /\ mem.suspended # "absent" =>
             then = "return" /\ ~mem.workloadStopped
        /\ cache[r].suspended # "absent" => obj[r].suspended # "absent"
        /\ commits[r] # {} => QuietRecord(obj[r])
    BY <1>0, <1>2, <2>1 DEF QuietInv, WorkerSound, ObjectsSound
  <2>5. Past(r) => Past(r)'
    BY <1>0, <1>2, <2>1, <2>2, <2>3 DEF Past, statusUpdate, Return
  <2>6. \A o : o = mem \/ o = cache[r] => Sound(r, o)'
    BY <1>0, <2>3, <2>5, SoundStill
  <2>7. Stopping(r)'
    <3>1. ~Resumed(r)' => ~PodMissing'
      BY <1>0, <2>3, <2>5 DEF Stopping, PodMissing, Resumed, clusterVars
    <3>2. ASSUME ~Past(r)'
          PROVE  replicas' = Workloads /\ ~mem.workloadStopped /\ ~cache[r].workloadStopped
      BY <1>0, <2>1, <2>3, <2>5, <3>2, WorkerPast DEF Stopping, clusterVars
    <3> QED
      BY <2>2, <3>1, <3>2 DEF Stopping
  <2>8. commits[r] # {} => QuietRecord(mem)
    <3> SUFFICES ASSUME commits[r] # {} PROVE QuietRecord(mem)
      OBVIOUS
    <3>1. /\ obj[r].snapshotReady /\ SnapsOf(r, obj[r]) /\ Behind(obj[r], mem)
          /\ QuietRecord(obj[r])
      BY <1>0, <1>2, <2>1, <2>3 DEF SnapInv
    <3>2. CASE SnapshotsEnabled(r)
      BY <3>1, <3>2 DEF SnapsOf, Behind, QuietRecord, Recorded
    <3>3. CASE ~SnapshotsEnabled(r)
      BY <2>3, <3>3 DEF Sound, QuietRecord
    <3> QED
      BY <3>2, <3>3
  <2>9. QuietRecord(mem) => QuietRecord(obj[r])'
    BY <1>0, <2>2 DEF QuietRecord, Recorded, clusterVars
  <2>10. ObjectsSound'
    <3>1. Sound(r, obj[r])' /\ Sound(r, cache[r])'
      BY <2>2, <2>6
    <3>2. cache'[r].suspended # "absent" => obj'[r].suspended # "absent"
      BY <1>2, <2>1, <2>2, <2>3
    <3>3. commits'[r] # {} => QuietRecord(obj[r])'
      BY <1>0, <2>8, <2>9
    <3> QED
      BY <2>2, <2>7, <3>1, <3>2, <3>3 DEF ObjectsSound
  <2>11. CASE then # "return" /\ pc' = then /\ base' = mem /\ UNCHANGED <<cur, mem, then>>
    <3>1. pc' \in {"run", "finalize"}
      BY <2>11 DEF IInv, TypeOK
    <3>2. Sound(cur, base)' /\ Sound(cur, mem)'
      BY <2>1, <2>6, <2>11
    <3>3. mem.suspended # "absent" => cache'[cur].suspended # "absent"
      BY <2>1, <2>2, <2>3, <2>11
    <3> QED
      BY <2>10, <2>11, <3>1, <3>2, <3>3 DEF QuietInv, WorkerSound
  <2> QED
    BY <2>10, <2>11, ReturnSound DEF QuietInv, statusUpdate
<1> QED
  BY <1>1, <1>2 DEF statusUpdate

-----------------------------------------------------------------------------
(* The handlers *)

\* What a handler does: it keeps what it read, scales down and resumes only for a
\* request that has suspended, suspends only for one that has not, and commits
\* only what it pushes.
HandlerWorld ==
  /\ Return \/ UNCHANGED <<cur, base>>
  /\ UNCHANGED <<pods, obj, cache>> /\ replicas' \subseteq replicas
  /\ base.suspended = "absent" => replicas' = replicas
  /\ \/ suspended' = suspended
     \/ ~suspended' /\ base.suspended # "absent"
     \/ suspended' /\ base.suspended = "absent"
  /\ \A r \in Requests : commits'[r] # {} => commits[r] # {} \/ (pc = "push" /\ cur = r)

\* The worker has not suspended just in the phase handleSuspend.
LEMMA BaseSuspended ==
  ASSUME IInv, Handler
  PROVE  /\ pc \in {"run", "scaled", "push"} /\ cur \in Requests
         /\ base.suspended = "absent" <=> mem.suspended = "absent"
         /\ base.suspended = "absent" <=> At("suspend")
         /\ mem \in Object /\ base \in Object
<1>1. pc \in {"run", "scaled", "push"}
  BY DEF Handler, handleSuspend, handleScaleDown, checkScaledDown,
         createSnapshotsForUpgrade, awaitSnapshots, handleCommitting, commitFile,
         handleReconciling, handleHealthChecking, handleCompleted, At
<1>2. cur \in Requests /\ mem \in Object /\ base \in Object
  BY <1>1 DEF IInv, TypeOK
<1>3. CASE pc = "run"
  BY <1>1, <1>2, <1>3 DEF IInv, OneStageAhead, At, Phase
<1>4. CASE pc \in {"scaled", "push"}
  BY <1>1, <1>2, <1>4 DEF IInv, OneStageAhead, At, Stage, Phase
<1> QED
  BY <1>1, <1>2, <1>3, <1>4

\* A failure resumes Flux or leaves it.
LEMMA FailWorld ==
  ASSUME suspended \in BOOLEAN, NEW m \in Object, NEW s, NEW n, setFailed(m, s, n)
  PROVE  \/ suspended' \in {s, suspended}
         \/ suspended' = FALSE /\ m.suspended # "absent"
  BY ResumeFlag DEF setFailed, ResumeKustomization

\* That is what every handler does.
LEMMA HandlersWorld ==
  ASSUME IInv, Handler
  PROVE  HandlerWorld
<1> DEFINE m == setPhaseStartIfNeeded(mem)
<1>keeps. Return \/ UNCHANGED <<cur, base>>
  BY DEF Handler, handleSuspend, handleScaleDown, checkScaledDown,
         createSnapshotsForUpgrade, awaitSnapshots, handleCommitting, commitFile,
         handleReconciling, handleHealthChecking, handleCompleted, Fail, setFailed, WriteStatus
<1>0. /\ pc \in {"run", "scaled", "push"} /\ cur \in Requests
      /\ base.suspended = "absent" <=> mem.suspended = "absent"
      /\ base.suspended = "absent" <=> At("suspend")
      /\ mem \in Object /\ m \in Object /\ m.suspended = mem.suspended
      /\ suspended \in BOOLEAN
  <2>1. m \in Object /\ m.suspended = mem.suspended
    BY BaseSuspended, TimerType DEF setPhaseStartIfNeeded, Object
  <2> QED
    BY <2>1, BaseSuspended DEF IInv, TypeOK, ClusterTypeOK
<1>1. ASSUME NEW o \in Object, o.suspended = mem.suspended, NEW n, setFailed(o, suspended, n)
      PROVE  suspended' = suspended \/ (~suspended' /\ base.suspended # "absent")
  BY <1>0, <1>1, FailWorld
<1> HIDE DEF m
<1>2. CASE handleSuspend
  <2>1. At("suspend") /\ UNCHANGED <<pods, replicas, obj, cache, commits>>
    BY <1>2 DEF handleSuspend, workloadVars
  <2>2. \/ suspended' = suspended
        \/ ~suspended' /\ base.suspended # "absent"
        \/ suspended'
    <3>1. CASE \E again \in BOOLEAN : SuspendKustomization(again)
      BY <1>0, <3>1, SuspendFlag
    <3>2. CASE Fail(mem, 1) \/ Fail(mem, 0)
      BY <1>0, <1>1, <3>2 DEF Fail
    <3>3. CASE setFailed(mem, TRUE, 1)
      <4>1. \/ suspended' \in {TRUE, suspended}
            \/ suspended' = FALSE /\ mem.suspended # "absent"
        BY <1>0, <3>3, FailWorld
      <4> QED
        BY <1>0, <4>1
    <3> QED
      BY <1>2, <3>1, <3>2, <3>3 DEF handleSuspend
  <2> QED
    BY <1>keeps, <1>0, <2>1, <2>2 DEF HandlerWorld
<1>3. CASE handleScaleDown
  <2>1. At("scaleDown") /\ UNCHANGED <<pods, obj, cache, commits>> /\ replicas' \subseteq replicas
    BY <1>3 DEF handleScaleDown, ScaleDown
  <2>2. ~At("suspend")
    BY <2>1 DEF At
  <2>3. suspended' = suspended \/ (~suspended' /\ base.suspended # "absent")
    BY <1>0, <1>1, <1>3 DEF handleScaleDown, Fail, m
  <2> QED
    BY <1>keeps, <1>0, <2>1, <2>2, <2>3 DEF HandlerWorld
<1>4. CASE checkScaledDown
  <2>1. suspended' = suspended \/ (~suspended' /\ base.suspended # "absent")
    BY <1>0, <1>1, <1>4 DEF checkScaledDown, Fail
  <2> QED
    BY <1>keeps, <1>4, <2>1 DEF HandlerWorld, checkScaledDown, workloadVars
<1>5. CASE createSnapshotsForUpgrade
  <2>1. suspended' = suspended \/ (~suspended' /\ base.suspended # "absent")
    BY <1>0, <1>1, <1>5 DEF createSnapshotsForUpgrade, Fail, m
  <2> QED
    BY <1>keeps, <1>5, <2>1 DEF HandlerWorld, createSnapshotsForUpgrade, workloadVars
<1>6. CASE awaitSnapshots
  <2>1. suspended' = suspended \/ (~suspended' /\ base.suspended # "absent")
    BY <1>0, <1>1, <1>6 DEF awaitSnapshots, Fail, m
  <2> QED
    BY <1>keeps, <1>6, <2>1 DEF HandlerWorld, awaitSnapshots, workloadVars
<1>7. CASE handleCommitting
  <2>1. suspended' = suspended \/ (~suspended' /\ base.suspended # "absent")
    BY <1>0, <1>1, <1>7 DEF handleCommitting, Fail
  <2> QED
    BY <1>keeps, <1>7, <2>1 DEF HandlerWorld, handleCommitting, workloadVars
<1>8. CASE commitFile
  <2> DEFINE undone == [mem EXCEPT !.newVersion = base.newVersion,
                                   !.previousVersion = base.previousVersion]
  <2>1. undone \in Object /\ undone.suspended = mem.suspended
    BY <1>0, BaseSuspended DEF Object
  <2> HIDE DEF undone
  <2>2. suspended' = suspended \/ (~suspended' /\ base.suspended # "absent")
    BY <1>1, <1>8, <2>1 DEF commitFile, Fail, undone
  <2>3. pc = "push" /\ \A r \in Requests : commits'[r] # {} => commits[r] # {} \/ cur = r
    BY <1>8 DEF commitFile, IInv, TypeOK
  <2> QED
    BY <1>8, <1>keeps, <2>2, <2>3 DEF HandlerWorld, commitFile, workloadVars
<1>9. CASE handleReconciling
  <2>1. ~At("suspend")
    BY <1>9 DEF handleReconciling, At
  <2>2. suspended' = suspended \/ ~suspended'
    <3>1. AfterResume \subseteq BOOLEAN
      BY <1>0, ResumeFlag
    <3> QED
      BY <1>0, <1>9, <3>1, ResumeFlag
         DEF handleReconciling, Fail, m, setFailed, ResumeKustomization
  <2> QED
    BY <1>keeps, <1>0, <1>9, <2>1, <2>2 DEF HandlerWorld, handleReconciling, workloadVars
<1>10. CASE handleHealthChecking
  <2>1. suspended' = suspended \/ (~suspended' /\ base.suspended # "absent")
    BY <1>0, <1>1, <1>10 DEF handleHealthChecking, Fail, m
  <2> QED
    BY <1>keeps, <1>10, <2>1 DEF HandlerWorld, handleHealthChecking, workloadVars
<1>11. CASE handleCompleted
  <2>1. suspended' = suspended \/ (~suspended' /\ base.suspended # "absent")
    BY <1>0, <1>1, <1>11 DEF handleCompleted, Fail
  <2> QED
    BY <1>keeps, <1>11, <2>1 DEF HandlerWorld, handleCompleted, workloadVars
<1> QED
  BY <1>2, <1>3, <1>4, <1>5, <1>6, <1>7, <1>8, <1>9, <1>10, <1>11 DEF Handler

\* So what it leaves is steady, and the objects remain sound.
LEMMA HandlerSteady ==
  ASSUME OneRequest, IInv, SnapInv, QuietInv, Handler, HandlerWorld, SnapsKept,
         app'.spec = app.spec, ask' = ask
  PROVE  ObjectsSound' /\ \A r \in Requests : Steady(r)
<1>1. /\ pc # "idle" /\ cur \in Requests /\ replicas \subseteq Workloads
      /\ UNCHANGED <<pods, obj, cache>> /\ Stopping(cur)
      /\ base.suspended # "absent" => Past(cur)
  BY BaseSuspended, WorkerPast DEF HandlerWorld, IInv, TypeOK, ClusterTypeOK, QuietInv, ObjectsSound
<1>2. ASSUME NEW r \in Requests PROVE Steady(r) /\ Stopping(r)'
  <2>1. r = cur
    BY <1>1 DEF OneRequest
  <2>2. Past(r) => Past(r)'
    BY <1>1 DEF Past, HandlerWorld, Return
  <2>3. Resumed(r) => Resumed(r)'
    BY <1>1, <2>1, <2>2 DEF Resumed, Past, HandlerWorld
  <2>4. AllDown => AllDown'
    BY <1>1 DEF HandlerWorld, AllDown, Down
  <2>5. ~PodMissing => ~PodMissing'
    BY <1>1 DEF HandlerWorld, PodMissing
  <2>6. ~Past(r) => replicas' = replicas
    BY <1>1, <2>1 DEF HandlerWorld
  <2> QED
    BY <1>1, <2>1, <2>2, <2>3, <2>4, <2>5, <2>6 DEF Steady, Stopping
<1>3. ObjectsSound'
  BY <1>1, <1>2, StillSound DEF HandlerWorld
<1> QED
  BY <1>2, <1>3

\* The worker goes on with a sound copy.
LEMMA CopiesSound ==
  ASSUME IInv, QuietInv, Handler, HandlerWorld, UNCHANGED <<cur, base>>,
         \A r, o : r = cur /\ (o = base \/ o = mem') => Sound(r, o)',
         \/ mem'.suspended = "absent" <=> mem.suspended = "absent"
         \/ /\ mem'.suspended # "absent" /\ pc' = "update" /\ then' = "return"
            /\ ~mem'.workloadStopped,
         pc' = "scaled" => /\ SnapshotsEnabled(cur)'
                           /\ ~Resumed(cur)' =>
                                \A w \in Workloads : Mounts[w] # {} =>
                                  w \notin replicas' /\ (w \in mem'.scaling \/ pods'[w] = "none"),
         pc' = "push" => QuietRecord(base)'
  PROVE  WorkerSound'
<1>1. /\ pc # "idle" /\ cur \in Requests
      /\ base.suspended = "absent" <=> mem.suspended = "absent"
  BY BaseSuspended
<1>2. Sound(cur, base)' /\ Sound(cur, mem)'
  OBVIOUS
<1>3. base.suspended # "absent" => cache'[cur].suspended # "absent"
  BY <1>1 DEF QuietInv, WorkerSound, HandlerWorld
<1> QED
  BY <1>1, <1>2, <1>3 DEF WorkerSound

\* The worker's copies, in the next state.
LEMMA CopiesThen ==
  ASSUME IInv, SnapInv, QuietInv, Handler, SnapsKept, app'.spec = app.spec, ask' = ask,
         \A r \in Requests : Steady(r)
  PROVE  /\ \A r, o : r = cur /\ (o = base \/ o = mem) => Sound(r, o)'
         /\ \A r, o, q : Sound(r, o)' /\ Like(o, q) => Sound(r, q)'
<1>1. pc # "idle" /\ cur \in Requests
  BY BaseSuspended
<1>2. \A r, o : r = cur /\ (o = base \/ o = mem) => Sound(r, o)'
  BY <1>1, CopiesKept
<1>3. ASSUME NEW r, NEW o, NEW q, Sound(r, o)', Like(o, q) PROVE Sound(r, q)'
  BY <1>3 DEF Like, Sound, QuietRecord, Recorded
<1> QED
  BY <1>2, <1>3

\* The worker goes on with a copy that has got no further.
LEMMA LikeCopies ==
  ASSUME IInv, SnapInv, QuietInv, Handler, HandlerWorld, SnapsKept, app'.spec = app.spec,
         ask' = ask, \A r \in Requests : Steady(r),
         UNCHANGED <<cur, base>>, Like(mem, mem'), pc' # "scaled",
         pc' = "push" => QuietRecord(base)'
  PROVE  WorkerSound'
<1>1. \A r, o : r = cur /\ (o = base \/ o = mem') => Sound(r, o)'
  BY CopiesThen
<1> QED
  BY <1>1, CopiesSound DEF Like

\* A failure gets the copy no further.
LEMMA FailLike ==
  ASSUME mem \in Object, NEW m \in Object, Like(mem, m), NEW s, NEW n, setFailed(m, s, n)
  PROVE  UNCHANGED <<cur, base>> /\ Like(mem, mem') /\ pc' = "update"
  BY DEF setFailed, WriteStatus, Like, Object

\* Nor does the timer.
LEMMA TimerLike ==
  ASSUME mem \in Object, NEW m, m = setPhaseStartIfNeeded(mem)
  PROVE  m \in Object /\ Like(mem, m) /\ m.suspended = mem.suspended
<1>1. m \in Object
  BY TimerType
<1> QED
  BY <1>1 DEF setPhaseStartIfNeeded, Like, Object

\* From awaitSnapshots on, a copy gets no further than its ready snapshots.
LEMMA LaterHandlers ==
  ASSUME KustomizationCurrent, IInv, QuietInv,
         \/ awaitSnapshots \/ handleCommitting \/ commitFile
         \/ handleReconciling \/ handleHealthChecking \/ handleCompleted
  PROVE  \/ Return
         \/ /\ UNCHANGED <<cur, base>> /\ Like(mem, mem') /\ pc' # "scaled"
            /\ pc' = "push" => QuietRecord(base)'
<1> DEFINE m == setPhaseStartIfNeeded(mem)
<1>1. /\ mem \in Object /\ base \in Object /\ m \in Object /\ Like(mem, m) /\ Like(mem, mem)
      /\ m.suspended = mem.suspended
  BY TimerLike DEF IInv, TypeOK, Like
<1> HIDE DEF m
<1>2. ASSUME NEW o \in Object, Like(mem, o), NEW s, NEW n, setFailed(o, s, n)
      PROVE  UNCHANGED <<cur, base>> /\ Like(mem, mem') /\ pc' \notin {"scaled", "push"}
  BY <1>1, <1>2, FailLike
<1>3. ASSUME NEW o, Like(mem, o), NEW t, WriteStatus(o, t)
      PROVE  UNCHANGED <<cur, base>> /\ Like(mem, mem') /\ pc' \notin {"scaled", "push"}
  BY <1>3 DEF WriteStatus
<1>4. CASE awaitSnapshots
  <2>1. Like(mem, [resetPhaseStart(m) EXCEPT !.snapshotReady = TRUE])
    BY <1>1 DEF Like, resetPhaseStart, Object
  <2> QED
    BY <1>1, <1>2, <1>3, <1>4, <2>1 DEF awaitSnapshots, Fail, m
<1>5. CASE handleCommitting
  <2>1. Like(mem, [mem EXCEPT !.newVersion = TargetVersion(cur),
                              !.previousVersion = app.current])
    BY <1>1 DEF Like, Object
  <2>2. ASSUME suspended PROVE QuietRecord(base)
    BY <1>5, <2>2 DEF handleCommitting, At, QuietInv, WorkerSound, Sound, Resumed
  <2>3. ASSUME QuietRecord(base), UNCHANGED <<base, snaps>> PROVE QuietRecord(base)'
    BY <2>3 DEF QuietRecord, Recorded
  <2>4. VerifyStillSuspended(TRUE) => suspended
    BY CurrentFlag DEF IInv, TypeOK, ClusterTypeOK
  <2> QED
    BY <1>1, <1>2, <1>5, <2>1, <2>2, <2>3, <2>4 DEF handleCommitting, Fail
<1>6. CASE commitFile
  <2> DEFINE undone == [mem EXCEPT !.newVersion = base.newVersion,
                                   !.previousVersion = base.previousVersion]
  <2>1. undone \in Object /\ Like(mem, undone) /\ Like(mem, [mem EXCEPT !.gitCommitted = TRUE])
    BY <1>1 DEF Object, Like
  <2> HIDE DEF undone
  <2> QED
    BY <1>2, <1>3, <1>6, <2>1 DEF commitFile, Fail, undone
<1>7. CASE handleReconciling
  <2> DEFINE q == [m EXCEPT !.suspended = "false"]
  <2>1. mem.suspended # "absent"
    BY <1>7 DEF handleReconciling, At, Phase
  <2>2. q \in Object
    BY <1>1, ConditionType
  <2>3. Like(mem, q) /\ Like(mem, [resetPhaseStart(q) EXCEPT !.reconciled = TRUE])
    BY <1>1, <2>1, <2>2 DEF Like, resetPhaseStart, Object
  <2> HIDE DEF q
  <2> QED
    BY <1>1, <1>2, <1>3, <1>7, <2>2, <2>3 DEF handleReconciling, Fail, m, q
<1>8. CASE handleHealthChecking
  <2>1. Like(mem, [m EXCEPT !.healthy = TRUE])
    BY <1>1 DEF Like, Object
  <2> QED
    BY <1>1, <1>2, <1>3, <1>8, <2>1 DEF handleHealthChecking, Fail, m
<1>9. CASE handleCompleted
  <2>1. mem.suspended # "absent"
    BY <1>9 DEF handleCompleted, At, Phase
  <2>2. Like(mem, [mem EXCEPT !.suspended = "false", !.complete = "true"])
    BY <1>1, <2>1 DEF Like, Object
  <2> QED
    BY <1>1, <1>2, <1>3, <1>9, <2>2 DEF handleCompleted, Fail
<1> QED
  BY <1>4, <1>5, <1>6, <1>7, <1>8, <1>9

\* handleSuspend: a request without snapshots skips their phase.
LEMMA SuspendQuiet ==
  ASSUME KustomizationCurrent, IInv, SnapInv, QuietInv, HandlerWorld, SnapsKept, app'.spec = app.spec,
         ask' = ask, \A r \in Requests : Steady(r), handleSuspend
  PROVE  WorkerSound'
<1>1. Handler /\ mem \in Object /\ Like(mem, mem) /\ ~mem.workloadStopped
  BY DEF Handler, IInv, TypeOK, Like, handleSuspend, At, Phase, OneStageAhead, Ordered
<1>2. CASE Fail(mem, 1) \/ Fail(mem, 0) \/ setFailed(mem, TRUE, 1)
  BY <1>1, <1>2, FailLike, LikeCopies DEF Fail
<1>3. CASE /\ \E again \in BOOLEAN : SuspendKustomization(again)
           /\ WriteStatus([mem EXCEPT !.suspended = "true",
                             !.snapshotReady = mem.snapshotReady \/ ~SnapshotsEnabled(cur)],
                          "return")
  <2>1. /\ mem'.suspended = "true" /\ mem'.pvcSnapshots = mem.pvcSnapshots
        /\ mem'.workloadStopped = mem.workloadStopped
        /\ mem'.snapshotReady <=> mem.snapshotReady \/ ~SnapshotsEnabled(cur)
        /\ UNCHANGED <<cur, base>> /\ pc' = "update" /\ then' = "return" /\ suspended'
    <3>1. suspended'
      BY <1>3, SuspendFlag DEF IInv, TypeOK, ClusterTypeOK
    <3> QED
      BY <1>1, <1>3, <3>1 DEF WriteStatus, Object
  <2>2. \A r, o : r = cur /\ (o = base \/ o = mem) => Sound(r, o)'
    BY <1>1, CopiesThen
  <2>3. ASSUME NEW r, NEW o, r = cur, o = mem' PROVE Sound(r, o)'
    <3>1. PICK q : q = mem
      OBVIOUS
    <3>2. Sound(r, q)'
      BY <2>2, <2>3, <3>1
    <3>3. SnapshotsEnabled(r)' <=> SnapshotsEnabled(r)
      BY DEF SnapshotsEnabled
    <3> QED
      BY <2>1, <2>3, <3>1, <3>2, <3>3 DEF Sound, QuietRecord, Recorded
  <2> QED
    BY <1>1, <2>1, <2>2, <2>3, CopiesSound
<1> QED
  BY <1>2, <1>3 DEF handleSuspend

\* handleScaleDown finds every workload with claims that is not down.
LEMMA ScaleDownQuiet ==
  ASSUME ClaimsListed, IInv, SnapInv, QuietInv, HandlerWorld, SnapsKept,
         app'.spec = app.spec, ask' = ask, \A r \in Requests : Steady(r), handleScaleDown
  PROVE  WorkerSound'
<1> DEFINE m == setPhaseStartIfNeeded(mem)
           W == IF SnapshotsEnabled(cur) THEN DiscoverWorkloads ELSE {}
<1>1. /\ Handler /\ mem \in Object /\ m \in Object /\ Like(mem, m) /\ cur \in Requests
      /\ Stopping(cur) /\ replicas \subseteq Workloads /\ pods \in [Workloads -> PodStates]
  <2>1. Handler
    BY DEF Handler
  <2> QED
    BY <2>1, TimerLike, BaseSuspended DEF IInv, TypeOK, ClusterTypeOK, QuietInv, ObjectsSound
<1>2. SnapshotsEnabled(cur) => \A w \in Workloads : Mounts[w] # {} => w \in W \/ pods[w] = "none"
  <2>1. DiscoverPVCs = PVCs
    BY DEF ClaimsListed, IInv, TypeOK, ClusterTypeOK, DiscoverPVCs
  <2>2. \A w \in Workloads : Mounts[w] \subseteq PVCs
    BY ClusterAssumption
  <2> QED
    BY <2>1, <2>2 DEF DiscoverWorkloads, Running
<1>3. \A r, o : r = cur /\ (o = base \/ o = mem) => Sound(r, o)'
  BY <1>1, CopiesThen
<1>4. \A r : SnapshotsEnabled(r)' <=> SnapshotsEnabled(r)
  BY DEF SnapshotsEnabled
<1>5. /\ UNCHANGED pods
      /\ \A w \in Workloads : pods[w] = "none" /\ ~Resumed(cur) => w \notin replicas
  BY <1>1 DEF HandlerWorld, Stopping, PodMissing
<1> HIDE DEF m
<1>6. CASE Fail(m, 1)
  BY <1>1, <1>6, FailLike, LikeCopies DEF Fail
<1>7. CASE /\ W = {} /\ WriteStatus([m EXCEPT !.workloadStopped = TRUE], "run")
           /\ UNCHANGED <<suspended, replicas>>
  <2>1. /\ mem'.suspended = "absent" <=> mem.suspended = "absent"
        /\ mem'.pvcSnapshots = mem.pvcSnapshots /\ mem'.snapshotReady = m.snapshotReady
        /\ mem.snapshotReady => m.snapshotReady
        /\ UNCHANGED <<cur, base>> /\ pc' = "update"
    BY <1>1, <1>7 DEF WriteStatus, Object, Like
  <2>2. ASSUME NEW r, NEW o, r = cur, o = mem' PROVE Sound(r, o)'
    <3>1. PICK q : q = mem
      OBVIOUS
    <3>2. Sound(r, q)'
      BY <1>3, <2>2, <3>1
    <3>3. SnapshotsEnabled(r) /\ ~Resumed(r)' => AllDown'
      BY <1>1, <1>2, <1>5, <1>7, <2>2 DEF AllDown, Down, Steady
    <3> QED
      BY <1>4, <2>1, <2>2, <3>1, <3>2, <3>3 DEF Sound, QuietRecord, Recorded
  <2> QED
    BY <1>1, <1>3, <2>1, <2>2, CopiesSound
<1>8. CASE /\ W # {} /\ ScaleDown(W) /\ pc' = "scaled" /\ mem' = [m EXCEPT !.scaling = W]
           /\ UNCHANGED <<cur, base, suspended>>
  <2>1. Like(mem, mem') /\ mem'.scaling = W /\ SnapshotsEnabled(cur)
    BY <1>1, <1>8 DEF Like, Object
  <2>2. \A r, o : r = cur /\ (o = base \/ o = mem') => Sound(r, o)'
    BY <1>1, <2>1, CopiesThen
  <2>3. ~Resumed(cur)' => \A w \in Workloads : Mounts[w] # {} =>
          w \notin replicas' /\ (w \in mem'.scaling \/ pods'[w] = "none")
    <3>1. Resumed(cur) => Resumed(cur)'
      BY <1>8 DEF Resumed, Past, HandlerWorld, handleScaleDown, At
    <3> QED
      BY <1>1, <1>2, <1>5, <1>8, <2>1, <3>1 DEF ScaleDown
  <2>4. SnapshotsEnabled(cur)'
    BY <1>8, <2>1 DEF SnapshotsEnabled
  <2> QED
    BY <1>1, <1>8, <2>1, <2>2, <2>3, <2>4, CopiesSound DEF Like
<1> QED
  BY <1>6, <1>7, <1>8 DEF handleScaleDown, m

\* checkScaledDown: what was scaled down has no pods left, nor had the rest.
LEMMA CheckScaledDownQuiet ==
  ASSUME IInv, SnapInv, QuietInv, HandlerWorld, SnapsKept,
         app'.spec = app.spec, ask' = ask, \A r \in Requests : Steady(r), checkScaledDown
  PROVE  WorkerSound'
<1>1. /\ Handler /\ mem \in Object /\ Like(mem, mem) /\ cur \in Requests
      /\ UNCHANGED workloadVars /\ pc = "scaled"
  BY BaseSuspended DEF Handler, IInv, TypeOK, Like, checkScaledDown
<1>2. CASE Fail(mem, 1) \/ Fail(mem, 0)
  BY <1>1, <1>2, FailLike, LikeCopies DEF Fail
<1>3. CASE WriteStatus(mem, "return")
  BY <1>1, <1>3, LikeCopies DEF WriteStatus
<1>4. CASE /\ \A w \in mem.scaling : IsScaledDown(w)
           /\ WriteStatus([resetPhaseStart(mem) EXCEPT !.workloadStopped = TRUE], "return")
           /\ UNCHANGED suspended
  <2>1. /\ mem'.suspended = mem.suspended
        /\ mem'.pvcSnapshots = mem.pvcSnapshots /\ mem'.snapshotReady = mem.snapshotReady
        /\ UNCHANGED <<cur, base>> /\ pc' = "update"
    BY <1>1, <1>4 DEF WriteStatus, Object, resetPhaseStart
  <2>2. \A r, o : r = cur /\ (o = base \/ o = mem) => Sound(r, o)'
    BY <1>1, CopiesThen
  <2>3. ASSUME NEW r, NEW o, r = cur, o = mem' PROVE Sound(r, o)'
    <3>1. PICK q : q = mem
      OBVIOUS
    <3>2. Sound(r, q)'
      BY <2>2, <2>3, <3>1
    <3>3. ~Resumed(r)' => AllDown'
      BY <1>1, <1>4, <2>3
         DEF AllDown, Down, Steady, QuietInv, WorkerSound, IsScaledDown, workloadVars
    <3> QED
      BY <2>1, <2>3, <3>1, <3>2, <3>3 DEF Sound, QuietRecord, Recorded
  <2> QED
    BY <1>1, <2>1, <2>2, <2>3, CopiesSound
<1> QED
  BY <1>2, <1>3, <1>4 DEF checkScaledDown

\* createSnapshotsForUpgrade: the new snapshots are taken with everything down.
LEMMA CreateQuiet ==
  ASSUME ClaimsListed, IInv, SnapInv, QuietInv, HandlerWorld, SnapsKept,
         app'.spec = app.spec, ask' = ask, \A r \in Requests : Steady(r),
         createSnapshotsForUpgrade
  PROVE  WorkerSound'
<1> DEFINE m == setPhaseStartIfNeeded(mem)
<1>1. /\ Handler /\ mem \in Object /\ m \in Object /\ Like(mem, m) /\ cur \in Requests
      /\ pc = "run" /\ UNCHANGED <<app, ask>>
  <2>1. Handler /\ pc = "run"
    BY DEF Handler, createSnapshotsForUpgrade, At
  <2> QED
    BY <2>1, TimerLike, BaseSuspended DEF IInv, TypeOK, createSnapshotsForUpgrade
<1>2. DiscoverPVCs = PVCs /\ PVCs # {}
  BY ClusterAssumption DEF ClaimsListed, IInv, TypeOK, ClusterTypeOK, DiscoverPVCs
<1> HIDE DEF m
<1>3. CASE Fail(m, 1) \/ Fail(m, 0)
  BY <1>1, <1>3, FailLike, LikeCopies DEF Fail
<1>4. CASE /\ CreateSnapshots(PVCs)
           /\ WriteStatus([m EXCEPT !.pvcSnapshots =
                [p \in PVCs |-> IF p \in PVCs THEN Len(snaps[p]) + 1 ELSE 0]], "run")
           /\ UNCHANGED suspended
  <2>1. /\ mem'.pvcSnapshots = [p \in PVCs |-> Len(snaps[p]) + 1]
        /\ mem'.suspended = m.suspended /\ mem'.workloadStopped = m.workloadStopped
        /\ UNCHANGED <<cur, base>> /\ pc' = "update"
    BY <1>1, <1>4 DEF WriteStatus, Object
  <2>2. /\ mem.suspended # "absent" /\ mem.workloadStopped /\ ~mem.snapshotReady
        /\ Sound(cur, mem)
    BY <1>1 DEF createSnapshotsForUpgrade, At, Phase, QuietInv, WorkerSound
  <2>3. SnapshotsEnabled(cur) /\ (~Resumed(cur) => AllDown)
    BY <2>2 DEF Sound
  <2>4. \A r, o : r = cur /\ (o = base \/ o = mem) => Sound(r, o)'
    BY <1>1, CopiesThen
  <2>5. ASSUME NEW r, NEW o, r = cur, o = mem', ~Resumed(r)' PROVE QuietRecord(o)'
    <3>1. AllDown
      BY <1>1, <2>3, <2>5 DEF Steady
    <3>2. ASSUME NEW p \in PVCs PROVE snaps'[p][Len(snaps[p]) + 1].quiet
      <4>1. Quiet(p)
        BY <3>1 DEF Quiet, AllDown, Down
      <4>2. snaps'[p] = Append(snaps[p], [state |-> "pending", quiet |-> Quiet(p)])
        BY <1>4 DEF CreateSnapshots
      <4>3. snaps[p] \in Seq(Snapshot)
        BY DEF IInv, TypeOK, ClusterTypeOK
      <4>4. snaps'[p][Len(snaps[p]) + 1] = [state |-> "pending", quiet |-> Quiet(p)]
        BY <4>2, <4>3
      <4> QED
        BY <4>1, <4>4
    <3> QED
      BY <2>1, <2>5, <3>2 DEF QuietRecord, Recorded
  <2>6. ASSUME NEW r, NEW o, r = cur, o = mem' PROVE Sound(r, o)'
    <3>1. PICK q : q = mem
      OBVIOUS
    <3>2. Sound(r, q)'
      BY <2>4, <2>6, <3>1
    <3>3. SnapshotsEnabled(r)'
      BY <1>1, <2>3, <2>6 DEF SnapshotsEnabled
    <3> QED
      BY <1>1, <2>1, <2>5, <2>6, <3>1, <3>2, <3>3 DEF Sound, Like
  <2> QED
    BY <1>1, <2>1, <2>4, <2>6, CopiesSound DEF Like
<1> QED
  BY <1>2, <1>3, <1>4 DEF createSnapshotsForUpgrade, m

\* The handlers preserve the invariant.
LEMMA HandlerQuiet ==
  ASSUME KustomizationCurrent, OneRequest, ClaimsListed, IInv, SnapInv, QuietInv, SnapsKept,
         app'.spec = app.spec, ask' = ask, Handler
  PROVE  QuietInv'
<1>1. HandlerWorld
  BY HandlersWorld
<1>2. ObjectsSound' /\ \A r \in Requests : Steady(r)
  BY <1>1, HandlerSteady
<1>3. CASE handleSuspend
  BY <1>1, <1>2, <1>3, SuspendQuiet DEF QuietInv
<1>4. CASE handleScaleDown
  BY <1>1, <1>2, <1>4, ScaleDownQuiet DEF QuietInv
<1>5. CASE checkScaledDown
  BY <1>1, <1>2, <1>5, CheckScaledDownQuiet DEF QuietInv
<1>6. CASE createSnapshotsForUpgrade
  BY <1>1, <1>2, <1>6, CreateQuiet DEF QuietInv
<1>7. CASE \/ awaitSnapshots \/ handleCommitting \/ commitFile
           \/ handleReconciling \/ handleHealthChecking \/ handleCompleted
  BY <1>1, <1>2, <1>7, LaterHandlers, ReturnSound, LikeCopies DEF QuietInv
<1> QED
  BY <1>3, <1>4, <1>5, <1>6, <1>7 DEF Handler

-----------------------------------------------------------------------------
(* The theorem *)

\* Every step preserves the invariant.
LEMMA QuietStep ==
  ASSUME KustomizationCurrent, OneRequest, ClaimsListed, NoEvictions, OwnKustomization,
         IInv, SnapInv, QuietInv, [Next]_vars
  PROVE  QuietInv'
<1>1. SnapsKept /\ app'.spec = app.spec /\ ask' = ask
  BY SnapsMonotone, SpecsFixed DEF IInv
<1>2. CASE WorkerStep
  BY <1>1, <1>2, HandlerQuiet, UpdateQuiet, AsideQuiet DEF WorkerStep, Handler
<1>3. CASE ClusterNext /\ UNCHANGED <<ask, obj, cache, workerVars, rollbacks, commits, faults>>
  BY <1>1, <1>3, ClusterQuiet DEF Elsewhere
<1>4. CASE UNCHANGED vars
  <2>1. UNCHANGED <<clusterVars, ask, commits, pc, cur, then, base, mem, obj, cache>>
    BY <1>4 DEF vars, workerVars
  <2>2. \A x : Like(x, x)
    BY DEF Like
  <2> QED
    BY <2>1, <2>2, PastKept, LikeObjects, LikeWorker DEF QuietInv
<1> QED
  BY <1>2, <1>3, <1>4, ReconcileQuiet, AsideQuiet DEF Next

\* Initially nothing is recorded, and everything is up.
LEMMA QuietInit ==
  ASSUME Init
  PROVE  SnapInv /\ QuietInv
<1>1. /\ Recorded(NewObject) = {} /\ ~NewObject.snapshotReady
      /\ NewObject.suspended = "absent" /\ ~NewObject.workloadStopped
  BY DEF Recorded, NewObject
<1>2. /\ ~suspended /\ replicas = Workloads /\ pc = "idle" /\ ~PodMissing
      /\ \A r \in Requests :
           obj[r] = NewObject /\ cache[r] = NewObject /\ commits[r] = {}
  BY DEF Init, ClusterInit, PodMissing
<1>3. SnapInv
  BY <1>1, <1>2 DEF SnapInv, SnapsOf, Behind
<1>4. QuietInv
  BY <1>1, <1>2
     DEF QuietInv, ObjectsSound, WorkerSound, Sound, Stopping, Past, QuietRecord
<1> QED
  BY <1>3, <1>4

\* The snapshots a request recorded before it committed are consistent: no pod had
\* the claim mounted until they were ready.  This is for one request at a time,
\* of an app that lists its claims and is applied by the Kustomization that is
\* suspended, when no pod is evicted and what is read of the Kustomization is
\* current; failed scale-downs, retries, crashes, stale reads of the request,
\* deletions, and people or a parent who resume Flux notwithstanding.
THEOREM SnapshotsAreConsistent ==
  ASSUME KustomizationCurrent, OneRequest, ClaimsListed, NoEvictions, OwnKustomization
  PROVE  Spec => []SnapshotsConsistent
<1>1. Init => SnapInv /\ QuietInv
  BY QuietInit
<1>2. IInv /\ SnapInv /\ QuietInv /\ [Next]_vars => SnapInv' /\ QuietInv'
  BY SnapStep, QuietStep
<1>3. QuietInv => SnapshotsConsistent
  BY DEF QuietInv, ObjectsSound, SnapshotsConsistent, QuietRecord
<1> QED
  BY <1>1, <1>2, <1>3, Invariance, PTL DEF Spec

-----------------------------------------------------------------------------
(* What an automatic rollback finds in the request: facts that the proofs    *)
(* about both controllers together need.                                     *)

\* A previous version is recorded together with the commit.
PrevOf(o) == o.previousVersion # NoVersion => o.gitCommitted

\* That of what is stored and of the worker's copies, but for the copy that is
\* being pushed; and a commit that is recorded was made.
PrevInv ==
  /\ \A r \in Requests : PrevOf(obj[r]) /\ (obj[r].gitCommitted => commits[r] # {})
  /\ pc # "idle" => /\ PrevOf(base) /\ (pc # "push" => PrevOf(mem))
                    /\ mem.gitCommitted => commits[cur] # {}

\* A handler records a previous version only when it pushes.
LEMMA HandlerPrev ==
  ASSUME IInv, PrevOf(base), pc # "push" => PrevOf(mem), Handler
  PROVE  Return \/ (pc' # "push" => PrevOf(mem'))
<1> DEFINE m == setPhaseStartIfNeeded(mem)
           Same(q) == /\ q.gitCommitted = mem.gitCommitted
                      /\ q.previousVersion = mem.previousVersion
<1>1. mem \in Object /\ base \in Object /\ m \in Object
  BY TimerType DEF IInv, TypeOK
<1>2. Same(m) /\ Same(mem)
  BY <1>1 DEF setPhaseStartIfNeeded, Object
<1> HIDE DEF m
<1>3. ASSUME NEW q \in Object, PrevOf(q), NEW s, NEW n, setFailed(q, s, n)
      PROVE  PrevOf(mem')
  BY <1>3 DEF setFailed, WriteStatus, Object, PrevOf
<1> USE DEF Fail, WriteStatus
<1>4. CASE handleSuspend
  BY <1>1, <1>2, <1>3, <1>4 DEF handleSuspend, Object, At, PrevOf
<1>5. CASE handleScaleDown
  BY <1>1, <1>2, <1>3, <1>5 DEF handleScaleDown, Object, m, At, PrevOf
<1>6. CASE checkScaledDown
  BY <1>1, <1>2, <1>3, <1>6 DEF checkScaledDown, resetPhaseStart, Object, PrevOf
<1>7. CASE createSnapshotsForUpgrade
  BY <1>1, <1>2, <1>3, <1>7 DEF createSnapshotsForUpgrade, Object, m, At, PrevOf
<1>8. CASE awaitSnapshots
  BY <1>1, <1>2, <1>3, <1>8 DEF awaitSnapshots, resetPhaseStart, Object, m, At, PrevOf
<1>9. CASE handleCommitting
  BY <1>1, <1>2, <1>3, <1>9 DEF handleCommitting, Object, At, PrevOf
<1>10. CASE commitFile
  <2> DEFINE undone == [mem EXCEPT !.newVersion = base.newVersion,
                                   !.previousVersion = base.previousVersion]
  <2>1. ~base.gitCommitted
    BY <1>1, <1>10 DEF IInv, OneStageAhead, commitFile, Stage, Phase, Object
  <2>2. undone \in Object /\ PrevOf(undone)
    BY <1>1, <2>1 DEF Object, PrevOf
  <2> HIDE DEF undone
  <2> QED
    BY <1>1, <1>3, <1>10, <2>2 DEF commitFile, undone, Object, PrevOf
<1>11. CASE handleReconciling
  <2> DEFINE q == [m EXCEPT !.suspended = "false"]
             d == [resetPhaseStart(q) EXCEPT !.reconciled = TRUE]
  <2>1. q \in Object /\ Same(q)
    BY <1>1, <1>2, ConditionType DEF Object
  <2>2. Same(d)
    BY <2>1 DEF resetPhaseStart, Object
  <2> HIDE DEF q, d
  <2> QED
    BY <1>1, <1>2, <1>3, <1>11, <2>1, <2>2 DEF handleReconciling, m, q, d, At, PrevOf
<1>12. CASE handleHealthChecking
  BY <1>1, <1>2, <1>3, <1>12 DEF handleHealthChecking, Object, m, At, PrevOf
<1>13. CASE handleCompleted
  BY <1>1, <1>2, <1>3, <1>13 DEF handleCompleted, Object, At, PrevOf
<1> QED
  BY <1>4, <1>5, <1>6, <1>7, <1>8, <1>9, <1>10, <1>11, <1>12, <1>13 DEF Handler

\* Timers, finalizers and lives are not part of that.
LEMMA TouchedPrev ==
  ASSUME NEW o \in Object, NEW q \in Object, Touched(o, q)
  PROVE  PrevOf(q) <=> PrevOf(o)
  BY DEF Touched, Object, PrevOf

\* Every step preserves it.
LEMMA PrevStep ==
  ASSUME CacheCurrent, IInv, IInv', NoLag, PrevInv, [Next]_vars
  PROVE  PrevInv'
<1>1. /\ TypeOK /\ mem \in Object /\ base \in Object /\ mem' \in Object /\ base' \in Object
      /\ \A r \in Requests : obj[r] \in Object /\ obj'[r] \in Object
      /\ pc # "idle" => cur \in Requests
  BY DEF IInv, TypeOK
<1>2. CASE Aside
  <2>1. /\ mem'.gitCommitted = mem.gitCommitted /\ (PrevOf(mem') <=> PrevOf(mem))
        /\ PrevOf(base') <=> PrevOf(base)
        /\ \A r \in Requests : /\ obj'[r].gitCommitted = obj[r].gitCommitted
                               /\ PrevOf(obj'[r]) <=> PrevOf(obj[r])
    BY <1>1, <1>2, TouchedFields, TouchedPrev DEF Aside, AllTouched
  <2> QED
    BY <1>2, <2>1 DEF Aside, PrevInv
<1>3. CASE TakeUp
  BY <1>3 DEF TakeUp, PrevInv
<1>4. CASE Drop
  <2>1. \A r \in Requests : /\ obj'[r].gitCommitted = obj[r].gitCommitted
                            /\ PrevOf(obj'[r]) <=> PrevOf(obj[r])
    BY <1>1, <1>4, TouchedFields, TouchedPrev DEF Drop, AllTouched
  <2> QED
    BY <1>4, <2>1 DEF Drop, Return, PrevInv
<1>5. CASE Written
  BY <1>1, <1>5 DEF Written, Return, TypeOK, PrevInv
<1>6. CASE Handler /\ UNCHANGED obj
  <2>1. pc # "idle" /\ cur \in Requests
    BY <1>1, <1>6, HandlerCommit
  <2>2. Return \/ (cur' = cur /\ base' = base /\ (pc' # "push" => PrevOf(mem')))
    BY <1>6, <2>1, HandlerCommit, HandlerPrev DEF PrevInv
  <2>3. \A r \in Requests : commits[r] # {} => commits'[r] # {}
    BY <1>1, <1>6, <2>1, HandlerCommit DEF TypeOK
  <2>4. Return \/ (mem'.gitCommitted => mem.gitCommitted \/ commits'[cur] # {})
    BY <1>1, <1>6, <2>1, HandlerCommit DEF TypeOK
  <2> QED
    BY <1>6, <2>1, <2>2, <2>3, <2>4 DEF PrevInv, Return
<1> QED
  BY <1>2, <1>3, <1>4, <1>5, <1>6, StepKinds
=============================================================================
