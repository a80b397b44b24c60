--------------------------- MODULE RollbackProofs ---------------------------
(***************************************************************************)
(* Proofs about module Rollback, for any number of rollbacks, workloads,   *)
(* claims and versions, any timeouts, any bound on faults and whatever     *)
(* disturbances: type correctness and the life cycle.                      *)
(***************************************************************************)
EXTENDS Rollback, ClusterProofs

-----------------------------------------------------------------------------
(* Operators on objects *)

\* A request that no reconcile has touched is an object.
LEMMA NewObjectType == NewObject \in Object
  BY RollbackAssumption DEF NewObject, Object, NoTimer, Tristate

\* Starting, resetting and ageing the phase timer gives an object again.
LEMMA TimerType ==
  ASSUME NEW o \in Object
  PROVE  /\ setPhaseStartIfNeeded(o) \in Object
         /\ resetPhaseStart(o) \in Object
         /\ Older(o) \in Object
  BY RollbackAssumption
     DEF Object, NoTimer, setPhaseStartIfNeeded, resetPhaseStart, Older

\* The conditions of an object are set in the order of the phases.
Ordered(o) ==
  /\ o.suspended = "absent" => ~o.workloadStopped /\ ~o.volumesRestored
  /\ o.gitReverted => o.workloadStopped /\ o.volumesRestored
  /\ o.reconciled => o.gitReverted
  /\ o.healthy => o.reconciled
  /\ o.complete = "true" => o.healthy

\* A change from o to q that leaves the conditions and the status alone.
Touched(o, q) ==
  q = [o EXCEPT !.life = q.life, !.finalizer = q.finalizer, !.phaseAge = q.phaseAge]

\* Touching an object keeps its stage.
LEMMA TouchedStage ==
  ASSUME NEW o \in Object, NEW q, Touched(o, q)
  PROVE  /\ Stage(q) = Stage(o) /\ (Ordered(q) <=> Ordered(o))
         /\ (Terminal(q) <=> Terminal(o))
  BY DEF Touched, Object, Stage, Phase, Ordered, Terminal

\* An object that does not change, one that grows older, and one whose
\* finalizer, life or timer changes, are touched.
LEMMA Touching ==
  ASSUME NEW o \in Object, NEW f \in BOOLEAN, NEW l \in {"live", "deleting", "gone"}
  PROVE  /\ Touched(o, o) /\ Touched(o, Older(o))
         /\ Touched(o, setPhaseStartIfNeeded(o)) /\ Touched(o, resetPhaseStart(o))
         /\ Touched(o, [o EXCEPT !.finalizer = f])
         /\ Touched(o, [o EXCEPT !.life = l])
         /\ Touched(o, [o EXCEPT !.finalizer = f, !.life = l])
<1>1. Touched(o, o) /\ Touched(o, [o EXCEPT !.finalizer = f])
      /\ Touched(o, [o EXCEPT !.life = l])
      /\ Touched(o, [o EXCEPT !.finalizer = f, !.life = l])
  BY DEF Touched, Object
<1>2. Touched(o, Older(o))
  BY DEF Touched, Object, Older, NoTimer
<1>3. Touched(o, setPhaseStartIfNeeded(o)) /\ Touched(o, resetPhaseStart(o))
  BY DEF Touched, Object, setPhaseStartIfNeeded, resetPhaseStart, NoTimer
<1> QED
  BY <1>1, <1>2, <1>3

-----------------------------------------------------------------------------
(* The inductive invariant.  TypeOK is not inductive by itself: commitFile   *)
(* puts the upgrade's previous version into Git, which handleGitRevert has   *)
(* checked to be one.                                                        *)

\* The worker's variables, and that its copy is at most one stage ahead of the
\* object it read, of a rollback that had not ended.
WorkerClose ==
  /\ pc \in {"idle", "run", "scaled", "next", "deleting", "push", "resumed", "update",
             "finalize"}
  /\ cur \in Rollbacks \cup {None} /\ (pc # "idle" => cur # None)
  /\ base \in Object /\ mem \in Object
  /\ then \in {"return", "run", "next", "resumed", "finalize"}
  /\ Ordered(base) /\ Ordered(mem)
  /\ pc = "run" => mem = base /\ ~Terminal(base)
  /\ pc = "scaled" => Stage(base) = "stop" /\ Stage(mem) = "stop"
  /\ pc \in {"next", "deleting"} => Stage(base) = "restore" /\ Stage(mem) = "restore"
  /\ pc = "push" => /\ Stage(base) = "revert" /\ Stage(mem) = "revert"
                    /\ upgrade[cur].previousVersion \in Versions
  /\ pc = "resumed" => Stage(base) = "reconcile" /\ Stage(mem) = "reconcile"
  /\ pc = "update" =>
       /\ ~Terminal(base)
       /\ Stage(mem) \in {Stage(base)} \cup Lifecycle!Successors(Stage(base))
       /\ then = "run" => ~Terminal(mem)
       /\ then = "next" => Stage(mem) = "restore"
       /\ then = "resumed" => Stage(mem) = "reconcile"
  /\ pc = "finalize" => mem = base

\* What the API server and the cache hold.
StoredOK ==
  /\ obj \in [Rollbacks -> Object] /\ cache \in [Rollbacks -> Object]
  /\ lagged \in BOOLEAN
  /\ \A r \in Rollbacks : Ordered(obj[r]) /\ Ordered(cache[r])

\* Everything else that steps change.
WorldOK ==
  /\ ClusterTypeOK
  /\ claims \in [PVCs -> Claim] /\ upgrade \in [Rollbacks -> UpgradeView]
  /\ faults \in 0..MaxFaults

\* The inductive invariant: no type is kept without the worker being close to
\* what it read.
IInv == WorldOK /\ StoredOK /\ WorkerClose

\* An idle worker holds nothing.
LEMMA ReturnClose ==
  ASSUME Return
  PROVE  WorkerClose'
<1>1. Ordered(NewObject)
  BY DEF Ordered, NewObject
<1> QED
  BY <1>1, NewObjectType DEF Return, WorkerClose

\* Calls that fail are counted.
LEMMA FailingType ==
  ASSUME WorldOK, NEW n \in Nat, Failing(n)
  PROVE  faults' \in 0..MaxFaults
  BY RollbackAssumption DEF WorldOK, Failing

\* An object is not terminal just when its stage is a phase.
LEMMA PhaseStage ==
  ASSUME NEW o \in Object
  PROVE  /\ ~Terminal(o) => Stage(o) = Phase(o)
         /\ Terminal(o) => Stage(o) \in {"succeeded", "failed"}
         /\ Phase(o) \notin {"succeeded", "failed"}
  BY DEF Terminal, Stage, Phase, Object, Tristate

\* A copy handed to Status().Update.
LEMMA WriteClose ==
  ASSUME WorkerClose, pc # "idle", ~Terminal(base), NEW m \in Object, Ordered(m),
         NEW t \in {"return", "run", "next", "resumed", "finalize"}, WriteStatus(m, t),
         Stage(m) \in {Stage(base)} \cup Lifecycle!Successors(Stage(base)),
         t = "run" => ~Terminal(m),
         t = "next" => Stage(m) = "restore", t = "resumed" => Stage(m) = "reconcile"
  PROVE  WorkerClose'
  BY DEF WorkerClose, WriteStatus

\* setFailed, in each phase but the last.
LEMMA FailClose ==
  ASSUME WorldOK, WorkerClose, pc # "idle", ~Terminal(base), NEW m \in Object, Ordered(m),
         Stage(m) = Stage(base), Stage(base) # "done",
         NEW reason \in {"UpgradeInProgress", "other"}, NEW n \in Nat,
         setFailed(m, reason, n)
  PROVE  WorkerClose' /\ faults' \in 0..MaxFaults
<1> DEFINE f == [m EXCEPT !.complete = "false", !.reason = reason]
<1>1. f \in Object /\ Ordered(f) /\ Stage(f) = "failed"
  BY DEF Object, Ordered, Stage, Tristate
<1>2. Stage(base) \in {"suspend", "stop", "restore", "revert", "reconcile", "health"}
  BY PhaseStage DEF WorkerClose, Phase
<1>3. "failed" \in Lifecycle!Successors(Stage(base))
  BY <1>2 DEF Lifecycle!Successors
<1>4. WriteStatus(f, "finalize") /\ Failing(n)
  BY DEF setFailed
<1> HIDE DEF f
<1> QED
  BY <1>1, <1>3, <1>4, WriteClose, FailingType

\* The worker runs a handler on what it read, in the phase of that object; the
\* copy with the timer started is of the same stage.
LEMMA RunStage ==
  ASSUME WorkerClose, NEW f, At(f)
  PROVE  /\ mem = base /\ base \in Object /\ ~Terminal(base) /\ Ordered(base)
         /\ Phase(base) = f /\ Stage(base) = f /\ pc # "idle" /\ cur \in Rollbacks
         /\ LET m == setPhaseStartIfNeeded(mem)
            IN  m \in Object /\ Ordered(m) /\ Stage(m) = f /\ ~Terminal(m)
<1>1. /\ mem = base /\ base \in Object /\ ~Terminal(base) /\ Ordered(base)
      /\ Phase(base) = f /\ Stage(base) = f /\ pc # "idle" /\ cur \in Rollbacks
  BY PhaseStage DEF WorkerClose, At
<1> QED
  BY <1>1, TimerType, Touching, TouchedStage

-----------------------------------------------------------------------------
(* The handlers keep the worker close *)

\* handleSuspend goes to "stop" or fails.
LEMMA SuspendClose ==
  ASSUME WorldOK, WorkerClose, handleSuspend
  PROVE  WorkerClose' /\ faults' \in 0..MaxFaults
<1> DEFINE m == [mem EXCEPT !.suspended = "true",
                            !.volumesRestored = @ \/ ToRestore = {}]
<1>1. /\ mem = base /\ base \in Object /\ ~Terminal(base) /\ Ordered(base)
      /\ Phase(base) = "suspend" /\ Stage(base) = "suspend" /\ pc # "idle"
  BY RunStage DEF handleSuspend
<1>2. m \in Object
  BY <1>1 DEF Object, Tristate
<1>3. Ordered(m) /\ Stage(m) = "stop"
  BY <1>1 DEF Ordered, Stage, Phase, Object, Terminal
<1> HIDE DEF m
<1>4. CASE \/ Fail(mem, 1) \/ Fail(mem, 0) \/ setFailed(mem, "UpgradeInProgress", 0)
  BY <1>1, <1>4, FailClose DEF Fail
<1>5. CASE WriteStatus(m, "return") /\ UNCHANGED faults
  BY <1>1, <1>2, <1>3, <1>5, WriteClose DEF Lifecycle!Successors, WorldOK
<1> QED
  BY <1>4, <1>5 DEF handleSuspend, m

\* handleStopWorkload skips its phase, waits in it, or fails.
LEMMA StopClose ==
  ASSUME WorldOK, WorkerClose, handleStopWorkload
  PROVE  WorkerClose' /\ faults' \in 0..MaxFaults
<1> DEFINE m == setPhaseStartIfNeeded(mem)
           W == DiscoverWorkloadsForPVCs
           done == [m EXCEPT !.workloadStopped = TRUE]
           waiting == [m EXCEPT !.scaling = W]
<1>1. /\ mem = base /\ base \in Object /\ ~Terminal(base) /\ Ordered(base)
      /\ Stage(base) = "stop" /\ pc # "idle" /\ cur \in Rollbacks
      /\ m \in Object /\ Ordered(m) /\ Stage(m) = "stop" /\ ~Terminal(m)
  BY RunStage DEF handleStopWorkload
<1> HIDE DEF m
<1>2. W \in SUBSET Workloads
  BY DEF DiscoverWorkloadsForPVCs, Running
<1>3. done \in Object /\ waiting \in Object
  BY <1>1, <1>2 DEF Object
<1>4. Ordered(done) /\ Stage(done) \in {"restore", "revert"} /\ ~Terminal(done)
  BY <1>1 DEF Ordered, Stage, Phase, Object, Terminal, Tristate
<1>5. Ordered(waiting) /\ Stage(waiting) = "stop"
  BY <1>1 DEF Ordered, Stage, Phase, Object
<1> HIDE DEF done, waiting
<1>6. CASE Fail(m, 1) \/ Fail(m, 0)
  BY <1>1, <1>6, FailClose DEF Fail
<1>7. CASE WriteStatus(done, "run") /\ UNCHANGED faults
  BY <1>1, <1>3, <1>4, <1>7, WriteClose DEF Lifecycle!Successors, WorldOK
<1>8. CASE pc' = "scaled" /\ mem' = waiting /\ UNCHANGED <<cur, base, then, faults>>
  BY <1>1, <1>3, <1>5, <1>8 DEF WorkerClose, WorldOK
<1> QED
  BY <1>6, <1>7, <1>8 DEF handleStopWorkload, m, W, done, waiting

\* The stage of an object whose stage is a phase is that phase.
LEMMA StagePhase ==
  ASSUME NEW o \in Object, Stage(o) \notin {"succeeded", "failed"}
  PROVE  ~Terminal(o) /\ Phase(o) = Stage(o)
  BY PhaseStage

\* The pods are gone, or awaited.
LEMMA StoppedClose ==
  ASSUME WorldOK, WorkerClose, checkStopped
  PROVE  WorkerClose' /\ faults' \in 0..MaxFaults
<1> DEFINE t == resetPhaseStart(mem)
           done == [t EXCEPT !.workloadStopped = TRUE]
<1>1. /\ pc = "scaled" /\ mem \in Object /\ base \in Object /\ Ordered(mem)
      /\ Stage(base) = "stop" /\ Stage(mem) = "stop" /\ ~Terminal(base)
  BY StagePhase DEF checkStopped, WorkerClose
<1>2. t \in Object /\ Ordered(t) /\ Stage(t) = "stop"
  BY <1>1, TimerType, Touching, TouchedStage
<1> HIDE DEF t
<1>3. done \in Object
  BY <1>2 DEF Object
<1>4. Ordered(done) /\ Stage(done) \in {"restore", "revert"}
  BY <1>2 DEF Ordered, Stage, Phase, Object, Tristate
<1> HIDE DEF done
<1>5. CASE Fail(mem, 1) \/ Fail(mem, 0)
  BY <1>1, <1>5, FailClose DEF Fail
<1>6. CASE WriteStatus(mem, "return") /\ UNCHANGED faults
  BY <1>1, <1>6, WriteClose DEF WorldOK
<1>7. CASE WriteStatus(done, "return") /\ UNCHANGED faults
  BY <1>1, <1>3, <1>4, <1>7, WriteClose DEF Lifecycle!Successors, WorldOK
<1> QED
  BY <1>5, <1>6, <1>7 DEF checkStopped, t, done

\* The claims are taken one by one, if Flux is still suspended.
LEMMA RestoreClose ==
  ASSUME WorldOK, WorkerClose, handleVolumeRestore
  PROVE  WorkerClose' /\ faults' \in 0..MaxFaults
<1> DEFINE m == setPhaseStartIfNeeded(mem)
<1>1. /\ mem = base /\ base \in Object /\ ~Terminal(base) /\ Ordered(base)
      /\ Stage(base) = "restore" /\ pc # "idle" /\ cur \in Rollbacks
      /\ m \in Object /\ Ordered(m) /\ Stage(m) = "restore"
  BY RunStage DEF handleVolumeRestore
<1> HIDE DEF m
<1>2. CASE Fail(m, 1) \/ Fail(m, 0)
  BY <1>1, <1>2, FailClose DEF Fail
<1>3. CASE pc' = "next" /\ mem' = m /\ UNCHANGED <<cur, base, then, faults>>
  BY <1>1, <1>3 DEF WorkerClose, WorldOK
<1> QED
  BY <1>2, <1>3 DEF handleVolumeRestore, m

\* While the claims are taken the copy is in its phase.
LEMMA RestoringStage ==
  ASSUME WorkerClose, pc \in {"next", "deleting"}
  PROVE  /\ mem \in Object /\ base \in Object /\ Ordered(mem) /\ cur \in Rollbacks
         /\ Stage(base) = "restore" /\ Stage(mem) = "restore" /\ ~Terminal(base)
  BY StagePhase DEF WorkerClose

\* A claim is deleted.
LEMMA DeleteClaimClose ==
  ASSUME WorldOK, WorkerClose, deleteClaim
  PROVE  WorkerClose' /\ faults' \in 0..MaxFaults
<1>1. /\ pc = "next" /\ mem \in Object /\ base \in Object /\ Ordered(mem)
      /\ Stage(base) = "restore" /\ Stage(mem) = "restore" /\ ~Terminal(base)
  BY RestoringStage DEF deleteClaim
<1>2. CASE Fail(mem, 1)
  BY <1>1, <1>2, FailClose DEF Fail
<1>3. CASE pc' = "deleting" /\ UNCHANGED <<cur, base, mem, then, faults>>
  BY <1>1, <1>3 DEF WorkerClose, WorldOK
<1> QED
  BY <1>2, <1>3 DEF deleteClaim

\* A claim is made anew and recorded.
LEMMA RestorePVCClose ==
  ASSUME WorldOK, WorkerClose, RestorePVCFromSnapshot
  PROVE  WorkerClose' /\ faults' \in 0..MaxFaults
<1>1. /\ pc = "deleting" /\ mem \in Object /\ base \in Object /\ Ordered(mem)
      /\ Stage(base) = "restore" /\ Stage(mem) = "restore" /\ ~Terminal(base)
  BY RestoringStage DEF RestorePVCFromSnapshot
<1>2. CASE Fail(mem, 1) \/ Fail(mem, 0)
  BY <1>1, <1>2, FailClose DEF Fail
<1>3. CASE Return /\ UNCHANGED faults
  BY <1>3, ReturnClose DEF WorldOK
<1>4. ASSUME NEW p \in PVCs, WriteStatus([mem EXCEPT !.restored[p] = "pending"], "next"),
             UNCHANGED faults
      PROVE  WorkerClose' /\ faults' \in 0..MaxFaults
  <2> DEFINE m == [mem EXCEPT !.restored[p] = "pending"]
  <2>1. m \in Object
    BY <1>1 DEF Object
  <2>2. Ordered(m) /\ Stage(m) = "restore"
    BY <1>1 DEF Ordered, Stage, Phase, Object
  <2> HIDE DEF m
  <2>3. WriteStatus(m, "next")
    BY <1>4 DEF m
  <2> QED
    BY <1>1, <1>4, <2>1, <2>2, <2>3, WriteClose DEF WorldOK
<1>5. Unrestored(mem) \subseteq PVCs
  BY DEF Unrestored, ToRestore, Recorded
<1> QED
  BY <1>2, <1>3, <1>4, <1>5 DEF RestorePVCFromSnapshot

\* All claims are bound, or awaited.
LEMMA BoundClose ==
  ASSUME WorldOK, WorkerClose, awaitBound
  PROVE  WorkerClose' /\ faults' \in 0..MaxFaults
<1> DEFINE found == [p \in PVCs |-> IF p \in Pending(mem) THEN "restored" ELSE mem.restored[p]]
           t == resetPhaseStart(mem)
           done == [t EXCEPT !.restored = found, !.volumesRestored = TRUE]
<1>1. /\ pc = "next" /\ mem \in Object /\ base \in Object /\ Ordered(mem)
      /\ Stage(base) = "restore" /\ Stage(mem) = "restore" /\ ~Terminal(base)
  BY RestoringStage DEF awaitBound
<1>2. t \in Object /\ Ordered(t) /\ Stage(t) = "restore"
  BY <1>1, TimerType, Touching, TouchedStage
<1> HIDE DEF t
<1>3. found \in [PVCs -> {"no", "pending", "restored"}]
  BY <1>1 DEF Object
<1> HIDE DEF found
<1>4. done \in Object
  BY <1>2, <1>3 DEF Object
<1>5. Ordered(done) /\ Stage(done) = "revert"
  BY <1>2 DEF Ordered, Stage, Phase, Object, Tristate
<1> HIDE DEF done
<1>6. CASE Fail(mem, 1) \/ Fail(mem, 0)
  BY <1>1, <1>6, FailClose DEF Fail
<1>7. CASE Return /\ UNCHANGED faults
  BY <1>7, ReturnClose DEF WorldOK
<1>8. CASE WriteStatus(done, "return") /\ UNCHANGED faults
  BY <1>1, <1>4, <1>5, <1>8, WriteClose DEF Lifecycle!Successors, WorldOK
<1> QED
  BY <1>6, <1>7, <1>8 DEF awaitBound, found, t, done

\* Git is reverted only to a version.
LEMMA RevertClose ==
  ASSUME WorldOK, WorkerClose, handleGitRevert
  PROVE  WorkerClose' /\ faults' \in 0..MaxFaults
<1>1. /\ mem = base /\ base \in Object /\ ~Terminal(base) /\ Ordered(base)
      /\ Stage(base) = "revert" /\ pc # "idle" /\ cur \in Rollbacks
  BY RunStage DEF handleGitRevert
<1>2. CASE Fail(mem, 1) \/ Fail(mem, 0)
  BY <1>1, <1>2, FailClose DEF Fail
<1>3. CASE /\ Up.previousVersion # NoVersion /\ pc' = "push"
           /\ UNCHANGED <<cur, base, mem, then, faults, upgrade>>
  <2>1. upgrade[cur] \in UpgradeView
    BY <1>1 DEF WorldOK
  <2>2. upgrade[cur].previousVersion \in Versions
    BY <1>3, <2>1 DEF UpgradeView, Up
  <2> QED
    BY <1>1, <1>3, <2>2 DEF WorkerClose, WorldOK
<1> QED
  BY <1>2, <1>3 DEF handleGitRevert

\* The commit goes to "reconcile", or fails as if nothing was committed.
LEMMA CommitClose ==
  ASSUME WorldOK, WorkerClose, commitFile
  PROVE  WorkerClose' /\ faults' \in 0..MaxFaults /\ git' \in Versions
<1> DEFINE done == [mem EXCEPT !.gitReverted = TRUE]
<1>1. /\ pc = "push" /\ mem \in Object /\ base \in Object /\ Ordered(mem)
      /\ Stage(base) = "revert" /\ Stage(mem) = "revert" /\ ~Terminal(base)
      /\ Up.previousVersion \in Versions
  BY StagePhase DEF commitFile, WorkerClose, Up
<1>2. done \in Object
  BY <1>1 DEF Object
<1>3. Ordered(done) /\ Stage(done) = "reconcile"
  BY <1>1 DEF Ordered, Stage, Phase, Object
<1> HIDE DEF done
<1>4. git' \in Versions
  BY <1>1 DEF commitFile, WorldOK, ClusterTypeOK
<1>5. CASE Fail(mem, 1)
  BY <1>1, <1>4, <1>5, FailClose DEF Fail
<1>6. CASE WriteStatus(done, "return") /\ UNCHANGED faults
  BY <1>1, <1>2, <1>3, <1>4, <1>6, WriteClose DEF Lifecycle!Successors, WorldOK
<1> QED
  BY <1>5, <1>6 DEF commitFile, done

\* Flux is resumed, and that is written before it is waited for.
LEMMA ReconcilingClose ==
  ASSUME WorldOK, WorkerClose, handleReconciling
  PROVE  WorkerClose' /\ faults' \in 0..MaxFaults
<1> DEFINE m == setPhaseStartIfNeeded(mem)
           resumed == [m EXCEPT !.suspended = "false"]
<1>1. /\ mem = base /\ base \in Object /\ ~Terminal(base) /\ Ordered(base)
      /\ Stage(base) = "reconcile" /\ pc # "idle" /\ cur \in Rollbacks
      /\ m \in Object /\ Ordered(m) /\ Stage(m) = "reconcile"
  BY RunStage DEF handleReconciling
<1> HIDE DEF m
<1>2. resumed \in Object
  BY <1>1 DEF Object, Tristate
<1>3. Ordered(resumed) /\ Stage(resumed) = "reconcile"
  BY <1>1 DEF Ordered, Stage, Phase, Object
<1> HIDE DEF resumed
<1>4. CASE Fail(m, 1) \/ Fail(m, 0)
  BY <1>1, <1>4, FailClose DEF Fail
<1>5. CASE WriteStatus(resumed, "resumed") /\ UNCHANGED faults
  BY <1>1, <1>2, <1>3, <1>5, WriteClose DEF WorldOK
<1> QED
  BY <1>4, <1>5 DEF handleReconciling, m, resumed

\* Flux has reconciled, or is waited for.
LEMMA ReconciledClose ==
  ASSUME WorldOK, WorkerClose, checkReconciled
  PROVE  WorkerClose' /\ faults' \in 0..MaxFaults
<1> DEFINE t == resetPhaseStart(mem)
           done == [t EXCEPT !.reconciled = TRUE]
<1>1. /\ pc = "resumed" /\ mem \in Object /\ base \in Object /\ Ordered(mem)
      /\ Stage(base) = "reconcile" /\ Stage(mem) = "reconcile" /\ ~Terminal(base)
  BY StagePhase DEF checkReconciled, WorkerClose
<1>2. t \in Object /\ Ordered(t) /\ Stage(t) = "reconcile"
  BY <1>1, TimerType, Touching, TouchedStage
<1> HIDE DEF t
<1>3. done \in Object
  BY <1>2 DEF Object
<1>4. Ordered(done) /\ Stage(done) = "health"
  <2>1. t.gitReverted /\ ~t.healthy /\ Phase(t) = "reconcile" /\ t.complete = "absent"
    BY <1>2 DEF Stage, Phase, Ordered, Object, Tristate
  <2> QED
    BY <1>2, <2>1 DEF Ordered, Stage, Phase, Object
<1> HIDE DEF done
<1>5. CASE Fail(mem, 1) \/ Fail(mem, 0)
  BY <1>1, <1>5, FailClose DEF Fail
<1>6. CASE Return /\ UNCHANGED faults
  BY <1>6, ReturnClose DEF WorldOK
<1>7. CASE WriteStatus(done, "return") /\ UNCHANGED faults
  BY <1>1, <1>3, <1>4, <1>7, WriteClose DEF Lifecycle!Successors, WorldOK
<1> QED
  BY <1>5, <1>6, <1>7 DEF checkReconciled, t, done

\* The app is healthy, or that is waited for.
LEMMA HealthClose ==
  ASSUME WorldOK, WorkerClose, handleHealthChecking
  PROVE  WorkerClose' /\ faults' \in 0..MaxFaults
<1> DEFINE m == setPhaseStartIfNeeded(mem)
           done == [m EXCEPT !.healthy = TRUE]
<1>1. /\ mem = base /\ base \in Object /\ ~Terminal(base) /\ Ordered(base)
      /\ Stage(base) = "health" /\ pc # "idle" /\ cur \in Rollbacks
      /\ m \in Object /\ Ordered(m) /\ Stage(m) = "health"
  BY RunStage DEF handleHealthChecking
<1> HIDE DEF m
<1>2. done \in Object
  BY <1>1 DEF Object
<1>3. Ordered(done) /\ Stage(done) = "done"
  <2>1. m.reconciled /\ Phase(m) = "health" /\ m.complete = "absent"
    BY <1>1 DEF Stage, Phase, Ordered, Object, Tristate
  <2> QED
    BY <1>1, <2>1 DEF Ordered, Stage, Phase, Object
<1> HIDE DEF done
<1>4. CASE Fail(m, 1) \/ Fail(m, 0)
  BY <1>1, <1>4, FailClose DEF Fail
<1>5. CASE Return /\ UNCHANGED faults
  BY <1>5, ReturnClose DEF WorldOK
<1>6. CASE WriteStatus(done, "return") /\ UNCHANGED faults
  BY <1>1, <1>2, <1>3, <1>6, WriteClose DEF Lifecycle!Successors, WorldOK
<1> QED
  BY <1>4, <1>5, <1>6 DEF handleHealthChecking, m, done

\* The end.
LEMMA CompletedClose ==
  ASSUME WorldOK, WorkerClose, handleCompleted
  PROVE  WorkerClose' /\ faults' \in 0..MaxFaults
<1> DEFINE done == [mem EXCEPT !.complete = "true"]
<1>1. /\ mem = base /\ base \in Object /\ ~Terminal(base) /\ Ordered(base)
      /\ Phase(base) = "done" /\ Stage(base) = "done" /\ pc # "idle"
  BY RunStage DEF handleCompleted
<1>2. done \in Object
  BY <1>1 DEF Object, Tristate
<1>3. Ordered(done) /\ Stage(done) = "succeeded"
  BY <1>1 DEF Ordered, Stage, Phase, Object
<1> HIDE DEF done
<1>4. WriteStatus(done, "finalize") /\ UNCHANGED faults
  BY DEF handleCompleted, done
<1> QED
  BY <1>1, <1>2, <1>3, <1>4, WriteClose DEF Lifecycle!Successors, WorldOK

-----------------------------------------------------------------------------
(* The world *)

\* What is done to a claim gives a claim again.
LEMMA ClaimType ==
  ASSUME NEW c \in Claim
  PROVE  /\ \A s \in {"bound", "terminating", "absent", "pending"} :
              [c EXCEPT !.state = s] \in Claim
         /\ \A v \in Versions : [c EXCEPT !.opened = @ \cup {v}] \in Claim
         /\ \A d \in Blank..MaxSnaps : NewClaim(d) \in Claim
  BY DEF Claim, NewClaim

\* Deleting a claim.
LEMMA DeletePVCType ==
  ASSUME WorldOK, NEW p \in PVCs, DeletePVC(p)
  PROVE  claims' \in [PVCs -> Claim]
<1>1. claims[p] \in Claim
  BY DEF WorldOK
<1>2. [claims[p] EXCEPT !.state = IF @ = "absent" THEN @ ELSE "terminating"] \in Claim
  BY <1>1 DEF Claim
<1> QED
  BY <1>2 DEF WorldOK, DeletePVC

\* The handlers and the world.
LEMMA HandlerWorld ==
  ASSUME WorldOK, WorkerClose,
         \/ handleSuspend \/ handleStopWorkload \/ checkStopped
         \/ handleVolumeRestore \/ deleteClaim \/ RestorePVCFromSnapshot \/ awaitBound
         \/ handleGitRevert \/ commitFile
         \/ handleReconciling \/ checkReconciled \/ handleHealthChecking \/ handleCompleted
  PROVE  WorkerClose' /\ WorldOK' /\ UNCHANGED stored
<1> USE DEF WorldOK, ClusterTypeOK
<1>1. CASE handleSuspend
  BY <1>1, SuspendClose DEF handleSuspend, SuspendKustomization, workloadVars
<1>2. CASE handleStopWorkload
  <2>1. replicas' \in SUBSET Workloads
    BY <1>2 DEF handleStopWorkload, ScaleDown
  <2> QED
    BY <1>2, <2>1, StopClose DEF handleStopWorkload, fluxVars
<1>3. CASE checkStopped
  BY <1>3, StoppedClose DEF checkStopped, clusterVars
<1>4. CASE handleVolumeRestore
  BY <1>4, RestoreClose DEF handleVolumeRestore, clusterVars
<1>5. CASE deleteClaim
  <2>1. claims' \in [PVCs -> Claim]
    BY <1>5, DeletePVCType DEF deleteClaim, Unrestored, ToRestore, Recorded
  <2> QED
    BY <1>5, <2>1, DeleteClaimClose DEF deleteClaim, clusterVars
<1>6. CASE RestorePVCFromSnapshot
  <2>1. claims' \in [PVCs -> Claim]
    <3>1. cur \in Rollbacks
      BY <1>6 DEF RestorePVCFromSnapshot, WorkerClose
    <3>2. upgrade[cur] \in UpgradeView
      BY <3>1
    <3>3. \A p \in PVCs : upgrade[cur].pvcSnapshots[p] \in Blank..MaxSnaps
      BY <3>2, ClusterAssumption DEF UpgradeView, Blank
    <3>4. \A p \in PVCs : NewClaim(upgrade[cur].pvcSnapshots[p]) \in Claim
      BY <3>3 DEF NewClaim, Claim
    <3>5. \/ UNCHANGED claims
          \/ \E p \in PVCs : claims' = [claims EXCEPT ![p] = NewClaim(Up.pvcSnapshots[p])]
      BY <1>6 DEF RestorePVCFromSnapshot, Unrestored, ToRestore, Recorded
    <3> QED
      BY <3>4, <3>5 DEF Up
  <2> QED
    BY <1>6, <2>1, RestorePVCClose DEF RestorePVCFromSnapshot, clusterVars
<1>7. CASE awaitBound
  BY <1>7, BoundClose DEF awaitBound, clusterVars
<1>8. CASE handleGitRevert
  BY <1>8, RevertClose DEF handleGitRevert, clusterVars
<1>9. CASE commitFile
  BY <1>9, CommitClose DEF commitFile, fluxVars, workloadVars
<1>10. CASE handleReconciling
  <2>1. suspended' \in BOOLEAN
    BY <1>10, ResumeFlag DEF handleReconciling, ResumeKustomization
  <2> QED
    BY <1>10, <2>1, ReconcilingClose DEF handleReconciling, workloadVars
<1>11. CASE checkReconciled
  BY <1>11, ReconciledClose DEF checkReconciled, clusterVars
<1>12. CASE handleHealthChecking
  BY <1>12, HealthClose DEF handleHealthChecking, clusterVars
<1>13. CASE handleCompleted
  BY <1>13, CompletedClose DEF handleCompleted, clusterVars
<1> QED
  BY <1>1, <1>2, <1>3, <1>4, <1>5, <1>6, <1>7, <1>8, <1>9, <1>10, <1>11, <1>12, <1>13

\* Flux, pods, storage and people.
LEMMA EnvironmentWorld ==
  ASSUME WorldOK, EnvironmentNext, UNCHANGED <<upgrade, faults>>
  PROVE  WorldOK'
<1>1. /\ ClusterTypeOK /\ claims \in [PVCs -> Claim]
      /\ \A p \in PVCs : claims[p] \in Claim
  BY DEF WorldOK
<1>2. ASSUME ClusterTypeOK', claims' \in [PVCs -> Claim] PROVE WorldOK'
  BY <1>2 DEF WorldOK
<1>3. ASSUME NEW ok \in BOOLEAN, FluxApplyClaims(ok) PROVE WorldOK'
  <2>1. ClusterTypeOK'
    BY <1>1, <1>3, ClusterStepType DEF FluxApplyClaims, ClusterNext
  <2>2. git \in Versions /\ Blank \in Blank..MaxSnaps
    BY <1>1, ClusterAssumption DEF ClusterTypeOK, Blank
  <2>3. claims' \in [PVCs -> Claim]
    BY <1>1, <1>3, <2>2, ClaimType DEF FluxApplyClaims
  <2> QED
    BY <1>2, <2>1, <2>3
<1>4. ASSUME NEW w \in Workloads, PodStartMounting(w) PROVE WorldOK'
  <2>1. ClusterTypeOK'
    BY <1>1, <1>4, ClusterStepType DEF PodStartMounting, ClusterNext
  <2>2. applied \in Versions
    BY <1>1 DEF ClusterTypeOK
  <2>3. claims' \in [PVCs -> Claim]
    BY <1>1, <1>4, <2>2, ClaimType DEF PodStartMounting, Open
  <2> QED
    BY <1>2, <2>1, <2>3
<1>5. ASSUME ClusterNext, UNCHANGED claims PROVE WorldOK'
  BY <1>1, <1>2, <1>5, ClusterStepType
<1>6. ASSUME NEW p \in PVCs, ClaimGone(p) \/ ClaimBound(p) PROVE WorldOK'
  <2>1. claims' \in [PVCs -> Claim]
    BY <1>1, <1>6, ClaimType DEF ClaimGone, ClaimBound
  <2>2. ClusterTypeOK'
    BY <1>1, <1>6 DEF ClaimGone, ClaimBound, clusterVars, ClusterTypeOK
  <2> QED
    BY <1>2, <2>1, <2>2
<1>7. ASSUME NEW p \in PVCs, NEW i \in 1..MaxSnaps, PruneSnapshot(p, i) PROVE WorldOK'
  <2> DEFINE e == [snaps[p][i] EXCEPT !.state = "deleted"]
  <2>1. snaps[p] \in Seq(Snapshot) /\ i \in 1..Len(snaps[p])
    BY <1>1, <1>7 DEF PruneSnapshot, ClusterTypeOK
  <2>2. snaps[p][i] \in Snapshot
    BY <2>1
  <2>3. e \in Snapshot
    BY <2>2, SnapshotType
  <2>4. snaps' = [snaps EXCEPT ![p] = [snaps[p] EXCEPT ![i] = e]]
    BY <1>1, <1>7 DEF PruneSnapshot, ClusterTypeOK
  <2> HIDE DEF e
  <2>5. [snaps[p] EXCEPT ![i] = e] \in Seq(Snapshot)
    BY <2>1, <2>3
  <2>6. snaps' \in [PVCs -> Seq(Snapshot)]
    BY <1>1, <2>4, <2>5 DEF ClusterTypeOK
  <2>7. ClusterTypeOK' /\ claims' = claims
    BY <1>1, <1>7, <2>6 DEF PruneSnapshot, ClusterTypeOK, fluxVars, workloadVars
  <2> QED
    BY <1>1, <1>2, <2>7
<1> QED
  BY <1>3, <1>4, <1>5, <1>6, <1>7 DEF EnvironmentNext, ClusterNext

-----------------------------------------------------------------------------
(* The stored objects *)

\* Every step touches the stored objects, or moves one that has not ended by
\* at most one stage.
ObjectStep ==
  \/ \A r \in Rollbacks : Touched(obj[r], obj'[r])
  \/ \E r \in Rollbacks, m \in Object :
       /\ ~Terminal(obj[r])
       /\ obj' = [obj EXCEPT ![r] = m]
       /\ Stage(m) \in {Stage(obj[r])} \cup Lifecycle!Successors(Stage(obj[r]))

\* A write of an object in order.
LEMMA StoreOK ==
  ASSUME WorldOK, StoredOK, NEW r \in Rollbacks, NEW o \in Object, Ordered(o), Store(r, o)
  PROVE  StoredOK' /\ faults' \in 0..MaxFaults
<1>1. faults' \in 0..MaxFaults
  BY FailingType DEF Store, WorldOK
<1> QED
  BY <1>1 DEF Store, StoredOK

\* A write that only touches an object.
LEMMA TouchingStore ==
  ASSUME WorldOK, StoredOK, NEW r \in Rollbacks, NEW o \in Object, Store(r, o),
         Touched(obj[r], o)
  PROVE  StoredOK' /\ faults' \in 0..MaxFaults /\ ObjectStep
<1>1. obj[r] \in Object /\ Ordered(obj[r]) /\ \A q \in Rollbacks : Touched(obj[q], obj[q])
  BY Touching DEF StoredOK
<1>2. Ordered(o)
  BY <1>1, TouchedStage
<1>3. \A q \in Rollbacks : Touched(obj[q], obj'[q])
  BY <1>1 DEF Store, StoredOK
<1> QED
  BY <1>2, <1>3, StoreOK DEF ObjectStep

\* A step without a write touches all objects.
LEMMA StillStored ==
  ASSUME StoredOK, UNCHANGED stored
  PROVE  StoredOK' /\ ObjectStep
<1>1. \A q \in Rollbacks : Touched(obj[q], obj'[q])
  BY Touching DEF StoredOK, stored
<1> QED
  BY <1>1 DEF ObjectStep, StoredOK, stored

\* The world changes in its count of faults at most.
LEMMA StillWorld ==
  ASSUME WorldOK, UNCHANGED <<clusterVars, claims, upgrade>>, faults' \in 0..MaxFaults
  PROVE  WorldOK'
  BY DEF WorldOK, ClusterTypeOK, clusterVars

\* Taking up a rollback.
LEMMA ReconcileStep ==
  ASSUME IInv, NEW r \in Rollbacks, Reconcile(r)
  PROVE  IInv' /\ ObjectStep
<1>1. /\ WorldOK /\ StoredOK /\ WorkerClose /\ r # None
      /\ obj[r] \in Object /\ cache[r] \in Object /\ Ordered(cache[r])
  BY RollbackAssumption DEF IInv, StoredOK
<1> DEFINE d == [obj[r] EXCEPT !.finalizer = FALSE, !.life = "gone"]
           f == [obj[r] EXCEPT !.finalizer = TRUE]
<1>2. d \in Object /\ f \in Object
  BY <1>1 DEF Object
<1>3. Touched(obj[r], d) /\ Touched(obj[r], f)
  BY <1>1, Touching
<1> HIDE DEF d, f
<1>4. CASE (Store(r, d) \/ Store(r, f)) /\ UNCHANGED workerVars
  <2>1. StoredOK' /\ ObjectStep /\ WorldOK'
    BY <1>1, <1>2, <1>3, <1>4, TouchingStore, StillWorld DEF Reconcile
  <2>2. WorkerClose'
    BY <1>1, <1>4 DEF WorkerClose, workerVars, Reconcile
  <2> QED
    BY <2>1, <2>2 DEF IInv
<1>5. CASE /\ ~Terminal(cache[r])
           /\ pc' = "run" /\ cur' = r /\ base' = cache[r] /\ mem' = cache[r]
           /\ UNCHANGED <<then, stored, faults>>
  <2>1. StoredOK' /\ ObjectStep /\ WorldOK'
    BY <1>1, <1>5, StillStored, StillWorld DEF Reconcile, WorldOK
  <2>2. WorkerClose'
    BY <1>1, <1>5 DEF WorkerClose
  <2> QED
    BY <2>1, <2>2 DEF IInv
<1> QED
  BY <1>4, <1>5 DEF Reconcile, d, f

\* Status().Update moves the stored object by what the worker is ahead, because
\* it is still the object the worker read.
LEMMA UpdateStep ==
  ASSUME IInv, statusUpdate
  PROVE  IInv' /\ ObjectStep
<1>1. /\ WorldOK /\ StoredOK /\ WorkerClose /\ pc = "update" /\ cur \in Rollbacks
      /\ mem \in Object /\ base \in Object /\ Ordered(mem) /\ ~Terminal(base)
      /\ Stage(mem) \in {Stage(base)} \cup Lifecycle!Successors(Stage(base))
  BY DEF IInv, WorkerClose, statusUpdate
<1>2. WorkerClose'
  <2>1. CASE Return
    BY <2>1, ReturnClose
  <2>2. CASE then # "return" /\ pc' = then /\ base' = mem /\ UNCHANGED <<cur, mem, then>>
    <3>1. then \in {"run", "next", "resumed", "finalize"}
      BY <1>1, <2>2 DEF WorkerClose
    <3> QED
      BY <1>1, <2>2, <3>1 DEF WorkerClose
  <2> QED
    BY <2>1, <2>2 DEF statusUpdate
<1>3. CASE obj[cur] = base /\ Store(cur, mem)
  <2>1. StoredOK' /\ WorldOK'
    BY <1>1, <1>3, StoreOK, StillWorld DEF statusUpdate
  <2>2. ObjectStep
    BY <1>1, <1>3 DEF ObjectStep, Store
  <2> QED
    BY <1>2, <2>1, <2>2 DEF IInv
<1>4. CASE UNCHANGED <<stored, faults>>
  <2>1. StoredOK' /\ ObjectStep /\ WorldOK'
    BY <1>1, <1>4, StillStored, StillWorld DEF statusUpdate, WorldOK
  <2> QED
    BY <1>2, <2>1 DEF IInv
<1> QED
  BY <1>3, <1>4 DEF statusUpdate

\* Removing the finalizer.
LEMMA FinalizeStep ==
  ASSUME IInv, removeFinalizer
  PROVE  IInv' /\ ObjectStep
<1> DEFINE o == [mem EXCEPT !.finalizer = FALSE]
<1>1. /\ WorldOK /\ StoredOK /\ cur \in Rollbacks /\ mem \in Object /\ mem = base
      /\ WorkerClose'
  BY ReturnClose DEF IInv, WorkerClose, removeFinalizer
<1>2. o \in Object
  BY <1>1 DEF Object
<1>3. Touched(mem, o)
  BY <1>1, Touching
<1> HIDE DEF o
<1>4. StoredOK' /\ ObjectStep /\ WorldOK'
  <2>1. CASE obj[cur] = base /\ Store(cur, o)
    BY <1>1, <1>2, <1>3, <2>1, TouchingStore, StillWorld DEF removeFinalizer
  <2>2. CASE UNCHANGED <<stored, faults>>
    BY <1>1, <2>2, StillStored, StillWorld DEF removeFinalizer, WorldOK
  <2> QED
    BY <2>1, <2>2 DEF removeFinalizer, o
<1> QED
  BY <1>1, <1>4 DEF IInv

\* Deleting a rollback.
LEMMA DeleteStep ==
  ASSUME IInv, NEW r \in Rollbacks, Delete(r)
  PROVE  IInv' /\ ObjectStep
<1> DEFINE l == IF obj[r].finalizer THEN "deleting" ELSE "gone"
           o == [obj[r] EXCEPT !.life = l]
<1>1. WorldOK /\ StoredOK /\ WorkerClose /\ obj[r] \in Object
  BY DEF IInv, StoredOK
<1>2. l \in {"live", "deleting", "gone"} /\ Store(r, o)
  BY DEF Delete
<1> HIDE DEF l
<1>3. o \in Object
  BY <1>1, <1>2 DEF Object
<1>4. Touched(obj[r], o)
  BY <1>1, <1>2, Touching
<1> HIDE DEF o
<1>5. StoredOK' /\ ObjectStep /\ WorldOK'
  BY <1>1, <1>2, <1>3, <1>4, TouchingStore, StillWorld DEF Delete
<1>6. WorkerClose'
  BY <1>1 DEF Delete, workerVars, WorkerClose
<1> QED
  BY <1>5, <1>6 DEF IInv

\* The passing of time.
LEMMA TickStep ==
  ASSUME IInv, Tick
  PROVE  IInv' /\ ObjectStep
<1>1. /\ WorldOK /\ StoredOK /\ WorkerClose /\ base \in Object /\ mem \in Object
      /\ \A r \in Rollbacks : obj[r] \in Object /\ cache[r] \in Object
  BY DEF IInv, StoredOK, WorkerClose
<1>2. \A o \in Object : /\ Older(o) \in Object /\ Touched(o, Older(o))
                        /\ Stage(Older(o)) = Stage(o) /\ (Ordered(Older(o)) <=> Ordered(o))
                        /\ (Terminal(Older(o)) <=> Terminal(o))
  BY TimerType, Touching, TouchedStage
<1>3. StoredOK' /\ ObjectStep
  BY <1>1, <1>2 DEF Tick, StoredOK, ObjectStep
<1>4. WorldOK'
  BY <1>1, StillWorld DEF Tick, WorldOK
<1>5. /\ base' = Older(base) /\ mem' = Older(mem) /\ UNCHANGED <<pc, cur, then, upgrade>>
  BY DEF Tick
<1>6. WorkerClose'
  BY <1>1, <1>2, <1>5 DEF WorkerClose
<1> QED
  BY <1>3, <1>4, <1>6 DEF IInv

\* Every step preserves the invariant and treats the stored objects as
\* ObjectStep says.
LEMMA NextStep ==
  ASSUME IInv, [Next]_vars
  PROVE  IInv' /\ ObjectStep
<1>1. WorldOK /\ StoredOK /\ WorkerClose
  BY DEF IInv
<1>2. ASSUME WorldOK', WorkerClose', UNCHANGED stored PROVE IInv' /\ ObjectStep
  BY <1>1, <1>2, StillStored DEF IInv
<1>3. CASE WorkerStep
  <2>1. CASE statusUpdate \/ removeFinalizer
    BY <2>1, UpdateStep, FinalizeStep
  <2>2. CASE ~statusUpdate /\ ~removeFinalizer
    BY <1>1, <1>2, <1>3, <2>2, HandlerWorld DEF WorkerStep
  <2> QED
    BY <2>1, <2>2
<1>4. CASE Crash
  <2>1. WorldOK' /\ WorkerClose'
    BY <1>1, <1>4, FailingType, StillWorld, ReturnClose DEF Crash
  <2> QED
    BY <1>2, <1>4, <2>1 DEF Crash
<1>5. ASSUME NEW r \in Rollbacks, Sync(r) PROVE IInv' /\ ObjectStep
  <2>1. StoredOK'
    BY <1>1, <1>5 DEF Sync, StoredOK
  <2>2. ObjectStep
    BY <1>1, <1>5, Touching DEF Sync, StoredOK, ObjectStep
  <2>3. WorldOK' /\ WorkerClose'
    BY <1>1, <1>5, StillWorld DEF Sync, WorldOK, WorkerClose, workerVars
  <2> QED
    BY <2>1, <2>2, <2>3 DEF IInv
<1>6. ASSUME NEW r \in Rollbacks, DeleteUpgrade(r) PROVE IInv' /\ ObjectStep
  <2> DEFINE u == [upgrade[r] EXCEPT !.gone = TRUE]
  <2>1. upgrade[r] \in UpgradeView /\ upgrade' = [upgrade EXCEPT ![r] = u]
    BY <1>1, <1>6 DEF DeleteUpgrade, WorldOK
  <2>2. u \in UpgradeView /\ u.previousVersion = upgrade[r].previousVersion
    BY <2>1 DEF UpgradeView
  <2> HIDE DEF u
  <2>3. /\ upgrade' \in [Rollbacks -> UpgradeView]
        /\ \A q \in Rollbacks : upgrade'[q].previousVersion = upgrade[q].previousVersion
    BY <1>1, <2>1, <2>2 DEF WorldOK
  <2>4. WorldOK'
    BY <1>1, <1>6, <2>3 DEF DeleteUpgrade, WorldOK, ClusterTypeOK, clusterVars
  <2>5. WorkerClose'
    BY <1>1, <1>6, <2>3 DEF DeleteUpgrade, WorkerClose, workerVars
  <2> QED
    BY <1>2, <1>6, <2>4, <2>5 DEF DeleteUpgrade
<1>7. CASE EnvironmentNext /\ UNCHANGED <<upgrade, stored, workerVars, faults>>
  <2>1. WorldOK' /\ WorkerClose'
    BY <1>1, <1>7, EnvironmentWorld DEF WorkerClose, workerVars
  <2> QED
    BY <1>2, <1>7, <2>1
<1>8. CASE UNCHANGED vars
  <2>1. WorldOK' /\ WorkerClose' /\ UNCHANGED stored
    BY <1>1, <1>8 DEF vars, WorldOK, ClusterTypeOK, clusterVars, WorkerClose, workerVars
  <2> QED
    BY <1>2, <2>1
<1> QED
  BY <1>3, <1>4, <1>5, <1>6, <1>7, <1>8, ReconcileStep, DeleteStep, TickStep DEF Next

\* The invariant holds initially.
LEMMA InitInv ==
  ASSUME Init
  PROVE  IInv
<1>1. Ordered(NewObject)
  BY DEF Ordered, NewObject
<1>2. ClusterTypeOK
  <2>1. <<[state |-> "ready", quiet |-> TRUE]>> \in Seq(Snapshot)
    BY DEF Snapshot
  <2>2. snaps \in [PVCs -> Seq(Snapshot)]
    BY <2>1 DEF Init
  <2>3. app \in [spec : AppSpecs, current : Versions \cup {NoVersion},
                 available : Versions \cup {NoVersion}]
    BY ClusterAssumption DEF Init
  <2> QED
    BY <2>2, <2>3, ClusterAssumption DEF Init, ClusterTypeOK, PodStates
<1>3. claims \in [PVCs -> Claim]
  <2>1. [state |-> "bound", data |-> Live, opened |-> {}] \in Claim
    BY ClusterAssumption DEF Claim, Live, Blank
  <2> QED
    BY <2>1 DEF Init
<1>4. WorldOK
  <2>1. upgrade \in [Rollbacks -> Upgrades] /\ faults = 0
    BY DEF Init
  <2>2. upgrade \in [Rollbacks -> UpgradeView] /\ faults \in 0..MaxFaults
    BY <2>1, RollbackAssumption
  <2> QED
    BY <1>2, <1>3, <2>2 DEF WorldOK
<1>5. StoredOK
  BY <1>1, NewObjectType DEF Init, StoredOK
<1>6. WorkerClose
  BY <1>1, NewObjectType DEF Init, WorkerClose
<1> QED
  BY <1>4, <1>5, <1>6 DEF IInv

-----------------------------------------------------------------------------
(* The theorems *)

\* The inductive invariant holds in every behaviour.
LEMMA Invariance == Spec => []IInv
<1>1. Init => IInv
  BY InitInv
<1>2. IInv /\ [Next]_vars => IInv'
  BY NextStep
<1> QED
  BY <1>1, <1>2, PTL DEF Spec

\* Every variable keeps its type: no handler, fault, stale read or step of
\* another actor takes the controller, the claims or the cluster out of their
\* state space; in particular only versions are put into Git.
THEOREM TypeCorrect == Spec => []TypeOK
<1>1. IInv => TypeOK
  BY DEF IInv, WorldOK, StoredOK, WorkerClose, TypeOK
<1> QED
  BY <1>1, Invariance, PTL

\* The controller implements the life cycle of RollbackLifecycle: the stored
\* conditions of every rollback go through the phases in order and one at a
\* time, and end for good, however stale the cache.
THEOREM ImplementsLifecycle == Spec => FollowsLifecycle
<1> DEFINE stages == [r \in Rollbacks |-> Stage(obj[r])]
<1>1. Init => Lifecycle!Init
  <2>1. Stage(NewObject) = "suspend"
    BY DEF Stage, Phase, NewObject
  <2> QED
    BY <2>1 DEF Init, Lifecycle!Init, Lifecycle!Phases
<1>2. ASSUME IInv, [Next]_vars PROVE [Lifecycle!Next]_stages
  <2>1. StoredOK /\ ObjectStep
    BY <1>2, NextStep DEF IInv
  <2>2. CASE \A r \in Rollbacks : Touched(obj[r], obj'[r])
    <3>1. \A r \in Rollbacks : Stage(obj'[r]) = Stage(obj[r])
      BY <2>1, <2>2, TouchedStage DEF StoredOK
    <3>2. stages' = stages
      BY <3>1
    <3> QED
      BY <3>2
  <2>3. ASSUME NEW q \in Rollbacks, NEW m \in Object, obj' = [obj EXCEPT ![q] = m],
               Stage(m) \in {Stage(obj[q])} \cup Lifecycle!Successors(Stage(obj[q]))
        PROVE  [Lifecycle!Next]_stages
    <3>1. \A r \in Rollbacks : obj'[r] = IF r = q THEN m ELSE obj[r]
      BY <2>1, <2>3 DEF StoredOK
    <3>2. stages' = [stages EXCEPT ![q] = Stage(m)]
      BY <3>1
    <3>3. CASE Stage(m) = Stage(obj[q])
      <4>1. stages' = stages
        BY <3>2, <3>3
      <4> QED
        BY <4>1
    <3>4. CASE Stage(m) \in Lifecycle!Successors(Stage(obj[q]))
      <4>1. stages[q] = Stage(obj[q])
        OBVIOUS
      <4>2. Stage(m) \in Lifecycle!Successors(stages[q])
        BY <3>4, <4>1
      <4>3. Lifecycle!Move(q)
        BY <3>2, <4>2 DEF Lifecycle!Move
      <4> QED
        BY <4>3 DEF Lifecycle!Next
    <3> QED
      BY <2>3, <3>3, <3>4
  <2> QED
    BY <2>1, <2>2, <2>3 DEF ObjectStep
<1> QED
  BY <1>1, <1>2, Invariance, PTL DEF Spec, FollowsLifecycle, Lifecycle!Spec
=============================================================================
