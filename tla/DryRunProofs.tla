---------------------------- MODULE DryRunProofs ----------------------------
(***************************************************************************)
(* Proofs about module DryRun, for any workloads, claims, timeouts, bound  *)
(* on faults and disturbances, and for both dry runs at once: type         *)
(* correctness, and why Flux can be left suspended when they are over.     *)
(***************************************************************************)
EXTENDS DryRun, ClusterProofs

-----------------------------------------------------------------------------
(* Objects *)

\* Where a worker can be.
Labels == {"idle", "phase", "suspended", "scaledDown", "scaledUp", "resumed", "cleanup",
           "failing", "update"}

\* What the timer does not touch.
Alike(o, q) ==
  /\ q.suspended = o.suspended /\ q.stopped = o.stopped /\ q.scaledUp = o.scaledUp
  /\ q.complete = o.complete

\* A dry run that no reconcile has touched is an object.
LEMMA NewObjectType == NewObject \in Object
  BY DryRunAssumption DEF NewObject, Object, NoTimer

\* The timer is the only thing that starting, resetting and ageing changes.
LEMMA TimerType ==
  ASSUME NEW o \in Object
  PROVE  /\ setPhaseStartIfNeeded(o) \in Object /\ Alike(o, setPhaseStartIfNeeded(o))
         /\ resetPhaseStart(o) \in Object /\ Alike(o, resetPhaseStart(o))
         /\ Older(o) \in Object /\ Alike(o, Older(o))
<1>1. setPhaseStartIfNeeded(o) \in Object /\ resetPhaseStart(o) \in Object /\ Older(o) \in Object
  BY DryRunAssumption DEF Object, NoTimer, setPhaseStartIfNeeded, resetPhaseStart, Older
<1>2. Alike(o, setPhaseStartIfNeeded(o)) /\ Alike(o, resetPhaseStart(o)) /\ Alike(o, Older(o))
  BY DEF Alike, Object, setPhaseStartIfNeeded, resetPhaseStart, Older
<1> QED
  BY <1>1, <1>2

-----------------------------------------------------------------------------
(* The inductive invariant *)

\* The worker at label l with copy m of a dry run stored as o.
WorkerAt(l, m, o) ==
  /\ l # "idle" => ~Terminal(o)
  /\ l \notin {"idle", "update"} => ~Terminal(m)
  /\ l \in {"scaledDown", "scaledUp", "resumed", "cleanup"} => m.suspended
  /\ o.suspended \/ m.suspended \/ l \in {"phase", "suspended"} => ValidateSuspendTarget

\* A dry run ends with Flux resumed, as far as it has read.
Finished(m, o) == m.complete = "true" \/ o.complete = "true"

\* An object that stands for a suspension: of a dry run under way, or of a
\* rollback's that was refused after it had suspended.
Stands(k, o, v) ==
  /\ o.suspended
  /\ o.complete = "absent" \/ (o.complete = "false" /\ k = "rollback" /\ ~v)

\* Dry run k is to resume Flux, or is a rollback's that was refused.
Owns(k, l, m, o, v) ==
  \/ l = "suspended"
  \/ l \in {"phase", "scaledDown", "scaledUp", "resumed", "cleanup"} /\ m.suspended
  \/ l = "failing" /\ m.suspended /\ (k = "upgrade" \/ ~v)
  \/ l = "update" /\ Stands(k, m, v)
  \/ l = "idle" /\ Stands(k, o, v)

\* Both workers.
WorkersOK == \A k \in Kinds : WorkerAt(pc[k], mem[k], obj[k])

\* Flux is suspended, and the dry runs can see whether it is.
Held == KustomizationCurrent /\ suspended

\* As long as Flux is suspended some dry run has not seen it resumed; and when
\* no call has failed, some dry run answers for the suspension.
Answered ==
  /\ Held => \E k \in Kinds : ~Finished(mem[k], obj[k])
  /\ faults = 0 /\ Held => \E k \in Kinds : Owns(k, pc[k], mem[k], obj[k], valid[k])

\* The inductive invariant.
IInv == TypeOK /\ WorkersOK /\ Answered

USE DEF Held

\* A step of the worker of k from its label to label l, with copy m.
LEMMA MoveKeeps ==
  ASSUME IInv, NEW k \in Kinds, pc[k] # "idle", NEW l \in Labels, l # "idle",
         NEW m \in Object, Goto(k, l, m),
         UNCHANGED <<obj, valid, app>>, ClusterTypeOK', faults' \in faults..MaxFaults,
         WorkerAt(l, m, obj[k]),
         Held' => m.complete # "true",
         faults' = 0 /\ Held' => \/ Owns(k, l, m, obj[k], valid[k])
                                 \/ suspended /\ ~Owns(k, pc[k], mem[k], obj[k], valid[k])
  PROVE  IInv'
<1>1. /\ pc \in [Kinds -> Labels] /\ mem \in [Kinds -> Object] /\ faults \in 0..MaxFaults
      /\ MaxFaults \in Nat
  BY DryRunAssumption DEF IInv, TypeOK, Labels
<1>2. /\ pc' \in [Kinds -> Labels] /\ mem' \in [Kinds -> Object] /\ found' = found
      /\ \A j \in Kinds : /\ pc'[j] = IF j = k THEN l ELSE pc[j]
                          /\ mem'[j] = IF j = k THEN m ELSE mem[j]
  BY <1>1 DEF Goto
<1>3. TypeOK'
  BY <1>1, <1>2 DEF IInv, TypeOK, Labels
<1>4. ValidateSuspendTarget' <=> ValidateSuspendTarget
  BY DEF ValidateSuspendTarget
<1>5. WorkersOK'
  BY <1>2, <1>4 DEF IInv, WorkersOK, WorkerAt, Terminal
<1>6. Held' => \E j \in Kinds : ~Finished(mem'[j], obj'[j])
  <2>1. ~Terminal(obj[k])
    BY DEF IInv, WorkersOK, WorkerAt
  <2> QED
    BY <1>2, <2>1 DEF Finished, Terminal
<1>7. ASSUME faults' = 0, Held'
      PROVE  \E j \in Kinds : Owns(j, pc'[j], mem'[j], obj'[j], valid'[j])
  <2>1. CASE Owns(k, l, m, obj[k], valid[k])
    BY <1>2, <2>1
  <2>2. CASE suspended /\ ~Owns(k, pc[k], mem[k], obj[k], valid[k])
    <3>1. faults = 0
      BY <1>1, <1>7
    <3>2. PICK j \in Kinds : Owns(j, pc[j], mem[j], obj[j], valid[j])
      BY <1>7, <2>2, <3>1 DEF IInv, Answered
    <3>3. j # k
      BY <2>2, <3>2
    <3> QED
      BY <1>2, <3>2, <3>3
  <2> QED
    BY <1>7, <2>1, <2>2
<1> QED
  BY <1>3, <1>5, <1>6, <1>7 DEF IInv, Answered

-----------------------------------------------------------------------------
(* The steps of a worker *)

\* A call that fails is counted; a step without one leaves the count.
LEMMA FaultCount ==
  ASSUME IInv, Failing \/ UNCHANGED faults
  PROVE  faults' \in faults..MaxFaults /\ (Failing => faults' # 0)
  BY DryRunAssumption DEF IInv, TypeOK, Failing

\* What the worker of k knows.
LEMMA WorkerFacts ==
  ASSUME IInv, NEW k \in Kinds
  PROVE  /\ mem[k] \in Object /\ obj[k] \in Object /\ found[k] \in SUBSET Workloads
         /\ WorkerAt(pc[k], mem[k], obj[k]) /\ pc[k] \in Labels /\ ClusterTypeOK
  BY DEF IInv, TypeOK, WorkersOK, Labels

\* A phase that is tried again or given up: the dry run goes on to answer for
\* the suspension it has recorded.
LEMMA RetryKeeps ==
  ASSUME IInv, NEW k \in Kinds, pc[k] \notin {"idle", "update"}, NEW m \in Object,
         Alike(mem[k], m), NEW t, RetryOrFail(k, m, t) \/ setDryRunFailed(k, m),
         UNCHANGED <<obj, valid, app>>, ClusterTypeOK', Failing \/ UNCHANGED faults,
         faults' = 0 /\ Held' => \/ mem[k].suspended
                                 \/ suspended /\ ~Owns(k, pc[k], mem[k], obj[k], valid[k])
  PROVE  IInv'
<1>1. PICK l \in {"cleanup", "failing", "update"} :
        /\ Goto(k, l, m)
        /\ l = "cleanup" => m.suspended
        /\ l = "failing" => ~m.suspended
  BY DEF RetryOrFail, setDryRunFailed, WriteStatus
<1>2. /\ ~Terminal(m) /\ m.suspended = mem[k].suspended /\ ~Terminal(obj[k])
      /\ obj[k].suspended \/ mem[k].suspended => ValidateSuspendTarget
  BY WorkerFacts DEF WorkerAt, Alike, Terminal
<1>3. WorkerAt(l, m, obj[k])
  BY <1>1, <1>2 DEF WorkerAt
<1>4. m.suspended => Owns(k, l, m, obj[k], valid[k])
  BY <1>1, <1>2 DEF Owns, Stands, Terminal
<1>5. l \in Labels /\ l # "idle" /\ pc[k] # "idle" /\ m.complete # "true"
  BY <1>1, <1>2 DEF Labels, Terminal
<1> QED
  BY <1>1, <1>2, <1>3, <1>4, <1>5, FaultCount, MoveKeeps

\* Suspending.
LEMMA SuspendKeeps ==
  ASSUME IInv, NEW k \in Kinds, dryRunSuspend(k)
  PROVE  IInv'
<1> DEFINE m == setPhaseStartIfNeeded(mem[k])
<1>1. /\ pc[k] = "phase" /\ ~mem[k].suspended /\ UNCHANGED <<obj, valid, app>>
      /\ m \in Object /\ Alike(mem[k], m) /\ WorkerAt(pc[k], mem[k], obj[k]) /\ ClusterTypeOK
  BY WorkerFacts, TimerType DEF dryRunSuspend, In, runDryRunQuiescence
<1> HIDE DEF m
<1>2. suspended' \in BOOLEAN /\ ClusterTypeOK'
  BY <1>1 DEF dryRunSuspend, SuspendKustomization, ClusterTypeOK, workloadVars
<1>3. CASE RetryOrFail(k, m, TimeoutSuspend) /\ Failing
  BY <1>1, <1>2, <1>3, FaultCount, RetryKeeps
<1>4. CASE Goto(k, "suspended", m) /\ UNCHANGED faults
  <2>1. WorkerAt("suspended", m, obj[k]) /\ m.complete # "true"
    BY <1>1 DEF WorkerAt, Alike, Terminal
  <2>2. Owns(k, "suspended", m, obj[k], valid[k])
    BY DEF Owns
  <2>3. "suspended" \in Labels
    BY DEF Labels
  <2> QED
    BY <1>1, <1>2, <1>4, <2>1, <2>2, <2>3, FaultCount, MoveKeeps
<1> QED
  BY <1>3, <1>4 DEF dryRunSuspend, m

\* Nothing of the cluster changes.
LEMMA SameCluster ==
  ASSUME ClusterTypeOK, UNCHANGED clusterVars
  PROVE  ClusterTypeOK' /\ UNCHANGED <<app, suspended>>
  BY DEF ClusterTypeOK, clusterVars

\* The suspension is recorded, or tried again.
LEMMA SuspendedKeeps ==
  ASSUME IInv, NEW k \in Kinds, checkSuspended(k)
  PROVE  IInv'
<1> DEFINE t == resetPhaseStart(mem[k])
           m == [t EXCEPT !.suspended = TRUE]
<1>1. /\ pc[k] = "suspended" /\ UNCHANGED <<obj, valid, app, suspended>> /\ ClusterTypeOK'
      /\ mem[k] \in Object /\ Alike(mem[k], mem[k]) /\ WorkerAt(pc[k], mem[k], obj[k])
      /\ t \in Object /\ Alike(mem[k], t)
  BY WorkerFacts, TimerType, SameCluster DEF checkSuspended, Alike
<1> HIDE DEF t
<1>2. CASE /\ RetryOrFail(k, mem[k], TimeoutSuspend)
           /\ Failing \/ (IsSuspended(FALSE) /\ UNCHANGED faults)
  <2>1. Failing \/ (~Held' /\ UNCHANGED faults)
    BY <1>1, <1>2, WorkerFacts, CurrentFlag DEF ClusterTypeOK
  <2> QED
    BY <1>1, <1>2, <2>1, FaultCount, RetryKeeps
<1>3. CASE WriteStatus(k, m) /\ UNCHANGED faults
  <2>1. m \in Object /\ m.suspended /\ m.complete = t.complete
    BY <1>1 DEF Object
  <2> HIDE DEF m
  <2>2. WorkerAt("update", m, obj[k]) /\ m.complete = "absent"
    BY <1>1, <2>1 DEF WorkerAt, Alike, Terminal
  <2>3. Owns(k, "update", m, obj[k], valid[k])
    BY <2>1, <2>2 DEF Owns, Stands
  <2>4. "update" \in Labels
    BY DEF Labels
  <2> QED
    BY <1>1, <1>3, <2>1, <2>2, <2>3, <2>4, FaultCount, MoveKeeps DEF WriteStatus
<1> QED
  BY <1>2, <1>3 DEF checkSuspended, t, m

\* Scaling down and up, and resuming, are for dry runs that have recorded the
\* suspension.
LEMMA PhaseFacts ==
  ASSUME IInv, NEW k \in Kinds, NEW f \in {"scaleDown", "scaleUp", "resume"}, In(k, f)
  PROVE  LET m == setPhaseStartIfNeeded(mem[k])
         IN  /\ pc[k] = "phase" /\ mem[k].suspended /\ ~Terminal(mem[k])
             /\ m \in Object /\ Alike(mem[k], m) /\ m.suspended
             /\ \A l \in {"scaledDown", "scaledUp", "resumed"} :
                  /\ l \in Labels /\ l # "idle"
                  /\ WorkerAt(l, m, obj[k]) /\ Owns(k, l, m, obj[k], valid[k])
<1> DEFINE m == setPhaseStartIfNeeded(mem[k])
<1>1. pc[k] = "phase" /\ mem[k].suspended
  BY DEF In, runDryRunQuiescence
<1>2. m \in Object /\ Alike(mem[k], m) /\ WorkerAt(pc[k], mem[k], obj[k])
  BY WorkerFacts, TimerType
<1> HIDE DEF m
<1>3. m.suspended /\ ~Terminal(mem[k]) /\ ~Terminal(m)
  BY <1>1, <1>2 DEF Alike, WorkerAt, Terminal
<1>4. ASSUME NEW l \in {"scaledDown", "scaledUp", "resumed"}
      PROVE  l \in Labels /\ l # "idle" /\ WorkerAt(l, m, obj[k]) /\ Owns(k, l, m, obj[k], valid[k])
  BY <1>1, <1>2, <1>3 DEF WorkerAt, Owns, Labels
<1> QED
  BY <1>1, <1>2, <1>3, <1>4 DEF m

\* Scaling down.
LEMMA ScaleDownKeeps ==
  ASSUME IInv, NEW k \in Kinds, dryRunScaleDown(k)
  PROVE  IInv'
<1> DEFINE m == setPhaseStartIfNeeded(mem[k])
<1>1. /\ pc[k] = "phase" /\ mem[k].suspended /\ m \in Object /\ Alike(mem[k], m)
      /\ "scaledDown" \in Labels /\ WorkerAt("scaledDown", m, obj[k])
      /\ Owns(k, "scaledDown", m, obj[k], valid[k]) /\ ~Terminal(mem[k])
  BY PhaseFacts DEF dryRunScaleDown
<1>2. ClusterTypeOK' /\ UNCHANGED <<obj, valid, app, suspended>>
  BY WorkerFacts DEF dryRunScaleDown, ScaleDown, ClusterTypeOK, fluxVars
<1> HIDE DEF m
<1>3. CASE setDryRunFailed(k, m) /\ Failing
  BY <1>1, <1>2, <1>3, RetryKeeps
<1>4. CASE Goto(k, "scaledDown", m) /\ UNCHANGED faults
  <2>1. m.complete # "true"
    BY <1>1 DEF Alike, Terminal
  <2> QED
    BY <1>1, <1>2, <1>4, <2>1, FaultCount, MoveKeeps
<1> QED
  BY <1>3, <1>4 DEF dryRunScaleDown, m

\* A phase that is done, recorded in a copy that still answers for the
\* suspension.
LEMMA RecordKeeps ==
  ASSUME IInv, NEW k \in Kinds, pc[k] \notin {"idle", "update"}, mem[k].suspended,
         NEW m \in Object, m.suspended, m.complete = mem[k].complete, WriteStatus(k, m),
         UNCHANGED <<obj, valid, app, suspended, faults>>, ClusterTypeOK'
  PROVE  IInv'
<1>1. ~Terminal(m) /\ WorkerAt(pc[k], mem[k], obj[k]) /\ "update" \in Labels
  BY WorkerFacts DEF WorkerAt, Terminal, Labels
<1>2. WorkerAt("update", m, obj[k]) /\ m.complete = "absent"
  BY <1>1 DEF WorkerAt, Terminal
<1>3. Owns(k, "update", m, obj[k], valid[k])
  BY <1>2 DEF Owns, Stands
<1> QED
  BY <1>1, <1>2, <1>3, FaultCount, MoveKeeps DEF WriteStatus

\* The pods are gone, or awaited.
LEMMA ScaledDownKeeps ==
  ASSUME IInv, NEW k \in Kinds, checkScaledDown(k)
  PROVE  IInv'
<1> DEFINE t == resetPhaseStart(mem[k])
           m == [t EXCEPT !.stopped = TRUE]
<1>1. /\ pc[k] = "scaledDown" /\ UNCHANGED <<obj, valid, app, suspended>> /\ ClusterTypeOK'
      /\ mem[k] \in Object /\ Alike(mem[k], mem[k]) /\ mem[k].suspended
      /\ t \in Object /\ Alike(mem[k], t)
  BY WorkerFacts, TimerType, SameCluster DEF checkScaledDown, Alike, WorkerAt
<1> HIDE DEF t
<1>2. CASE /\ RetryOrFail(k, mem[k], TimeoutScaleDown) \/ setDryRunFailed(k, mem[k])
           /\ Failing \/ UNCHANGED faults
  BY <1>1, <1>2, RetryKeeps
<1>3. CASE WriteStatus(k, m) /\ UNCHANGED faults
  <2>1. m \in Object /\ m.suspended /\ m.complete = mem[k].complete
    BY <1>1 DEF Object, Alike
  <2> HIDE DEF m
  <2> QED
    BY <1>1, <1>3, <2>1, RecordKeeps
<1> QED
  BY <1>2, <1>3 DEF checkScaledDown, t, m

\* Scaling up.
LEMMA ScaleUpKeeps ==
  ASSUME IInv, NEW k \in Kinds, dryRunScaleUp(k)
  PROVE  IInv'
<1> DEFINE m == setPhaseStartIfNeeded(mem[k])
<1>1. /\ pc[k] = "phase" /\ mem[k].suspended /\ m \in Object /\ Alike(mem[k], m)
      /\ "scaledUp" \in Labels /\ WorkerAt("scaledUp", m, obj[k])
      /\ Owns(k, "scaledUp", m, obj[k], valid[k]) /\ ~Terminal(mem[k])
  BY PhaseFacts DEF dryRunScaleUp
<1>2. ClusterTypeOK' /\ UNCHANGED <<obj, valid, app, suspended>>
  BY WorkerFacts DEF dryRunScaleUp, ScaleUp, ClusterTypeOK, fluxVars
<1> HIDE DEF m
<1>3. CASE setDryRunFailed(k, m) /\ Failing
  BY <1>1, <1>2, <1>3, RetryKeeps
<1>4. CASE setDryRunFailed(k, mem[k]) /\ (Failing \/ UNCHANGED faults)
  <2>1. mem[k] \in Object /\ Alike(mem[k], mem[k])
    BY WorkerFacts DEF Alike
  <2> QED
    BY <1>1, <1>2, <1>4, <2>1, RetryKeeps
<1>5. CASE Goto(k, "scaledUp", m) /\ UNCHANGED faults
  <2>1. m.complete # "true"
    BY <1>1 DEF Alike, Terminal
  <2> QED
    BY <1>1, <1>2, <1>5, <2>1, FaultCount, MoveKeeps
<1> QED
  BY <1>3, <1>4, <1>5 DEF dryRunScaleUp, m

\* A pod is there, or awaited.
LEMMA ScaledUpKeeps ==
  ASSUME IInv, NEW k \in Kinds, checkScaledUp(k)
  PROVE  IInv'
<1> DEFINE t == resetPhaseStart(mem[k])
           m == [t EXCEPT !.scaledUp = TRUE]
<1>1. /\ pc[k] = "scaledUp" /\ UNCHANGED <<obj, valid, app, suspended>> /\ ClusterTypeOK'
      /\ mem[k] \in Object /\ Alike(mem[k], mem[k]) /\ mem[k].suspended
      /\ t \in Object /\ Alike(mem[k], t)
  BY WorkerFacts, TimerType, SameCluster DEF checkScaledUp, Alike, WorkerAt
<1> HIDE DEF t
<1>2. CASE /\ RetryOrFail(k, mem[k], TimeoutScaleUp) \/ setDryRunFailed(k, mem[k])
           /\ Failing \/ UNCHANGED faults
  BY <1>1, <1>2, RetryKeeps
<1>3. CASE setDryRunFailed(k, t) /\ UNCHANGED faults
  BY <1>1, <1>3, RetryKeeps
<1>4. CASE WriteStatus(k, m) /\ UNCHANGED faults
  <2>1. m \in Object /\ m.suspended /\ m.complete = mem[k].complete
    BY <1>1 DEF Object, Alike
  <2> HIDE DEF m
  <2> QED
    BY <1>1, <1>4, <2>1, RecordKeeps
<1> QED
  BY <1>2, <1>3, <1>4 DEF checkScaledUp, t, m

\* Resuming: nobody need answer for a suspension that has ended.
LEMMA ResumeKeeps ==
  ASSUME IInv, NEW k \in Kinds, dryRunResumeAndComplete(k)
  PROVE  IInv'
<1> DEFINE m == setPhaseStartIfNeeded(mem[k])
<1>1. /\ pc[k] = "phase" /\ mem[k].suspended /\ m \in Object /\ Alike(mem[k], m)
      /\ "resumed" \in Labels /\ WorkerAt("resumed", m, obj[k])
      /\ Owns(k, "resumed", m, obj[k], valid[k]) /\ ~Terminal(mem[k])
  BY PhaseFacts DEF dryRunResumeAndComplete
<1>2. ClusterTypeOK' /\ UNCHANGED <<obj, valid, app>>
  BY WorkerFacts, ResumeFlag
     DEF dryRunResumeAndComplete, ResumeKustomization, ClusterTypeOK, workloadVars
<1> HIDE DEF m
<1>3. CASE RetryOrFail(k, m, TimeoutResume) /\ Failing
  BY <1>1, <1>2, <1>3, RetryKeeps
<1>4. CASE Goto(k, "resumed", m) /\ UNCHANGED faults
  <2>1. m.complete # "true"
    BY <1>1 DEF Alike, Terminal
  <2> QED
    BY <1>1, <1>2, <1>4, <2>1, FaultCount, MoveKeeps
<1> QED
  BY <1>3, <1>4 DEF dryRunResumeAndComplete, m

\* A dry run that completes has seen Flux resumed.
LEMMA ResumedKeeps ==
  ASSUME IInv, NEW k \in Kinds, checkResumed(k)
  PROVE  IInv'
<1> DEFINE t == resetPhaseStart(mem[k])
           m == [t EXCEPT !.complete = "true"]
<1>1. /\ pc[k] = "resumed" /\ UNCHANGED <<obj, valid, app, suspended>> /\ ClusterTypeOK'
      /\ mem[k] \in Object /\ Alike(mem[k], mem[k]) /\ mem[k].suspended
      /\ t \in Object /\ Alike(mem[k], t) /\ WorkerAt(pc[k], mem[k], obj[k])
  BY WorkerFacts, TimerType, SameCluster DEF checkResumed, Alike, WorkerAt
<1> HIDE DEF t
<1>2. CASE RetryOrFail(k, mem[k], TimeoutResume) /\ (Failing \/ UNCHANGED faults)
  BY <1>1, <1>2, RetryKeeps
<1>3. CASE IsSuspended(FALSE) /\ WriteStatus(k, m) /\ UNCHANGED faults
  <2>1. m \in Object /\ m.suspended
    BY <1>1 DEF Object, Alike
  <2> HIDE DEF m
  <2>2. WorkerAt("update", m, obj[k]) /\ "update" \in Labels
    BY <1>1, <2>1 DEF WorkerAt, Labels
  <2>3. ~Held'
    BY <1>1, <1>3, WorkerFacts, CurrentFlag DEF ClusterTypeOK
  <2> QED
    BY <1>1, <1>3, <2>1, <2>2, <2>3, FaultCount, MoveKeeps DEF WriteStatus
<1> QED
  BY <1>2, <1>3 DEF checkResumed, t, m

\* The failure of a dry run that has recorded its suspension resumes Flux.
LEMMA CleanupKeeps ==
  ASSUME IInv, NEW k \in Kinds, resumeForCleanup(k)
  PROVE  IInv'
<1>1. /\ pc[k] = "cleanup" /\ UNCHANGED <<obj, valid, app>>
      /\ mem[k] \in Object /\ WorkerAt(pc[k], mem[k], obj[k]) /\ ClusterTypeOK
      /\ Goto(k, "failing", mem[k])
  BY WorkerFacts DEF resumeForCleanup
<1>2. ClusterTypeOK' /\ (Failing \/ (~Held' /\ UNCHANGED faults))
  BY <1>1, ResumeFlag DEF resumeForCleanup, ResumeKustomization, ClusterTypeOK, workloadVars
<1>3. WorkerAt("failing", mem[k], obj[k]) /\ mem[k].complete # "true" /\ "failing" \in Labels
  BY <1>1 DEF WorkerAt, Terminal, Labels
<1> QED
  BY <1>1, <1>2, <1>3, FaultCount, MoveKeeps

\* setFailed of an upgrade resumes what is recorded as suspended; that of a
\* rollback leaves it, which only a refusal has not resumed before.
LEMMA FailedKeeps ==
  ASSUME IInv, NEW k \in Kinds, setFailed(k)
  PROVE  IInv'
<1> DEFINE m == [mem[k] EXCEPT !.complete = "false"]
           n == [m EXCEPT !.suspended = FALSE]
           resumes == k = "upgrade" /\ mem[k].suspended
<1>1. /\ pc[k] = "failing" /\ UNCHANGED <<obj, valid, app>>
      /\ mem[k] \in Object /\ WorkerAt(pc[k], mem[k], obj[k]) /\ ClusterTypeOK
  BY WorkerFacts DEF setFailed
<1>2. /\ m \in Object /\ m.suspended = mem[k].suspended /\ m.complete = "false"
      /\ n \in Object /\ ~n.suspended /\ n.complete = "false"
  BY <1>1 DEF Object
<1>3. \/ ~resumes /\ WriteStatus(k, m) /\ UNCHANGED <<suspended, faults>>
      \/ ~Held' /\ WriteStatus(k, n) /\ UNCHANGED faults
      \/ WriteStatus(k, m) /\ Failing
  BY <1>1, ResumeFlag DEF setFailed, ResumeKustomization, ClusterTypeOK
<1> HIDE DEF m, n
<1>4. ClusterTypeOK'
  BY <1>1, ResumeFlag DEF setFailed, ResumeKustomization, ClusterTypeOK, workloadVars
<1>5. /\ WorkerAt("update", m, obj[k]) /\ WorkerAt("update", n, obj[k]) /\ "update" \in Labels
      /\ m.complete # "true" /\ n.complete # "true"
  BY <1>1, <1>2 DEF WorkerAt, Labels
<1>6. ASSUME ~resumes
      PROVE  \/ Owns(k, "update", m, obj[k], valid[k])
             \/ ~Owns(k, pc[k], mem[k], obj[k], valid[k])
  BY <1>1, <1>2, <1>6, DryRunAssumption DEF Owns, Stands
<1>7. CASE ~resumes /\ WriteStatus(k, m) /\ UNCHANGED <<suspended, faults>>
  BY <1>1, <1>2, <1>4, <1>5, <1>6, <1>7, FaultCount, MoveKeeps DEF WriteStatus
<1>8. CASE ~Held' /\ WriteStatus(k, n) /\ UNCHANGED faults
  BY <1>1, <1>2, <1>4, <1>5, <1>8, FaultCount, MoveKeeps DEF WriteStatus
<1>9. CASE WriteStatus(k, m) /\ Failing
  BY <1>1, <1>2, <1>4, <1>5, <1>9, FaultCount, MoveKeeps DEF WriteStatus
<1> QED
  BY <1>3, <1>7, <1>8, <1>9

\* The status update stores what the worker answers for.
LEMMA UpdateKeeps ==
  ASSUME IInv, NEW k \in Kinds, statusUpdate(k)
  PROVE  IInv'
<1>1. /\ pc[k] = "update" /\ UNCHANGED <<valid, app, suspended>> /\ ClusterTypeOK'
      /\ mem[k] \in Object /\ obj[k] \in Object /\ WorkerAt(pc[k], mem[k], obj[k])
      /\ NewObject \in Object
  BY WorkerFacts, SameCluster, NewObjectType DEF statusUpdate
<1>2. /\ pc \in [Kinds -> Labels] /\ mem \in [Kinds -> Object] /\ obj \in [Kinds -> Object]
      /\ found \in [Kinds -> SUBSET Workloads] /\ valid \in [Kinds -> BOOLEAN]
      /\ faults \in 0..MaxFaults /\ MaxFaults \in Nat
  BY DryRunAssumption DEF IInv, TypeOK, Labels
<1>3. /\ pc' \in [Kinds -> Labels] /\ mem' \in [Kinds -> Object]
      /\ found' \in [Kinds -> SUBSET Workloads] /\ obj' \in [Kinds -> Object]
      /\ \A j \in Kinds : /\ pc'[j] = IF j = k THEN "idle" ELSE pc[j]
                          /\ mem'[j] = IF j = k THEN NewObject ELSE mem[j]
                          /\ j # k => obj'[j] = obj[j]
      /\ \/ obj'[k] = mem[k] /\ UNCHANGED faults
         \/ obj'[k] = obj[k] /\ Failing
  BY <1>1, <1>2 DEF statusUpdate, Return, Labels
<1>4. faults' \in faults..MaxFaults /\ (Failing => faults' # 0)
  BY <1>3, FaultCount
<1>5. TypeOK'
  BY <1>1, <1>2, <1>3, <1>4 DEF TypeOK, Labels
<1>6. ValidateSuspendTarget' <=> ValidateSuspendTarget
  BY <1>1 DEF ValidateSuspendTarget
<1>7. WorkersOK'
  <2>1. WorkerAt("idle", NewObject, obj'[k])
    BY <1>1, <1>3 DEF WorkerAt, NewObject
  <2>2. \A j \in Kinds : WorkerAt(pc'[j], mem'[j], obj'[j])
    BY <1>3, <2>1 DEF IInv, WorkersOK
  <2> QED
    BY <1>6, <2>2 DEF WorkersOK, WorkerAt
<1>8. Held' => \E j \in Kinds : ~Finished(mem'[j], obj'[j])
  <2>1. \A j \in Kinds : ~Finished(mem[j], obj[j]) => ~Finished(mem'[j], obj'[j])
    BY <1>3 DEF Finished, NewObject
  <2> QED
    BY <1>1, <2>1 DEF IInv, Answered
<1>9. ASSUME faults' = 0, Held'
      PROVE  \E j \in Kinds : Owns(j, pc'[j], mem'[j], obj'[j], valid'[j])
  <2>1. faults = 0 /\ obj'[k] = mem[k]
    BY <1>2, <1>3, <1>4, <1>9
  <2>2. PICK j \in Kinds : Owns(j, pc[j], mem[j], obj[j], valid[j])
    BY <1>1, <1>9, <2>1 DEF IInv, Answered
  <2>3. CASE j = k
    BY <1>1, <1>3, <2>1, <2>2, <2>3 DEF Owns
  <2>4. CASE j # k
    BY <1>1, <1>3, <2>2, <2>4
  <2> QED
    BY <2>3, <2>4
<1> QED
  BY <1>5, <1>7, <1>8, <1>9 DEF IInv, Answered

-----------------------------------------------------------------------------
(* The other steps *)

\* A reconcile takes up what is stored: a refusal after the suspension is one by
\* the validation, because the suspend target was accepted before.
LEMMA HandleKeeps ==
  ASSUME IInv, NEW k \in Kinds, handleDryRun(k)
  PROVE  IInv'
<1>1. /\ pc[k] = "idle" /\ ~Terminal(obj[k]) /\ UNCHANGED <<obj, valid, app, suspended>>
      /\ ClusterTypeOK' /\ obj[k] \in Object /\ WorkerAt(pc[k], mem[k], obj[k])
  BY WorkerFacts, SameCluster DEF handleDryRun
<1>2. /\ pc \in [Kinds -> Labels] /\ mem \in [Kinds -> Object] /\ obj \in [Kinds -> Object]
      /\ found \in [Kinds -> SUBSET Workloads] /\ valid \in [Kinds -> BOOLEAN]
      /\ faults \in 0..MaxFaults /\ MaxFaults \in Nat
  BY DryRunAssumption DEF IInv, TypeOK, Labels
<1>3. Discovered(k) \in SUBSET Workloads
  BY DEF Discovered, DiscoverWorkloads, Running
<1>4. PICK l \in {"failing", "phase"} :
        /\ pc' = [pc EXCEPT ![k] = l]
        /\ l = "phase" => ValidateSuspendTarget
        /\ l = "failing" => Failing \/ ~valid[k] \/ ~ValidateSuspendTarget
  BY DEF handleDryRun
<1>5. /\ pc' \in [Kinds -> Labels] /\ mem' \in [Kinds -> Object]
      /\ \A j \in Kinds : /\ pc'[j] = IF j = k THEN l ELSE pc[j]
                          /\ mem'[j] = IF j = k THEN obj[k] ELSE mem[j]
  BY <1>1, <1>2, <1>4 DEF handleDryRun, Labels
<1>6. found' \in [Kinds -> SUBSET Workloads]
  BY <1>2, <1>3 DEF handleDryRun
<1>7. faults' \in faults..MaxFaults /\ (Failing => faults' # 0)
  BY FaultCount DEF handleDryRun
<1>8. TypeOK'
  BY <1>1, <1>2, <1>5, <1>6, <1>7 DEF TypeOK, Labels
<1>9. ValidateSuspendTarget' <=> ValidateSuspendTarget
  BY <1>1 DEF ValidateSuspendTarget
<1>10. WorkersOK'
  <2>1. WorkerAt(l, obj[k], obj[k])
    BY <1>1, <1>4 DEF WorkerAt
  <2>2. \A j \in Kinds : WorkerAt(pc'[j], mem'[j], obj[j])
    BY <1>5, <2>1 DEF IInv, WorkersOK
  <2> QED
    BY <1>1, <1>9, <2>2 DEF WorkersOK, WorkerAt
<1>11. Held' => \E j \in Kinds : ~Finished(mem'[j], obj'[j])
  BY <1>1, <1>5 DEF Finished, Terminal
<1>12. ASSUME faults' = 0, Held'
       PROVE  \E j \in Kinds : Owns(j, pc'[j], mem'[j], obj'[j], valid'[j])
  <2>1. faults = 0
    BY <1>2, <1>7, <1>12
  <2>2. PICK j \in Kinds : Owns(j, pc[j], mem[j], obj[j], valid[j])
    BY <1>1, <1>12, <2>1 DEF IInv, Answered
  <2>3. CASE j = k
    <3>1. obj[k].suspended /\ ValidateSuspendTarget
      BY <1>1, <2>2, <2>3 DEF Owns, Stands, WorkerAt
    <3>2. l = "failing" => ~valid[k]
      BY <1>4, <1>7, <1>12, <3>1
    <3> QED
      BY <1>1, <1>4, <1>5, <3>1, <3>2 DEF Owns
  <2>4. CASE j # k
    BY <1>1, <1>5, <2>2, <2>4
  <2> QED
    BY <2>3, <2>4
<1> QED
  BY <1>8, <1>10, <1>11, <1>12 DEF IInv, Answered

\* The manager restarts.
LEMMA CrashKeeps ==
  ASSUME IInv, Crash
  PROVE  IInv'
<1>1. /\ UNCHANGED <<obj, valid, app, suspended>> /\ ClusterTypeOK' /\ NewObject \in Object
  BY SameCluster, NewObjectType DEF Crash, IInv, TypeOK
<1>2. faults' \in 0..MaxFaults /\ faults' # 0
  BY DryRunAssumption DEF Crash, Failing, IInv, TypeOK
<1>3. TypeOK'
  BY <1>1, <1>2 DEF Crash, IInv, TypeOK
<1>4. WorkersOK'
  BY <1>1 DEF Crash, IInv, WorkersOK, WorkerAt, NewObject, ValidateSuspendTarget
<1>5. \A k \in Kinds : ~Finished(mem[k], obj[k]) => ~Finished(mem'[k], obj'[k])
  BY <1>1 DEF Crash, Finished, NewObject
<1> QED
  BY <1>1, <1>2, <1>3, <1>4, <1>5 DEF IInv, Answered

\* Time passes, and changes no condition.
LEMMA TickKeeps ==
  ASSUME IInv, Tick
  PROVE  IInv'
<1>1. /\ UNCHANGED <<valid, app, suspended, pc, found, faults>> /\ ClusterTypeOK'
  BY SameCluster DEF Tick, IInv, TypeOK
<1>2. \A k \in Kinds : /\ obj'[k] \in Object /\ mem'[k] \in Object
                       /\ Alike(obj[k], obj'[k]) /\ Alike(mem[k], mem'[k])
  BY WorkerFacts, TimerType DEF Tick
<1>3. TypeOK'
  BY <1>1, <1>2 DEF Tick, IInv, TypeOK
<1>4. WorkersOK'
  BY <1>1, <1>2 DEF IInv, WorkersOK, WorkerAt, Alike, Terminal, ValidateSuspendTarget
<1>5. \A k \in Kinds : Finished(mem'[k], obj'[k]) <=> Finished(mem[k], obj[k])
  BY <1>2 DEF Finished, Alike
<1>6. \A k \in Kinds : Owns(k, pc[k], mem[k], obj[k], valid[k])
                         => Owns(k, pc'[k], mem'[k], obj'[k], valid'[k])
  BY <1>1, <1>2 DEF Owns, Stands, Alike
<1> QED
  BY <1>1, <1>3, <1>4, <1>5, <1>6 DEF IInv, Answered

\* What validates a dry run is withdrawn.
LEMMA InvalidateKeeps ==
  ASSUME IInv, NEW k \in Kinds, Invalidate(k)
  PROVE  IInv'
<1>1. UNCHANGED <<obj, app, suspended, pc, mem, found, faults>> /\ ClusterTypeOK'
  BY SameCluster DEF Invalidate, IInv, TypeOK, workerVars
<1>2. valid' \in [Kinds -> BOOLEAN] /\ \A j \in Kinds : ~valid[j] => ~valid'[j]
  BY DEF Invalidate, IInv, TypeOK
<1>3. TypeOK'
  BY <1>1, <1>2 DEF IInv, TypeOK
<1>4. WorkersOK'
  BY <1>1 DEF IInv, WorkersOK, WorkerAt, ValidateSuspendTarget
<1>5. \A j \in Kinds : Owns(j, pc[j], mem[j], obj[j], valid[j])
                         => Owns(j, pc'[j], mem'[j], obj'[j], valid'[j])
  BY <1>1, <1>2 DEF Owns, Stands
<1> QED
  BY <1>1, <1>3, <1>4, <1>5 DEF IInv, Answered

\* No other actor suspends Flux.
LEMMA EnvironmentKeeps ==
  ASSUME IInv, EnvironmentNext, UNCHANGED <<valid, obj, workerVars, faults>>
  PROVE  IInv'
<1>1. ClusterTypeOK'
  BY ClusterStepType DEF EnvironmentNext, ClusterNext, IInv, TypeOK
<1>2. UNCHANGED app /\ (suspended' => suspended)
  BY DEF EnvironmentNext, FluxApply, PodStart, PodStop, ExternalResume, fluxVars
<1>3. TypeOK'
  BY <1>1 DEF IInv, TypeOK, workerVars
<1>4. WorkersOK'
  BY <1>2 DEF IInv, WorkersOK, WorkerAt, ValidateSuspendTarget, workerVars
<1> QED
  BY <1>2, <1>3, <1>4 DEF IInv, Answered, workerVars

\* Every step preserves the invariant.
LEMMA NextKeeps ==
  ASSUME IInv, [Next]_vars
  PROVE  IInv'
<1>1. CASE UNCHANGED vars
  BY <1>1 DEF vars, workerVars, clusterVars, IInv, TypeOK, ClusterTypeOK, WorkersOK, WorkerAt,
              ValidateSuspendTarget, Answered
<1>2. ASSUME NEW k \in Kinds, WorkerStep(k) PROVE IInv'
  BY <1>2, SuspendKeeps, SuspendedKeeps, ScaleDownKeeps, ScaledDownKeeps, ScaleUpKeeps,
     ScaledUpKeeps, ResumeKeeps, ResumedKeeps, CleanupKeeps, FailedKeeps, UpdateKeeps
     DEF WorkerStep
<1> QED
  BY <1>1, <1>2, HandleKeeps, CrashKeeps, InvalidateKeeps, TickKeeps, EnvironmentKeeps DEF Next

\* Before the first reconcile.
LEMMA InitKeeps ==
  ASSUME Init
  PROVE  IInv
<1>1. ClusterTypeOK /\ suspended = FALSE
  <2>1. <<>> \in Seq(Snapshot)
    OBVIOUS
  <2>2. snaps \in [PVCs -> Seq(Snapshot)]
    BY <2>1 DEF Init, ClusterInit
  <2>3. app \in [spec : AppSpecs, current : Versions \cup {NoVersion},
                 available : Versions \cup {NoVersion}]
    BY ClusterAssumption DEF Init, ClusterInit
  <2> QED
    BY <2>2, <2>3, ClusterAssumption DEF Init, ClusterInit, ClusterTypeOK, PodStates
<1>2. TypeOK
  BY <1>1, NewObjectType, DryRunAssumption DEF Init, TypeOK
<1>3. WorkersOK
  BY DEF Init, WorkersOK, WorkerAt, NewObject
<1> QED
  BY <1>1, <1>2, <1>3 DEF IInv, Answered

\* The invariant holds in every behaviour.
LEMMA Invariance == Spec => []IInv
<1>1. Init => IInv
  BY InitKeeps
<1>2. IInv /\ [Next]_vars => IInv'
  BY NextKeeps
<1> QED
  BY <1>1, <1>2, PTL DEF Spec

-----------------------------------------------------------------------------
(* The theorems *)

\* Every variable keeps its type, whichever of the two dry runs moves.
THEOREM TypeCorrect == Spec => []TypeOK
<1>1. IInv => TypeOK
  BY DEF IInv
<1> QED
  BY <1>1, Invariance, PTL

\* Two dry runs of one app that suspend, scale and resume in any order leave
\* Flux suspended only when one of them failed, and, when no call failed, only
\* when a rollback's was refused by its validation after it had suspended
\* (setDryRunFailed, and setFailed of either controller); as long as what they
\* read of the Kustomization is current.
THEOREM SuspensionsExplained ==
  ASSUME KustomizationCurrent
  PROVE  Spec => []SuspensionExplained
<1>1. ASSUME IInv PROVE SuspensionExplained
  <2> SUFFICES ASSUME \A k \in Kinds : Terminal(obj[k]) /\ pc[k] = "idle", suspended
               PROVE  \E k \in Kinds :
                        /\ obj[k].complete = "false"
                        /\ faults = 0 => k = "rollback" /\ obj[k].suspended /\ ~valid[k]
    BY DEF SuspensionExplained
  <2>1. CASE faults = 0
    <3>1. PICK k \in Kinds : Owns(k, pc[k], mem[k], obj[k], valid[k])
      BY <1>1, <2>1 DEF IInv, Answered
    <3>2. Stands(k, obj[k], valid[k]) /\ Terminal(obj[k])
      BY <3>1 DEF Owns
    <3> QED
      BY <3>2 DEF Stands, Terminal
  <2>2. CASE faults # 0
    <3>1. PICK k \in Kinds : ~Finished(mem[k], obj[k])
      BY <1>1 DEF IInv, Answered
    <3>2. obj[k] \in Object /\ Terminal(obj[k])
      BY <1>1, WorkerFacts
    <3>3. obj[k].complete = "false"
      BY <3>1, <3>2 DEF Finished, Terminal, Object
    <3> QED
      BY <2>2, <3>3
  <2> QED
    BY <2>1, <2>2
<1> QED
  BY <1>1, Invariance, PTL
=============================================================================
