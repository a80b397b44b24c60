------------------------------- MODULE DryRun -------------------------------
(***************************************************************************)
(* Dry runs: an UpgradeRequest and a RollbackRequest with spec.dryRun of   *)
(* the same app (upgraderequest_controller.go and rollbackrequest_         *)
(* controller.go, handleDryRun and below).  A dry run validates, suspends  *)
(* the Kustomization, scales the workloads down and up, resumes, and       *)
(* reports.  Each request has a worker of its own; both change the same    *)
(* Kustomization and the same workloads.  A reconcile reads its object,    *)
(* validates and discovers the workloads anew, and takes one phase.        *)
(* Finalizers, deletion and the lag of the cache are in modules Upgrade    *)
(* and Rollback: here nobody else writes the object of a dry run.          *)
(***************************************************************************)
EXTENDS Cluster

CONSTANTS
  Kinds,       \* which dry runs there are
  TimeoutSuspend, TimeoutScaleDown, TimeoutScaleUp, TimeoutResume,
  MaxAge,      \* ages beyond it are not told apart: no timeout is longer
  MaxFaults    \* bound: failing API calls and crashes in a behaviour

ASSUME DryRunAssumption ==
  /\ Kinds \subseteq {"upgrade", "rollback"}
  /\ MaxAge \in Nat /\ MaxFaults \in Nat
  /\ {TimeoutSuspend, TimeoutScaleDown, TimeoutScaleUp, TimeoutResume}
       \subseteq 0..(MaxAge - 1)

VARIABLES
  valid,   \* what the validation and the preview in Git of each dry run read is in order
  obj,     \* each dry run's object in the API server
  pc,      \* where its worker is
  mem,     \* the worker's copy
  found,   \* the workloads this reconcile discovered
  faults   \* failing calls and crashes so far

workerVars == <<pc, mem, found>>
vars == <<clusterVars, valid, obj, workerVars, faults>>

-----------------------------------------------------------------------------
(* The object *)

NoTimer == -1   \* phaseStartedAt is nil

Object ==
  [suspended : BOOLEAN,                      \* Suspended=True
   stopped   : BOOLEAN,                      \* WorkloadStopped=True
   scaledUp  : BOOLEAN,                      \* SnapshotReady or VolumesRestored
   complete  : {"absent", "true", "false"},
   phaseAge  : NoTimer..MaxAge]

NewObject ==
  [suspended |-> FALSE, stopped |-> FALSE,
   scaledUp |-> FALSE, complete |-> "absent", phaseAge |-> NoTimer]

Terminal(o) == o.complete # "absent"

\* Mutant: every reconcile starts the timer anew.
restartPhase(o) == [o EXCEPT !.phaseAge = 0]

\* Mutant: a timer that runs is moved on by every reconcile.
advancePhase(o) == [o EXCEPT !.phaseAge = @ + 1]

setPhaseStartIfNeeded(o) ==
  IF o.phaseAge = NoTimer THEN [o EXCEPT !.phaseAge = 0] ELSE o

resetPhaseStart(o) == [o EXCEPT !.phaseAge = NoTimer]

isPhaseTimedOut(o, timeout) == o.phaseAge # NoTimer /\ o.phaseAge > timeout

Older(o) ==
  IF o.phaseAge # NoTimer /\ o.phaseAge < MaxAge
  THEN [o EXCEPT !.phaseAge = @ + 1] ELSE o

\* The phase of the cycle: stopping and starting are skipped when nothing is
\* discovered in this reconcile.
runDryRunQuiescence(o, W) ==
  IF ~o.suspended THEN "suspend"
  ELSE IF W # {} /\ ~o.stopped THEN "scaleDown"
  ELSE IF W # {} /\ ~o.scaledUp THEN "scaleUp"
  ELSE "resume"

TypeOK ==
  /\ ClusterTypeOK
  /\ valid \in [Kinds -> BOOLEAN] /\ obj \in [Kinds -> Object]
  /\ pc \in [Kinds -> {"idle", "phase", "suspended", "scaledDown", "scaledUp",
                       "resumed", "cleanup", "failing", "update"}]
  /\ mem \in [Kinds -> Object]
  /\ found \in [Kinds -> SUBSET Workloads]
  /\ faults \in 0..MaxFaults

Init ==
  /\ ClusterInit /\ valid = [k \in Kinds |-> TRUE]
  /\ obj = [k \in Kinds |-> NewObject]
  /\ pc = [k \in Kinds |-> "idle"]
  /\ mem = obj
  /\ found = [k \in Kinds |-> {}] /\ faults = 0

-----------------------------------------------------------------------------
(* The worker of dry run k *)

Failing == faults < MaxFaults /\ faults' = faults + 1

Goto(k, l, m) ==
  pc' = [pc EXCEPT ![k] = l] /\ mem' = [mem EXCEPT ![k] = m] /\ UNCHANGED found

Return(k) ==
  /\ pc' = [pc EXCEPT ![k] = "idle"] /\ found' = [found EXCEPT ![k] = {}]
  /\ mem' = [mem EXCEPT ![k] = NewObject]

WriteStatus(k, m) == Goto(k, "update", m)

setDryRunFailed(k, m) == Goto(k, IF m.suspended THEN "cleanup" ELSE "failing", m)

\* A failed attempt of a phase is tried again until the phase is timed out.
RetryOrFail(k, m, timeout) ==
  IF isPhaseTimedOut(m, timeout) THEN setDryRunFailed(k, m) ELSE WriteStatus(k, m)

\* What the preflight finds to scale.  The upgrade that a rollback is for has
\* recorded a snapshot of every claim.
Discovered(k) ==
  IF k = "rollback" THEN {w \in Running : Mounts[w] # {}}
  ELSE IF app.spec.snapshots THEN DiscoverWorkloads ELSE {}

\* Reconcile reads the object and hands a dry run that has not ended to
\* handleDryRun: validation and preflight, which fail at once, in every reconcile.
handleDryRun(k) ==
  LET ok == valid[k] /\ ValidateSuspendTarget
  IN  /\ pc[k] = "idle" /\ ~Terminal(obj[k])
      /\ mem' = [mem EXCEPT ![k] = obj[k]]
      /\ \/ /\ pc' = [pc EXCEPT ![k] = "failing"]
            /\ (~ok /\ UNCHANGED faults) \/ Failing
            /\ UNCHANGED found
         \/ /\ ok /\ pc' = [pc EXCEPT ![k] = "phase"]
            /\ found' = [found EXCEPT ![k] = Discovered(k)]
            /\ UNCHANGED faults
      /\ UNCHANGED <<clusterVars, valid, obj>>

In(k, phase) == pc[k] = "phase" /\ runDryRunQuiescence(mem[k], found[k]) = phase

dryRunSuspend(k) ==
  LET m == setPhaseStartIfNeeded(mem[k])
  IN  /\ In(k, "suspend")
      /\ \/ /\ RetryOrFail(k, m, TimeoutSuspend)
            /\ suspended' \in {suspended, TRUE} /\ Failing
         \/ /\ SuspendKustomization(\E j \in Kinds \ {k} : obj[j].suspended)
            /\ Goto(k, "suspended", m) /\ UNCHANGED faults
      /\ UNCHANGED <<ready, applied, workloadVars, snaps, git, app, valid, obj>>

\* The rest of dryRunSuspend: is it suspended?
checkSuspended(k) ==
  /\ pc[k] = "suspended"
  /\ \/ RetryOrFail(k, mem[k], TimeoutSuspend) /\ Failing
     \/ IsSuspended(FALSE) /\ RetryOrFail(k, mem[k], TimeoutSuspend) /\ UNCHANGED faults
     \/ /\ IsSuspended(TRUE)
        /\ WriteStatus(k, [resetPhaseStart(mem[k]) EXCEPT !.suspended = TRUE])
        /\ UNCHANGED faults
  /\ UNCHANGED <<clusterVars, valid, obj>>

\* The call that fails leaves the workloads before it scaled.
dryRunScaleDown(k) ==
  LET m == setPhaseStartIfNeeded(mem[k])
  IN  /\ In(k, "scaleDown")
      /\ \/ \E S \in SUBSET found[k] : ScaleDown(S) /\ setDryRunFailed(k, m) /\ Failing
         \/ ScaleDown(found[k]) /\ Goto(k, "scaledDown", m) /\ UNCHANGED faults
      /\ UNCHANGED <<fluxVars, pods, snaps, git, app, valid, obj>>

allWorkloadsScaledDown(k) == \A w \in found[k] : IsScaledDown(w)

\* The rest of dryRunScaleDown: are the pods gone?
checkScaledDown(k) ==
  LET down == allWorkloadsScaledDown(k)
  IN  /\ pc[k] = "scaledDown"
      /\ \/ setDryRunFailed(k, mem[k]) /\ Failing
         \/ ~down /\ RetryOrFail(k, mem[k], TimeoutScaleDown) /\ UNCHANGED faults
         \/ /\ down
            /\ WriteStatus(k, [resetPhaseStart(mem[k]) EXCEPT !.stopped = TRUE])
            /\ UNCHANGED faults
      /\ UNCHANGED <<clusterVars, valid, obj>>

dryRunScaleUp(k) ==
  LET m == setPhaseStartIfNeeded(mem[k])
  IN  /\ In(k, "scaleUp")
      /\ \/ setDryRunFailed(k, mem[k]) /\ Failing /\ UNCHANGED replicas
         \/ /\ VerifyStillSuspended(FALSE)
            /\ setDryRunFailed(k, mem[k]) /\ UNCHANGED <<replicas, faults>>
         \/ /\ VerifyStillSuspended(TRUE)
            /\ \/ \E S \in SUBSET found[k] : ScaleUp(S) /\ setDryRunFailed(k, m) /\ Failing
               \/ ScaleUp(found[k]) /\ Goto(k, "scaledUp", m) /\ UNCHANGED faults
      /\ UNCHANGED <<fluxVars, pods, snaps, git, app, valid, obj>>

\* The rest of dryRunScaleUp: one pod is enough, then the suspension again.
checkScaledUp(k) ==
  LET down == allWorkloadsScaledDown(k)
      m    == resetPhaseStart(mem[k])
  IN  /\ pc[k] = "scaledUp"
      /\ \/ setDryRunFailed(k, mem[k]) /\ Failing
         \/ down /\ RetryOrFail(k, mem[k], TimeoutScaleUp) /\ UNCHANGED faults
         \/ ~down /\ VerifyStillSuspended(FALSE) /\ setDryRunFailed(k, m) /\ UNCHANGED faults
         \/ /\ ~down /\ VerifyStillSuspended(TRUE)
            /\ WriteStatus(k, [m EXCEPT !.scaledUp = TRUE]) /\ UNCHANGED faults
      /\ UNCHANGED <<clusterVars, valid, obj>>

dryRunResumeAndComplete(k) ==
  LET m == setPhaseStartIfNeeded(mem[k])
  IN  /\ In(k, "resume")
      /\ \/ /\ RetryOrFail(k, m, TimeoutResume)
            /\ suspended' \in {suspended, FALSE} /\ Failing
         \/ ResumeKustomization /\ Goto(k, "resumed", m) /\ UNCHANGED faults
      /\ UNCHANGED <<ready, applied, workloadVars, snaps, git, app, valid, obj>>

\* The rest of dryRunResumeAndComplete: is it resumed?
checkResumed(k) ==
  /\ pc[k] = "resumed"
  /\ \/ RetryOrFail(k, mem[k], TimeoutResume) /\ Failing
     \/ IsSuspended(TRUE) /\ RetryOrFail(k, mem[k], TimeoutResume) /\ UNCHANGED faults
     \/ /\ IsSuspended(FALSE)
        /\ WriteStatus(k, [resetPhaseStart(mem[k]) EXCEPT !.complete = "true"])
        /\ UNCHANGED faults
  /\ UNCHANGED <<clusterVars, valid, obj>>

\* Mutant: the failure is reported without a resume.
skipCleanup(k) ==
  /\ pc[k] = "cleanup" /\ Goto(k, "failing", mem[k])
  /\ UNCHANGED <<clusterVars, valid, obj, faults>>

\* setDryRunFailed resumes what the dry run is recorded to have suspended; when
\* that fails, its message asks for a manual resume.
resumeForCleanup(k) ==
  /\ pc[k] = "cleanup"
  /\ Goto(k, "failing", mem[k])
  /\ \/ ResumeKustomization /\ UNCHANGED faults
     \/ suspended' \in {suspended, FALSE} /\ Failing
  /\ UNCHANGED <<ready, applied, workloadVars, snaps, git, app, valid, obj>>

\* That of an upgrade resumes, once more; that of a rollback does not.
setFailed(k) ==
  LET resumes == k = "upgrade" /\ mem[k].suspended
      m       == [mem[k] EXCEPT !.complete = "false"]
  IN  /\ pc[k] = "failing"
      /\ \/ ~resumes /\ WriteStatus(k, m) /\ UNCHANGED <<suspended, faults>>
         \/ /\ resumes
            /\ ResumeKustomization /\ WriteStatus(k, [m EXCEPT !.suspended = FALSE])
            /\ UNCHANGED faults
         \/ /\ resumes
            /\ suspended' \in {suspended, FALSE} /\ WriteStatus(k, m) /\ Failing
      /\ UNCHANGED <<ready, applied, workloadVars, snaps, git, app, valid, obj>>

\* The reconcile ends with its status update, which may be lost.
statusUpdate(k) ==
  /\ pc[k] = "update" /\ Return(k)
  /\ \/ obj' = [obj EXCEPT ![k] = mem[k]] /\ UNCHANGED faults
     \/ Failing /\ UNCHANGED obj
  /\ UNCHANGED <<clusterVars, valid>>

WorkerStep(k) ==
  \/ dryRunSuspend(k) \/ checkSuspended(k)
  \/ dryRunScaleDown(k) \/ checkScaledDown(k)
  \/ dryRunScaleUp(k) \/ checkScaledUp(k)
  \/ dryRunResumeAndComplete(k) \/ checkResumed(k)
  \/ resumeForCleanup(k) \/ setFailed(k)
  \/ statusUpdate(k)

-----------------------------------------------------------------------------
(* Crashes, the clock, and what others change *)

\* The manager restarts: both controllers start over.
Crash ==
  /\ \E k \in Kinds : pc[k] # "idle"
  /\ Failing
  /\ pc' = [k \in Kinds |-> "idle"] /\ found' = [k \in Kinds |-> {}]
  /\ mem' = [k \in Kinds |-> NewObject]
  /\ UNCHANGED <<clusterVars, valid, obj>>

Tick ==
  /\ obj' = [k \in Kinds |-> Older(obj[k])] /\ mem' = [k \in Kinds |-> Older(mem[k])]
  /\ UNCHANGED <<clusterVars, valid, pc, found, faults>>

\* The update is taken by another upgrade, or a snapshot is pruned.
Invalidate(k) ==
  /\ (IF k = "upgrade" THEN "publish" ELSE "prune") \in Disturbances
  /\ valid[k] /\ valid' = [valid EXCEPT ![k] = FALSE]
  /\ UNCHANGED <<clusterVars, obj, workerVars, faults>>

\* A dry run looks at neither the Ready condition nor the readiness of pods, and
\* it takes no snapshots: these do not change here.
EnvironmentNext ==
  \/ FluxApply(TRUE)
  \/ \E w \in Workloads : PodStart(w) \/ PodStop(w)
  \/ ExternalResume

Next ==
  \/ \E k \in Kinds : handleDryRun(k)
  \/ \E k \in Kinds : WorkerStep(k)
  \/ Crash
  \/ \E k \in Kinds : Invalidate(k)
  \/ Tick
  \/ EnvironmentNext /\ UNCHANGED <<valid, obj, workerVars, faults>>

Spec == Init /\ [][Next]_vars

\* The work queue brings every request up again, a reconcile goes on, time
\* passes; nothing of Flux or the kubelet.
FairSpec ==
  /\ Spec
  /\ \A k \in Kinds : SF_vars(handleDryRun(k)) /\ WF_vars(WorkerStep(k))
  /\ WF_vars(Tick)

-----------------------------------------------------------------------------
(* Properties *)

\* When the dry runs are over Flux is not left suspended, whichever of them
\* suspended or resumed last, unless one of them failed; and when no call failed,
\* only if a rollback's dry run was refused by its validation after it had
\* suspended (setDryRunFailed, and setFailed of either controller).
SuspensionExplained ==
  (\A k \in Kinds : Terminal(obj[k]) /\ pc[k] = "idle") /\ suspended =>
    \E k \in Kinds :
      /\ obj[k].complete = "false"
      /\ faults = 0 => k = "rollback" /\ obj[k].suspended /\ ~valid[k]

\* All dry runs end: each of their waits has a timer that is
\* persisted (isPhaseTimedOut), and nothing else is waited for.
EveryDryRunEnds == <>(\A k \in Kinds : Terminal(obj[k]))
=============================================================================
