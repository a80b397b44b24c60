---------------------------- MODULE AutoRollback ----------------------------
(***************************************************************************)
(* The two controllers together: an upgrade that fails after its commit    *)
(* creates RollbackRequests, and the rollback controller, a worker of its  *)
(* own in the same manager, undoes the upgrade over the same cluster.  It  *)
(* reads the UpgradeRequest from the cache the controllers share.          *)
(***************************************************************************)
EXTENDS Upgrade

CONSTANTS Position, TimeoutVolumeRestore   \* as in module Rollback

VARIABLES
  claims,                                    \* the volume claims
  robj, rcache, rlagged,                     \* the RollbackRequests, and the cache
  rpc, rcur, rbase, rmem, rthen              \* the rollback controller's worker

rollbackVars == <<robj, rcache, rlagged, rpc, rcur, rbase, rmem, rthen>>
allVars == <<vars, claims, rollbackVars>>

\* createAutoRollback names its requests after the upgrade and the time.
Rollbacks == Requests \X (1..MaxRollbacks)

\* The claims are listed in some order, and no timeout is beyond MaxAge.
ASSUME AutoRollbackAssumption ==
  /\ None \notin Rollbacks
  /\ Position \in [PVCs -> Nat] /\ \A p, q \in PVCs : Position[p] = Position[q] => p = q
  /\ TimeoutVolumeRestore \in 0..(MaxAge - 1)

Created(b) == b[2] <= rollbacks[b[1]]

\* What the rollback controller reads of the upgrade it undoes.
ViewOf(r) ==
  [gone            |-> cache[r].life = "gone",
   terminal        |-> Terminal(cache[r]),
   skipSnapshot    |-> ask[r].skipSnapshot,
   pvcSnapshots    |-> cache[r].pvcSnapshots,
   newVersion      |-> cache[r].newVersion,
   previousVersion |-> cache[r].previousVersion]

RB == INSTANCE Rollback
        WITH Upgrades <- {}, upgrade <- [b \in Rollbacks |-> ViewOf(b[1])],
             obj <- robj, cache <- rcache, lagged <- rlagged,
             pc <- rpc, cur <- rcur, base <- rbase, mem <- rmem, then <- rthen

AutoInit ==
  /\ Init
  /\ claims = [p \in PVCs |-> [state |-> "bound", data |-> RB!Live,
                               opened |-> {InitialVersion}]]
  /\ robj = [b \in Rollbacks |-> RB!NewObject] /\ rcache = robj /\ rlagged = FALSE
  /\ rpc = "idle" /\ rcur = None /\ rbase = RB!NewObject /\ rmem = RB!NewObject
  /\ rthen = "return"

\* A step of the upgrade controller.
UpgradeStep ==
  /\ \/ \E r \in Requests : Reconcile(r) \/ Delete(r) \/ Sync(r)
     \/ WorkerStep
     \/ Crash
  /\ UNCHANGED <<claims, rollbackVars>>

\* A step of the rollback controller; a request is reconciled once it is made.
RollbackStep ==
  /\ UNCHANGED <<ask, obj, cache, workerVars, rollbacks, commits>>
  /\ \/ \E b \in Rollbacks :
          Created(b) /\ (RB!Reconcile(b) \/ RB!Delete(b) \/ RB!Sync(b))
     \/ RB!WorkerStep
     \/ RB!Crash

ClusterStep ==
  /\ RB!EnvironmentNext
  /\ UNCHANGED <<ask, obj, cache, workerVars, rollbacks, commits, faults, rollbackVars>>

AutoNext == UpgradeStep \/ RollbackStep \/ ClusterStep \/ (Tick /\ RB!Tick)

AutoSpec == AutoInit /\ [][AutoNext]_allVars

-----------------------------------------------------------------------------
(* Properties *)

\* A rollback that completed has put back what its upgrade found: the version
\* the upgrade recorded is in Git, and every claim it took a snapshot of holds
\* the data of that snapshot, which was cut while no pod had it mounted
\* (createAutoRollback, handleVolumeRestore, handleGitRevert).
CompletedRollbackRestores ==
  \A b \in Rollbacks : robj[b].complete = "true" =>
    LET o == obj[b[1]]
    IN  /\ git = o.previousVersion
        /\ \A p \in Recorded(o) : /\ claims[p].data = o.pvcSnapshots[p]
                                  /\ snaps[p][o.pvcSnapshots[p]].quiet

\* Once a rollback has begun to change the cluster its upgrade has ended, and
\* the upgrade controller's worker, if it is still in the reconcile that failed,
\* has only the finalizer left to remove (isUpgradeTerminal).
OneControllerAtATime ==
  \A b \in Rollbacks : robj[b].suspended # "absent" =>
    Terminal(obj[b[1]]) /\ (cur = b[1] => pc = "finalize")

\* A restored claim whose workloads the rollback has stopped is mounted by the
\* version it goes back to only: neither the upgrade nor Flux brings the failed
\* version up on the old data (handleStopWorkload before handleVolumeRestore,
\* handleReconciling after handleGitRevert).
StoppedDataClean ==
  \A b \in Rollbacks :
    LET o == obj[b[1]]
    IN  \A p \in Recorded(o) :
          /\ \A w \in Workloads : p \in Mounts[w] => w \in robj[b].scaling
          /\ claims[p].data = o.pvcSnapshots[p]
          => claims[p].opened \subseteq {o.previousVersion}

\* An automatic rollback is carried out: it is not refused because the upgrade
\* that asked for it is still under way (setFailed, handleSuspend).
AutoRollbackNotRefused ==
  \A b \in Rollbacks : robj[b].reason # "UpgradeInProgress"
=============================================================================
