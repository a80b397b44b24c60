--------------------------- MODULE RollbackSafety ---------------------------
(***************************************************************************)
(* Proofs about module Rollback, for any number of workloads, claims and   *)
(* versions, any timeouts and any bound on faults: Git is reverted only    *)
(* when the claims hold their snapshots, Flux stays suspended while a      *)
(* claim is missing, and the version that failed never opens the restored  *)
(* data.  All are about an app with one rollback: two rollbacks of one app *)
(* delete each other's claims.                                             *)
(***************************************************************************)
EXTENDS RollbackProofs

-----------------------------------------------------------------------------
(* What a rollback's record of restored claims says about the claims *)

\* The app has at most one rollback request.
OneRollback == \A r, q \in Rollbacks : r = q

\* The claims to restore when upgrade u is undone.
RestoreSet(u) == IF u.skipSnapshot THEN {} ELSE {p \in PVCs : u.pvcSnapshots[p] # 0}

\* A claim that o records as made is there, with its snapshot's data; one that
\* is recorded as restored is bound; and all are when the volumes are restored.
RestoredIn(o, C, u) ==
  \A p \in RestoreSet(u) :
    /\ o.restored[p] # "no" =>
         C[p].state \in {"pending", "bound"} /\ C[p].data = u.pvcSnapshots[p]
    /\ o.restored[p] = "restored" => C[p].state = "bound"
    /\ o.volumesRestored => o.restored[p] = "restored"

\* From c to d, a claim that is there stays, with its data.
Kept(c, d) ==
  c.state \in {"pending", "bound"} =>
    /\ d.state \in {"pending", "bound"} /\ d.data = c.data
    /\ c.state = "bound" => d.state = "bound"

\* The record of q is that of o.
Copied(o, q) == q.restored = o.restored /\ q.volumesRestored = o.volumesRestored

\* Touching an object leaves its record alone.
LEMMA TouchedCopied ==
  ASSUME NEW o \in Object, NEW q, Touched(o, q)
  PROVE  Copied(o, q) /\ q.suspended = o.suspended
  BY DEF Touched, Copied, Object

\* The same record says the same.
LEMMA CopiedRestored ==
  ASSUME NEW o, NEW q, NEW C, NEW u, Copied(o, q)
  PROVE  RestoredIn(q, C, u) <=> RestoredIn(o, C, u)
  BY DEF Copied, RestoredIn

\* What a record says stays true when the claims in it are kept.
LEMMA RestoredKept ==
  ASSUME NEW o, NEW C, NEW D, NEW u, RestoredIn(o, C, u),
         \A p \in PVCs : o.restored[p] # "no" => Kept(C[p], D[p])
  PROVE  RestoredIn(o, D, u)
<1>1. ASSUME NEW p \in RestoreSet(u), o.restored[p] # "no"
      PROVE  /\ D[p].state \in {"pending", "bound"} /\ D[p].data = u.pvcSnapshots[p]
             /\ o.restored[p] = "restored" => D[p].state = "bound"
  <2>1. p \in PVCs
    BY DEF RestoreSet
  <2> QED
    BY <1>1, <2>1 DEF RestoredIn, Kept
<1>2. ASSUME NEW p \in RestoreSet(u)
      PROVE  o.volumesRestored => o.restored[p] = "restored"
  BY <1>2 DEF RestoredIn
<1> QED
  BY <1>1, <1>2 DEF RestoredIn

\* The deletion of the UpgradeRequest does not change what is to be restored.
LEMMA SameUpgrade ==
  ASSUME NEW o, NEW C, NEW u, NEW v, v.skipSnapshot = u.skipSnapshot,
         v.pvcSnapshots = u.pvcSnapshots
  PROVE  RestoreSet(v) = RestoreSet(u) /\ (RestoredIn(o, C, v) <=> RestoredIn(o, C, u))
  BY DEF RestoreSet, RestoredIn

\* No other actor takes a claim away that is there and is not being deleted.
LEMMA EnvironmentKeeps ==
  ASSUME WorldOK, EnvironmentNext
  PROVE  \A p \in PVCs : Kept(claims[p], claims'[p])
<1>1. claims \in [PVCs -> Claim] /\ \A p \in PVCs : claims[p] \in Claim
  BY DEF WorldOK
<1>2. CASE UNCHANGED claims
  BY <1>2 DEF Kept
<1>3. ASSUME NEW ok \in BOOLEAN, FluxApplyClaims(ok)
      PROVE  \A p \in PVCs : Kept(claims[p], claims'[p])
  BY <1>1, <1>3 DEF FluxApplyClaims, Kept, Claim
<1>4. ASSUME NEW w \in Workloads, PodStartMounting(w)
      PROVE  \A p \in PVCs : Kept(claims[p], claims'[p])
  BY <1>1, <1>4 DEF PodStartMounting, Open, Kept, Claim
<1>5. ASSUME NEW q \in PVCs, ClaimGone(q) \/ ClaimBound(q)
      PROVE  \A p \in PVCs : Kept(claims[p], claims'[p])
  BY <1>1, <1>5 DEF ClaimGone, ClaimBound, Kept, Claim
<1> QED
  BY <1>2, <1>3, <1>4, <1>5 DEF EnvironmentNext, PruneSnapshot

-----------------------------------------------------------------------------
(* Git is reverted after the restore.  RevertAfterRestore is not inductive:  *)
(* whether the claims are there is decided claim by claim, and recorded in   *)
(* the worker's copy first.                                                  *)

\* Unless the cache was ever behind: what is stored, and what the worker holds,
\* is true of the claims; the worker holds what it read, apart from timers, and
\* forgets no claim that is stored as made, so it deletes none of those.
WorkerRestored ==
  pc # "idle" =>
    /\ Touched(base, obj[cur]) /\ RestoredIn(mem, claims, upgrade[cur])
    /\ \A p \in PVCs : base.restored[p] # "no" => mem.restored[p] # "no"

\* RevertAfterRestore with what it needs.
RevertInv ==
  ~lagged =>
    /\ cache = obj
    /\ \A r \in Rollbacks : RestoredIn(obj[r], claims, upgrade[r])
    /\ WorkerRestored

\* A handler's step, by what it does to the claims and to the worker's copy.
LEMMA HandlerRevert ==
  ASSUME IInv, OneRollback, RevertInv, pc # "idle", UNCHANGED <<stored, upgrade>>,
         ~lagged => \A p \in PVCs : base.restored[p] # "no" => Kept(claims[p], claims'[p]),
         \/ Return
         \/ /\ UNCHANGED <<cur, base>>
            /\ ~lagged => /\ RestoredIn(mem', claims', upgrade[cur])
                          /\ \A p \in PVCs : base.restored[p] # "no" => mem'.restored[p] # "no"
  PROVE  RevertInv'
<1> SUFFICES ASSUME ~lagged PROVE RevertInv'
  BY DEF RevertInv, stored
<1>1. cur \in Rollbacks /\ base \in Object /\ \A r \in Rollbacks : r = cur
  BY DEF IInv, WorkerClose, OneRollback
<1>2. obj[cur].restored = base.restored
  BY <1>1, TouchedCopied DEF RevertInv, WorkerRestored, Copied
<1>3. \A r \in Rollbacks : RestoredIn(obj[r], claims', upgrade[r])
  BY <1>1, <1>2, RestoredKept DEF RevertInv
<1>4. WorkerRestored'
  BY DEF Return, WorkerRestored, RevertInv, stored
<1> QED
  BY <1>3, <1>4 DEF RevertInv, stored

\* A failing handler's copy: its record is that of m.
LEMMA FailCopies ==
  ASSUME NEW m \in Object, NEW reason, NEW n, setFailed(m, reason, n)
  PROVE  UNCHANGED <<cur, base>> /\ Copied(m, mem') /\ mem'.suspended = m.suspended
         /\ pc' = "update" /\ then' = "finalize"
  BY DEF setFailed, WriteStatus, Copied, Object

\* The copy with the timer started or reset has the same record.
LEMMA TimerCopies ==
  ASSUME NEW m \in Object
  PROVE  /\ setPhaseStartIfNeeded(m) \in Object /\ resetPhaseStart(m) \in Object
         /\ Copied(m, setPhaseStartIfNeeded(m)) /\ Copied(m, resetPhaseStart(m))
         /\ setPhaseStartIfNeeded(m).suspended = m.suspended
         /\ resetPhaseStart(m).suspended = m.suspended
  BY TimerType, Touching, TouchedCopied

\* The handlers that are not about volumes change neither the claims nor the
\* record of them, and of the suspension only that it has ended.
LEMMA HandlerCopies ==
  ASSUME WorkerClose,
         \/ handleStopWorkload \/ checkStopped \/ handleVolumeRestore
         \/ handleGitRevert \/ commitFile
         \/ handleReconciling \/ checkReconciled \/ handleHealthChecking \/ handleCompleted
  PROVE  /\ pc # "idle" /\ UNCHANGED <<stored, claims, upgrade>>
         /\ \/ Return
            \/ /\ UNCHANGED <<cur, base>> /\ Copied(mem, mem')
               /\ \/ mem'.suspended = mem.suspended
                  \/ mem.suspended # "absent"
<1>1. mem \in Object
  BY DEF WorkerClose
<1> DEFINE m == setPhaseStartIfNeeded(mem)
           t == resetPhaseStart(mem)
           Goal == /\ pc # "idle" /\ UNCHANGED <<stored, claims, upgrade>>
                   /\ \/ Return
                      \/ /\ UNCHANGED <<cur, base>> /\ Copied(mem, mem')
                         /\ \/ mem'.suspended = mem.suspended
                            \/ mem.suspended # "absent"
<1>2. /\ m \in Object /\ Copied(mem, m) /\ m.suspended = mem.suspended
      /\ t \in Object /\ Copied(mem, t) /\ t.suspended = mem.suspended
  BY <1>1, TimerCopies
<1>3. ASSUME pc # "idle", UNCHANGED <<stored, claims, upgrade>>,
             NEW q \in {mem, m}, NEW n, Fail(q, n)
      PROVE  Goal
  <2>1. q \in Object /\ Copied(mem, q) /\ q.suspended = mem.suspended
    BY <1>1, <1>2 DEF Copied
  <2>2. UNCHANGED <<cur, base>> /\ Copied(q, mem') /\ mem'.suspended = q.suspended
    BY <1>3, <2>1, FailCopies DEF Fail
  <2> QED
    BY <1>3, <2>1, <2>2 DEF Copied
<1> HIDE DEF m, t
<1>5. CASE handleStopWorkload
  <2>1. pc # "idle" /\ UNCHANGED <<stored, claims, upgrade>>
    BY <1>5 DEF handleStopWorkload, At
  <2>2. CASE \E n \in {0, 1} : Fail(m, n)
    BY <1>3, <2>1, <2>2
  <2>3. CASE WriteStatus([m EXCEPT !.workloadStopped = TRUE], "run")
    BY <1>2, <2>1, <2>3 DEF WriteStatus, Copied, Object
  <2>4. CASE mem' = [m EXCEPT !.scaling = DiscoverWorkloadsForPVCs] /\ UNCHANGED <<cur, base>>
    BY <1>2, <2>1, <2>4 DEF Copied, Object
  <2> QED
    BY <1>5, <2>2, <2>3, <2>4 DEF handleStopWorkload, m
<1>6. CASE checkStopped
  <2>1. pc # "idle" /\ UNCHANGED <<stored, claims, upgrade>>
    BY <1>6 DEF checkStopped
  <2>2. CASE \E n \in {0, 1} : Fail(mem, n)
    BY <1>3, <2>1, <2>2
  <2>3. CASE WriteStatus([t EXCEPT !.workloadStopped = TRUE], "return")
    BY <1>2, <2>1, <2>3 DEF WriteStatus, Copied, Object
  <2>4. CASE WriteStatus(mem, "return")
    BY <2>1, <2>4 DEF WriteStatus, Copied
  <2> QED
    BY <1>6, <2>2, <2>3, <2>4 DEF checkStopped, t
<1>7. CASE handleVolumeRestore
  <2>1. pc # "idle" /\ UNCHANGED <<stored, claims, upgrade>>
    BY <1>7 DEF handleVolumeRestore, At
  <2>2. CASE \E n \in {0, 1} : Fail(m, n)
    BY <1>3, <2>1, <2>2
  <2>3. CASE mem' = m /\ UNCHANGED <<cur, base>>
    BY <1>2, <2>1, <2>3
  <2> QED
    BY <1>7, <2>2, <2>3 DEF handleVolumeRestore, m
<1>8. CASE handleGitRevert
  <2>1. pc # "idle" /\ UNCHANGED <<stored, claims, upgrade>>
    BY <1>8 DEF handleGitRevert, At
  <2>2. CASE \E n \in {0, 1} : Fail(mem, n)
    BY <1>3, <2>1, <2>2
  <2>3. CASE UNCHANGED <<cur, base, mem>>
    BY <2>1, <2>3 DEF Copied
  <2> QED
    BY <1>8, <2>2, <2>3 DEF handleGitRevert
<1>9. CASE commitFile
  <2>1. pc # "idle" /\ UNCHANGED <<stored, claims, upgrade>>
    BY <1>9 DEF commitFile
  <2>2. CASE \E n \in {0, 1} : Fail(mem, n)
    BY <1>3, <2>1, <2>2
  <2>3. CASE WriteStatus([mem EXCEPT !.gitReverted = TRUE], "return")
    BY <1>1, <2>1, <2>3 DEF WriteStatus, Copied, Object
  <2> QED
    BY <1>9, <2>2, <2>3 DEF commitFile
<1>10. CASE handleReconciling
  <2>1. pc # "idle" /\ UNCHANGED <<stored, claims, upgrade>>
    BY <1>10 DEF handleReconciling, At
  <2>2. CASE \E n \in {0, 1} : Fail(m, n)
    BY <1>3, <2>1, <2>2
  <2>3. CASE WriteStatus([m EXCEPT !.suspended = "false"], "resumed")
    <3>1. mem.suspended # "absent"
      BY <1>10 DEF handleReconciling, At, Phase
    <3> QED
      BY <1>2, <2>1, <2>3, <3>1 DEF WriteStatus, Copied, Object
  <2> QED
    BY <1>10, <2>2, <2>3 DEF handleReconciling, m
<1>11. CASE checkReconciled
  <2>1. pc # "idle" /\ UNCHANGED <<stored, claims, upgrade>>
    BY <1>11 DEF checkReconciled
  <2>2. CASE \E n \in {0, 1} : Fail(mem, n)
    BY <1>3, <2>1, <2>2
  <2>3. CASE WriteStatus([t EXCEPT !.reconciled = TRUE], "return")
    BY <1>2, <2>1, <2>3 DEF WriteStatus, Copied, Object
  <2>4. CASE Return
    BY <2>1, <2>4
  <2> QED
    BY <1>11, <2>2, <2>3, <2>4 DEF checkReconciled, t
<1>12. CASE handleHealthChecking
  <2>1. pc # "idle" /\ UNCHANGED <<stored, claims, upgrade>>
    BY <1>12 DEF handleHealthChecking, At
  <2>2. CASE \E n \in {0, 1} : Fail(m, n)
    BY <1>3, <2>1, <2>2
  <2>3. CASE WriteStatus([m EXCEPT !.healthy = TRUE], "return")
    BY <1>2, <2>1, <2>3 DEF WriteStatus, Copied, Object
  <2>4. CASE Return
    BY <2>1, <2>4
  <2> QED
    BY <1>12, <2>2, <2>3, <2>4 DEF handleHealthChecking, m
<1>13. CASE handleCompleted
  BY <1>1, <1>13 DEF handleCompleted, At, WriteStatus, Copied, Object
<1> QED
  BY <1>5, <1>6, <1>7, <1>8, <1>9, <1>10, <1>11, <1>12, <1>13

\* A step of the worker that changes neither the claims nor the record.
LEMMA CopyRevert ==
  ASSUME IInv, OneRollback, RevertInv, pc # "idle", UNCHANGED <<stored, claims, upgrade>>,
         Return \/ (UNCHANGED <<cur, base>> /\ Copied(mem, mem'))
  PROVE  RevertInv'
<1>1. \A p \in PVCs : Kept(claims[p], claims'[p])
  BY DEF Kept
<1>2. CASE Return
  BY <1>1, <1>2, HandlerRevert
<1>3. CASE UNCHANGED <<cur, base>> /\ Copied(mem, mem')
  <2>1. ASSUME ~lagged
        PROVE  /\ RestoredIn(mem', claims', upgrade[cur])
               /\ \A p \in PVCs : base.restored[p] # "no" => mem'.restored[p] # "no"
    <3>1. RestoredIn(mem, claims, upgrade[cur])
          /\ \A p \in PVCs : base.restored[p] # "no" => mem.restored[p] # "no"
      BY <2>1 DEF RevertInv, WorkerRestored
    <3>2. RestoredIn(mem', claims, upgrade[cur])
      BY <1>3, <3>1, CopiedRestored
    <3> QED
      BY <1>3, <3>1, <3>2 DEF Copied
  <2> QED
    BY <1>1, <1>3, <2>1, HandlerRevert
<1> QED
  BY <1>2, <1>3

\* handleSuspend records the volumes as restored when there are none to restore.
LEMMA SuspendRevert ==
  ASSUME IInv, OneRollback, RevertInv, handleSuspend
  PROVE  RevertInv'
<1> DEFINE m == [mem EXCEPT !.suspended = "true",
                            !.volumesRestored = @ \/ ToRestore = {}]
<1>1. /\ mem \in Object /\ pc # "idle" /\ cur \in Rollbacks
      /\ UNCHANGED <<stored, claims, upgrade>>
  BY DEF IInv, WorkerClose, handleSuspend, At
<1>2. CASE \/ Fail(mem, 1) \/ Fail(mem, 0) \/ setFailed(mem, "UpgradeInProgress", 0)
  BY <1>1, <1>2, FailCopies, CopyRevert DEF Fail
<1>3. CASE WriteStatus(m, "return")
  <2>1. m.restored = mem.restored /\ (m.volumesRestored => mem.volumesRestored \/ ToRestore = {})
    BY <1>1 DEF Object
  <2> HIDE DEF m
  <2>2. mem' = m /\ UNCHANGED <<cur, base>>
    BY <1>3 DEF WriteStatus
  <2>3. ToRestore = RestoreSet(upgrade[cur])
    BY DEF ToRestore, Recorded, RestoreSet, Up
  <2>4. ASSUME ~lagged
        PROVE  /\ RestoredIn(mem', claims', upgrade[cur])
               /\ \A p \in PVCs : base.restored[p] # "no" => mem'.restored[p] # "no"
    BY <1>1, <2>1, <2>2, <2>3, <2>4 DEF RevertInv, WorkerRestored, RestoredIn
  <2>5. \A p \in PVCs : Kept(claims[p], claims'[p])
    BY <1>1 DEF Kept
  <2> QED
    BY <1>1, <2>2, <2>4, <2>5, HandlerRevert
<1> QED
  BY <1>2, <1>3 DEF handleSuspend, m

\* The claims that are not recorded as made, among those to restore.
LEMMA UnrestoredIn ==
  ASSUME NEW p \in Unrestored(mem)
  PROVE  p \in PVCs /\ mem.restored[p] = "no" /\ p \in RestoreSet(upgrade[cur])
  BY DEF Unrestored, ToRestore, Recorded, RestoreSet, Up

\* Deleting p leaves the other claims alone.
LEMMA DeletePVCKeeps ==
  ASSUME WorldOK, NEW p \in PVCs, DeletePVC(p)
  PROVE  \A q \in PVCs \ {p} : Kept(claims[q], claims'[q])
  BY DEF WorldOK, DeletePVC, Kept

\* A claim is deleted only while no record says it is made.
LEMMA DeleteClaimRevert ==
  ASSUME IInv, OneRollback, RevertInv, deleteClaim
  PROVE  RevertInv'
<1>1. /\ mem \in Object /\ pc # "idle" /\ cur \in Rollbacks /\ WorldOK
      /\ UNCHANGED <<stored, upgrade>>
  BY DEF IInv, WorkerClose, deleteClaim
<1>2. UNCHANGED <<cur, base>> /\ Copied(mem, mem')
  BY <1>1, FailCopies DEF deleteClaim, Fail, Copied
<1>3. \A p \in PVCs : mem.restored[p] # "no" => Kept(claims[p], claims'[p])
  BY <1>1, DeletePVCKeeps, UnrestoredIn DEF deleteClaim, Kept
<1>4. ASSUME ~lagged
      PROVE  /\ RestoredIn(mem', claims', upgrade[cur])
             /\ \A p \in PVCs : base.restored[p] # "no" => mem'.restored[p] # "no"
             /\ \A p \in PVCs : base.restored[p] # "no" => Kept(claims[p], claims'[p])
  <2>1. RestoredIn(mem, claims, upgrade[cur])
        /\ \A p \in PVCs : base.restored[p] # "no" => mem.restored[p] # "no"
    BY <1>1, <1>4 DEF RevertInv, WorkerRestored
  <2>2. RestoredIn(mem, claims', upgrade[cur])
    BY <1>3, <2>1, RestoredKept
  <2>3. RestoredIn(mem', claims', upgrade[cur])
    BY <1>2, <2>2, CopiedRestored
  <2> QED
    BY <1>2, <1>3, <2>1, <2>3 DEF Copied
<1> QED
  BY <1>1, <1>2, <1>4, HandlerRevert

\* A claim is made from its snapshot and then recorded.
LEMMA RestorePVCRevert ==
  ASSUME IInv, OneRollback, RevertInv, RestorePVCFromSnapshot
  PROVE  RevertInv'
<1>1. /\ mem \in Object /\ pc # "idle" /\ cur \in Rollbacks /\ WorldOK
      /\ UNCHANGED <<stored, upgrade>>
  BY DEF IInv, WorkerClose, RestorePVCFromSnapshot
<1>2. CASE UNCHANGED claims /\ (Fail(mem, 0) \/ Fail(mem, 1) \/ Return)
  BY <1>1, <1>2, FailCopies, CopyRevert DEF Fail
<1>3. ASSUME NEW p \in Unrestored(mem),
             claims' = [claims EXCEPT ![p] = NewClaim(Up.pvcSnapshots[p])],
             \/ WriteStatus([mem EXCEPT !.restored[p] = "pending"], "next")
             \/ Fail(mem, 1)
      PROVE  RevertInv'
  <2>1. p \in PVCs /\ mem.restored[p] = "no" /\ p \in RestoreSet(upgrade[cur])
    BY <1>3, UnrestoredIn
  <2>2. \A q \in PVCs : mem.restored[q] # "no" => Kept(claims[q], claims'[q])
    BY <1>1, <1>3, <2>1 DEF WorldOK, Kept
  <2>3. claims'[p].state = "pending" /\ claims'[p].data = upgrade[cur].pvcSnapshots[p]
    BY <1>1, <1>3, <2>1 DEF WorldOK, NewClaim, Up
  <2>4. mem.restored \in [PVCs -> {"no", "pending", "restored"}]
    BY <1>1 DEF Object
  <2>5. UNCHANGED <<cur, base>> /\ mem'.volumesRestored = mem.volumesRestored
        /\ \/ mem'.restored = mem.restored
           \/ mem'.restored = [mem.restored EXCEPT ![p] = "pending"]
    BY <1>1, <1>3, FailCopies DEF Fail, Copied, WriteStatus, Object
  <2>6. ASSUME ~lagged
        PROVE  /\ RestoredIn(mem', claims', upgrade[cur])
               /\ \A q \in PVCs : base.restored[q] # "no" => mem'.restored[q] # "no"
               /\ \A q \in PVCs : base.restored[q] # "no" => Kept(claims[q], claims'[q])
    <3>1. RestoredIn(mem, claims, upgrade[cur])
          /\ \A q \in PVCs : base.restored[q] # "no" => mem.restored[q] # "no"
      BY <1>1, <2>6 DEF RevertInv, WorkerRestored
    <3>2. RestoredIn(mem, claims', upgrade[cur])
      BY <2>2, <3>1, RestoredKept
    <3>3. ~mem.volumesRestored
      BY <2>1, <3>1 DEF RestoredIn
    <3>4. ASSUME NEW q \in RestoreSet(upgrade[cur])
          PROVE  /\ mem'.restored[q] # "no" =>
                      /\ claims'[q].state \in {"pending", "bound"}
                      /\ claims'[q].data = upgrade[cur].pvcSnapshots[q]
                 /\ mem'.restored[q] = "restored" => claims'[q].state = "bound"
      <4>1. CASE q = p
        BY <2>1, <2>3, <2>4, <2>5, <4>1
      <4>2. CASE q # p
        <5>1. q \in PVCs
          BY DEF RestoreSet
        <5>2. mem'.restored[q] = mem.restored[q]
          BY <2>4, <2>5, <4>2, <5>1
        <5> QED
          BY <3>2, <5>2 DEF RestoredIn
      <4> QED
        BY <4>1, <4>2
    <3>5. RestoredIn(mem', claims', upgrade[cur])
      BY <2>5, <3>3, <3>4 DEF RestoredIn
    <3>6. \A q \in PVCs : mem.restored[q] # "no" => mem'.restored[q] # "no"
      BY <2>4, <2>5
    <3> QED
      BY <2>2, <3>1, <3>5, <3>6
  <2> QED
    BY <1>1, <2>5, <2>6, HandlerRevert
<1> QED
  BY <1>2, <1>3 DEF RestorePVCFromSnapshot

\* The volumes are restored when every claim that was made is bound.
LEMMA BoundRevert ==
  ASSUME IInv, OneRollback, RevertInv, awaitBound
  PROVE  RevertInv'
<1> DEFINE found == [p \in PVCs |-> IF p \in Pending(mem) THEN "restored" ELSE mem.restored[p]]
           t == resetPhaseStart(mem)
           done == [t EXCEPT !.restored = found, !.volumesRestored = TRUE]
<1>1. /\ mem \in Object /\ pc # "idle" /\ cur \in Rollbacks /\ WorldOK
      /\ UNCHANGED <<stored, claims, upgrade>> /\ Unrestored(mem) = {}
  BY DEF IInv, WorkerClose, awaitBound
<1>2. CASE Fail(mem, 0) \/ Fail(mem, 1) \/ Return
  BY <1>1, <1>2, FailCopies, CopyRevert DEF Fail
<1>3. CASE Unbound(mem) = {} /\ WriteStatus(done, "return")
  <2>1. t \in Object
    BY <1>1, TimerType
  <2> HIDE DEF t
  <2>2. done.restored = found
    BY <2>1 DEF Object
  <2>3. UNCHANGED <<cur, base>> /\ mem'.restored = found
    BY <1>3, <2>2 DEF WriteStatus
  <2>4. ASSUME ~lagged
        PROVE  /\ RestoredIn(mem', claims', upgrade[cur])
               /\ \A p \in PVCs : base.restored[p] # "no" => mem'.restored[p] # "no"
    <3>1. RestoredIn(mem, claims, upgrade[cur])
          /\ \A p \in PVCs : base.restored[p] # "no" => mem.restored[p] # "no"
      BY <1>1, <2>4 DEF RevertInv, WorkerRestored
    <3>2. ASSUME NEW p \in RestoreSet(upgrade[cur])
          PROVE  /\ mem'.restored[p] = "restored" /\ claims'[p].state = "bound"
                 /\ claims'[p].data = upgrade[cur].pvcSnapshots[p]
      <4>1. p \in PVCs /\ mem.restored[p] # "no"
        BY <1>1 DEF RestoreSet, Unrestored, ToRestore, Recorded, Up
      <4>2. mem.restored[p] \in {"pending", "restored"}
        BY <1>1, <4>1 DEF Object
      <4>3. mem.restored[p] = "pending" => claims[p].state \in {"bound", "terminating"}
        BY <1>3, <4>1 DEF Unbound, Pending, IsPVCBound
      <4>4. claims[p].state = "bound" /\ claims[p].data = upgrade[cur].pvcSnapshots[p]
        BY <3>1, <4>1, <4>2, <4>3 DEF RestoredIn
      <4>5. mem'.restored[p] = "restored"
        BY <2>3, <4>1, <4>2 DEF Pending
      <4> QED
        BY <1>1, <4>4, <4>5
    <3>3. RestoredIn(mem', claims', upgrade[cur])
      BY <3>2 DEF RestoredIn
    <3>4. \A p \in PVCs : mem.restored[p] # "no" => mem'.restored[p] # "no"
      BY <2>3
    <3> QED
      BY <3>1, <3>3, <3>4
  <2>5. \A p \in PVCs : Kept(claims[p], claims'[p])
    BY <1>1 DEF Kept
  <2> QED
    BY <1>1, <2>3, <2>4, <2>5, HandlerRevert
<1> QED
  BY <1>2, <1>3 DEF awaitBound, found, t, done

\* Touching twice is touching, in either direction.
LEMMA TouchedTwice ==
  ASSUME NEW o \in Object, NEW p \in Object, NEW q \in Object, Touched(o, p)
  PROVE  Touched(p, o) /\ (Touched(p, q) => Touched(o, q))
<1>1. Touched(p, o)
  BY DEF Touched, Object
<1>2. ASSUME Touched(p, q) PROVE Touched(o, q)
  BY <1>2 DEF Touched, Object
<1> QED
  BY <1>1, <1>2

\* Time passes for both.
LEMMA TouchedOlder ==
  ASSUME NEW o \in Object, NEW q \in Object, Touched(o, q)
  PROVE  Touched(Older(o), Older(q))
<1>1. /\ Older(o) \in Object /\ Older(q) \in Object
      /\ Touched(o, Older(o)) /\ Touched(q, Older(q))
  BY TimerType, Touching
<1> QED
  BY <1>1, TouchedTwice

\* A write that the cache sees at once, of an object whose record is true.
LEMMA StoreRevert ==
  ASSUME StoredOK, RevertInv, NEW r \in Rollbacks, NEW o \in Object, Store(r, o),
         UNCHANGED <<claims, upgrade>>, ~lagged => RestoredIn(o, claims, upgrade[r])
  PROVE  ~lagged' => /\ ~lagged /\ cache' = obj' /\ obj' = [obj EXCEPT ![r] = o]
                     /\ \A q \in Rollbacks : RestoredIn(obj'[q], claims', upgrade'[q])
<1> SUFFICES ASSUME ~lagged'
             PROVE  /\ ~lagged /\ cache' = obj' /\ obj' = [obj EXCEPT ![r] = o]
                    /\ \A q \in Rollbacks : RestoredIn(obj'[q], claims', upgrade'[q])
  OBVIOUS
<1>1. ~lagged /\ cache' = obj' /\ obj' = [obj EXCEPT ![r] = o]
  BY DEF Store, RevertInv
<1> QED
  BY <1>1 DEF StoredOK, RevertInv

\* An object that is touched, written while the worker goes on.
LEMMA TouchRevert ==
  ASSUME IInv, OneRollback, RevertInv, NEW r \in Rollbacks, NEW o \in Object, Store(r, o),
         Touched(obj[r], o), UNCHANGED <<claims, upgrade, workerVars>>
  PROVE  RevertInv'
<1>1. StoredOK /\ obj[r] \in Object /\ base \in Object
  BY DEF IInv, StoredOK, WorkerClose
<1>2. ~lagged => RestoredIn(o, claims, upgrade[r])
  BY <1>1, TouchedCopied, CopiedRestored DEF RevertInv
<1>3. ~lagged' => /\ ~lagged /\ cache' = obj' /\ obj' = [obj EXCEPT ![r] = o]
                  /\ \A q \in Rollbacks : RestoredIn(obj'[q], claims', upgrade'[q])
  BY <1>1, <1>2, StoreRevert
<1>4. ASSUME ~lagged' PROVE WorkerRestored'
  <2>1. ASSUME pc # "idle" PROVE cur = r /\ Touched(base, obj'[cur])
    <3>1. cur = r /\ Touched(base, obj[r])
      BY <1>3, <1>4, <2>1 DEF IInv, WorkerClose, OneRollback, RevertInv, WorkerRestored
    <3>2. obj'[cur] = o
      BY <1>1, <1>3, <1>4, <3>1 DEF StoredOK
    <3> QED
      BY <1>1, <3>1, <3>2, TouchedTwice
  <2> QED
    BY <1>3, <1>4, <2>1 DEF WorkerRestored, workerVars, RevertInv
<1> QED
  BY <1>3, <1>4 DEF RevertInv

\* Taking up a rollback.
LEMMA ReconcileRevert ==
  ASSUME IInv, OneRollback, RevertInv, NEW r \in Rollbacks, Reconcile(r)
  PROVE  RevertInv'
<1> DEFINE d == [obj[r] EXCEPT !.finalizer = FALSE, !.life = "gone"]
           f == [obj[r] EXCEPT !.finalizer = TRUE]
<1>1. StoredOK /\ obj[r] \in Object /\ UNCHANGED <<claims, upgrade>>
  BY DEF IInv, StoredOK, Reconcile
<1>2. d \in Object /\ f \in Object
  BY <1>1 DEF Object
<1>3. Touched(obj[r], d) /\ Touched(obj[r], f)
  BY <1>1, Touching
<1> HIDE DEF d, f
<1>4. CASE (Store(r, d) \/ Store(r, f)) /\ UNCHANGED workerVars
  BY <1>1, <1>2, <1>3, <1>4, TouchRevert
<1>5. CASE /\ cur' = r /\ base' = cache[r] /\ mem' = cache[r]
           /\ UNCHANGED stored
  <2>1. Touched(obj[r], obj[r])
    BY <1>1, Touching
  <2>2. ~lagged => WorkerRestored'
    BY <1>1, <1>5, <2>1 DEF WorkerRestored, RevertInv, stored
  <2> QED
    BY <1>1, <1>5, <2>2 DEF RevertInv, stored
<1> QED
  BY <1>4, <1>5 DEF Reconcile, d, f

\* Status().Update stores the worker's record.
LEMMA UpdateRevert ==
  ASSUME IInv, OneRollback, RevertInv, statusUpdate
  PROVE  RevertInv'
<1>1. /\ StoredOK /\ pc = "update" /\ cur \in Rollbacks /\ mem \in Object
      /\ UNCHANGED <<claims, upgrade>>
  BY DEF IInv, WorkerClose, statusUpdate
<1>2. ~lagged => RestoredIn(mem, claims, upgrade[cur])
  BY <1>1 DEF RevertInv, WorkerRestored
<1>3. CASE obj[cur] = base /\ Store(cur, mem)
  <2>1. ~lagged' => /\ ~lagged /\ cache' = obj' /\ obj' = [obj EXCEPT ![cur] = mem]
                    /\ \A q \in Rollbacks : RestoredIn(obj'[q], claims', upgrade'[q])
    BY <1>1, <1>2, <1>3, StoreRevert
  <2>2. ASSUME ~lagged' PROVE WorkerRestored'
    <3>1. CASE Return
      BY <3>1 DEF Return, WorkerRestored
    <3>2. CASE base' = mem /\ UNCHANGED <<cur, mem>>
      <4>1. obj'[cur] = mem /\ Touched(mem, mem)
        BY <1>1, <2>1, <2>2, Touching DEF StoredOK
      <4> QED
        BY <1>1, <1>2, <2>1, <2>2, <3>2, <4>1 DEF WorkerRestored
    <3> QED
      BY <3>1, <3>2 DEF statusUpdate
  <2> QED
    BY <2>1, <2>2 DEF RevertInv
<1>4. CASE Return /\ UNCHANGED stored
  BY <1>1, <1>4 DEF RevertInv, WorkerRestored, Return, stored
<1> QED
  BY <1>3, <1>4 DEF statusUpdate

\* Removing the finalizer.
LEMMA FinalizeRevert ==
  ASSUME IInv, OneRollback, RevertInv, removeFinalizer
  PROVE  RevertInv'
<1> DEFINE o == [mem EXCEPT !.finalizer = FALSE]
<1>1. /\ StoredOK /\ pc = "finalize" /\ cur \in Rollbacks /\ mem \in Object
      /\ UNCHANGED <<claims, upgrade>> /\ Return
  BY DEF IInv, WorkerClose, removeFinalizer
<1>2. o \in Object
  BY <1>1 DEF Object
<1>3. Copied(mem, o)
  BY <1>1, Touching, TouchedCopied
<1> HIDE DEF o
<1>4. ~lagged => RestoredIn(o, claims, upgrade[cur])
  BY <1>1, <1>3, CopiedRestored DEF RevertInv, WorkerRestored
<1>5. WorkerRestored'
  BY <1>1 DEF Return, WorkerRestored
<1>6. CASE Store(cur, o)
  BY <1>1, <1>2, <1>4, <1>5, <1>6, StoreRevert DEF RevertInv
<1>7. CASE UNCHANGED stored
  BY <1>1, <1>5, <1>7 DEF RevertInv, stored
<1> QED
  BY <1>6, <1>7 DEF removeFinalizer, o

\* Deleting a rollback.
LEMMA DeleteRevert ==
  ASSUME IInv, OneRollback, RevertInv, NEW r \in Rollbacks, Delete(r)
  PROVE  RevertInv'
<1> DEFINE l == IF obj[r].finalizer THEN "deleting" ELSE "gone"
           o == [obj[r] EXCEPT !.life = l]
<1>1. obj[r] \in Object
  BY DEF IInv, StoredOK
<1>2. l \in {"live", "deleting", "gone"} /\ Store(r, o)
  BY DEF Delete
<1> HIDE DEF l
<1>3. o \in Object
  BY <1>1, <1>2 DEF Object
<1>4. Touched(obj[r], o)
  BY <1>1, <1>2, Touching
<1> HIDE DEF o
<1> QED
  BY <1>2, <1>3, <1>4, TouchRevert DEF Delete

\* The passing of time.
LEMMA TickRevert ==
  ASSUME IInv, RevertInv, Tick
  PROVE  RevertInv'
<1> SUFFICES ASSUME ~lagged PROVE RevertInv'
  BY DEF RevertInv, Tick
<1>1. /\ \A r \in Rollbacks : obj[r] \in Object
      /\ base \in Object /\ mem \in Object /\ (pc # "idle" => cur \in Rollbacks)
      /\ cache = obj /\ \A r \in Rollbacks : RestoredIn(obj[r], claims, upgrade[r])
      /\ WorkerRestored
  BY DEF IInv, StoredOK, WorkerClose, RevertInv
<1>2. \A o \in Object : Copied(o, Older(o))
  BY TimerType, Touching, TouchedCopied
<1>3. \A r \in Rollbacks : RestoredIn(obj'[r], claims', upgrade'[r])
  BY <1>1, <1>2, CopiedRestored DEF Tick
<1>4. WorkerRestored'
  <2> SUFFICES ASSUME pc # "idle" PROVE WorkerRestored'
    BY DEF WorkerRestored, Tick
  <2>1. Touched(base', obj'[cur])
    BY <1>1, TouchedOlder DEF Tick, WorkerRestored
  <2>2. RestoredIn(mem', claims', upgrade'[cur])
    BY <1>1, <1>2, CopiedRestored DEF Tick, WorkerRestored
  <2>3. base'.restored = base.restored /\ mem'.restored = mem.restored
    BY <1>1, <1>2 DEF Tick, Copied
  <2> QED
    BY <1>1, <2>1, <2>2, <2>3 DEF Tick, WorkerRestored
<1> QED
  BY <1>1, <1>3, <1>4 DEF RevertInv, Tick

\* Deleting the UpgradeRequest.
LEMMA DeleteUpgradeSame ==
  ASSUME WorldOK, NEW r \in Rollbacks, DeleteUpgrade(r)
  PROVE  \A q \in Rollbacks : /\ upgrade'[q].skipSnapshot = upgrade[q].skipSnapshot
                              /\ upgrade'[q].pvcSnapshots = upgrade[q].pvcSnapshots
<1> DEFINE u == [upgrade[r] EXCEPT !.gone = TRUE]
<1>1. upgrade[r] \in UpgradeView /\ upgrade' = [upgrade EXCEPT ![r] = u]
  BY DEF DeleteUpgrade, WorldOK
<1>2. u.skipSnapshot = upgrade[r].skipSnapshot /\ u.pvcSnapshots = upgrade[r].pvcSnapshots
  BY <1>1 DEF UpgradeView
<1> HIDE DEF u
<1> QED
  BY <1>1, <1>2 DEF WorldOK

\* Every step preserves the invariant.
LEMMA NextRevert ==
  ASSUME IInv, OneRollback, RevertInv, [Next]_vars
  PROVE  RevertInv'
<1>1. WorldOK /\ WorkerClose
  BY DEF IInv
<1>2. CASE WorkerStep
  <2>1. CASE \/ handleStopWorkload \/ checkStopped \/ handleVolumeRestore
             \/ handleGitRevert \/ commitFile
             \/ handleReconciling \/ checkReconciled \/ handleHealthChecking \/ handleCompleted
    BY <1>1, <2>1, HandlerCopies, CopyRevert
  <2> QED
    BY <1>2, <2>1, SuspendRevert, DeleteClaimRevert, RestorePVCRevert, BoundRevert,
       UpdateRevert, FinalizeRevert DEF WorkerStep
<1>3. CASE Crash
  BY <1>3, CopyRevert DEF Crash
<1>4. ASSUME NEW r \in Rollbacks, Sync(r) PROVE RevertInv'
  BY <1>4 DEF Sync, RevertInv
<1>5. ASSUME NEW r \in Rollbacks, DeleteUpgrade(r) PROVE RevertInv'
  <2>1. \A q \in Rollbacks : /\ upgrade'[q].skipSnapshot = upgrade[q].skipSnapshot
                             /\ upgrade'[q].pvcSnapshots = upgrade[q].pvcSnapshots
    BY <1>1, <1>5, DeleteUpgradeSame
  <2>2. \A q \in Rollbacks : \A o :
          RestoredIn(o, claims, upgrade[q]) => RestoredIn(o, claims, upgrade'[q])
    BY <2>1, SameUpgrade
  <2>3. ~lagged => WorkerRestored'
    BY <1>1, <1>5, <2>2
    DEF DeleteUpgrade, RevertInv, WorkerRestored, WorkerClose, workerVars, stored
  <2> QED
    BY <1>5, <2>2, <2>3 DEF DeleteUpgrade, RevertInv, stored
<1>6. CASE EnvironmentNext /\ UNCHANGED <<upgrade, stored, workerVars, faults>>
  <2>1. \A p \in PVCs : Kept(claims[p], claims'[p])
    BY <1>1, <1>6, EnvironmentKeeps
  <2>2. \A o, u : RestoredIn(o, claims, u) => RestoredIn(o, claims', u)
    BY <2>1, RestoredKept
  <2>3. ~lagged => WorkerRestored'
    BY <1>6, <2>2 DEF RevertInv, WorkerRestored, workerVars, stored
  <2> QED
    BY <1>6, <2>2, <2>3 DEF RevertInv, stored
<1>7. CASE UNCHANGED vars
  BY <1>7 DEF vars, RevertInv, WorkerRestored, workerVars, stored
<1> QED
  BY <1>2, <1>3, <1>4, <1>5, <1>6, <1>7, ReconcileRevert, DeleteRevert, TickRevert DEF Next

\* No rollback has restored anything initially.
LEMMA InitRevert ==
  ASSUME Init
  PROVE  RevertInv
<1>1. \A C, u : RestoredIn(NewObject, C, u)
  BY DEF RestoredIn, NewObject, RestoreSet
<1> QED
  BY <1>1 DEF Init, RevertInv, WorkerRestored

\* The record of restored claims is true in every behaviour of an app with one
\* rollback.
LEMMA RecordTrue ==
  ASSUME OneRollback
  PROVE  Spec => [](IInv /\ RevertInv)
<1>1. Init => RevertInv
  BY InitRevert
<1>2. IInv /\ RevertInv /\ [Next]_vars => RevertInv'
  BY NextRevert
<1> QED
  BY <1>1, <1>2, Invariance, PTL DEF Spec

\* Git goes back to the old version only after every claim that the upgrade
\* took a snapshot of is bound again with that snapshot's data: through crashes,
\* failing calls, claims deleted and made again, snapshots pruned, evictions and
\* external resumes; for one rollback, as long as no stale object was read
\* (handleVolumeRestore before handleGitRevert).
THEOREM RevertsFollowRestores ==
  ASSUME OneRollback
  PROVE  Spec => []RevertAfterRestore
<1>1. IInv /\ RevertInv => RevertAfterRestore
  <2> SUFFICES ASSUME IInv, RevertInv, NEW r \in Rollbacks, obj[r].gitReverted, ~lagged,
                      NEW p \in Restores(r)
               PROVE  claims[p].state = "bound" /\ Holds(r, p)
    BY DEF RevertAfterRestore
  <2>1. obj[r].volumesRestored
    BY DEF IInv, StoredOK, Ordered
  <2>2. RestoredIn(obj[r], claims, upgrade[r]) /\ p \in RestoreSet(upgrade[r])
    BY DEF RevertInv, Restores, RestoreSet
  <2> QED
    BY <2>1, <2>2 DEF RestoredIn, Holds
<1> QED
  BY <1>1, RecordTrue, PTL

-----------------------------------------------------------------------------
(* Flux is suspended while a claim is missing.  The property is not          *)
(* inductive: a claim is deleted some steps after the suspension was         *)
(* verified, the resume relies on the record of restored claims, and a       *)
(* parent resumes Flux by itself unless handleSuspend has validated the      *)
(* target.                                                                   *)

\* Nobody but the controller, or a parent, resumes Flux.
NoResume == "resume" \notin Disturbances

\* Flux is suspended and no parent undoes that.
Held == suspended /\ ValidateSuspendTarget

\* The worker is about to delete or make a claim.
Restoring == pc \in {"next", "deleting"} \/ (pc = "update" /\ then = "next")

\* Unless the cache was ever behind: a missing claim is one to restore, and
\* Flux is held; a rollback past handleSuspend has a validated target.
MissingInv ==
  ~lagged =>
    /\ \A p \in PVCs : claims[p].state # "bound" =>
         Held /\ \E r \in Rollbacks : p \in RestoreSet(upgrade[r])
    /\ \A r \in Rollbacks : obj[r].suspended # "absent" => ValidateSuspendTarget
    /\ pc # "idle" /\ mem.suspended # "absent" => ValidateSuspendTarget
    /\ Restoring => Held

\* The spec of the app, and so the verdict on the target, does not change.
LEMMA SameTarget ==
  ASSUME WorldOK, [Next]_vars
  PROVE  ValidateSuspendTarget' <=> ValidateSuspendTarget
<1>1. app \in [spec : AppSpecs, current : Versions \cup {NoVersion},
               available : Versions \cup {NoVersion}]
  BY DEF WorldOK, ClusterTypeOK
<1>2. app'.spec = app.spec
  <2>1. CASE UNCHANGED app
    BY <2>1
  <2>2. ASSUME NEW v \in Versions, updateManagedAppStatus(v) PROVE app'.spec = app.spec
    BY <1>1, <2>2 DEF updateManagedAppStatus
  <2>3. CASE EnvironmentNext
    BY <2>1, <2>2, <2>3
       DEF EnvironmentNext, FluxApplyClaims, FluxApply, PodStartMounting, PodStart, PodReady,
           PodStop, SnapshotReady, ExternalResume, ClaimGone, ClaimBound, PruneSnapshot,
           clusterVars
  <2>4. CASE WorkerStep
    BY <2>4
       DEF WorkerStep, handleSuspend, handleStopWorkload, checkStopped, handleVolumeRestore,
           deleteClaim, RestorePVCFromSnapshot, awaitBound, handleGitRevert, commitFile,
           handleReconciling, checkReconciled, handleHealthChecking, handleCompleted,
           statusUpdate, removeFinalizer, clusterVars
  <2> QED
    BY <2>1, <2>3, <2>4
       DEF Next, Reconcile, Crash, Delete, Sync, DeleteUpgrade, Tick, clusterVars, vars
<1> QED
  BY <1>2 DEF ValidateSuspendTarget

\* Which claims are to be restored does not change.
LEMMA SameRestoreSets ==
  ASSUME WorldOK, [Next]_vars
  PROVE  \A r \in Rollbacks : RestoreSet(upgrade'[r]) = RestoreSet(upgrade[r])
<1>1. CASE UNCHANGED upgrade
  BY <1>1
<1>2. ASSUME NEW q \in Rollbacks, DeleteUpgrade(q)
      PROVE  \A r \in Rollbacks : RestoreSet(upgrade'[r]) = RestoreSet(upgrade[r])
  BY <1>2, DeleteUpgradeSame, SameUpgrade
<1>3. CASE WorkerStep
  <2>1. UNCHANGED upgrade
    BY <1>3
       DEF WorkerStep, handleSuspend, handleStopWorkload, checkStopped, handleVolumeRestore,
           deleteClaim, RestorePVCFromSnapshot, awaitBound, handleGitRevert, commitFile,
           handleReconciling, checkReconciled, handleHealthChecking, handleCompleted,
           statusUpdate, removeFinalizer
  <2> QED
    BY <1>1, <2>1
<1> QED
  BY <1>1, <1>2, <1>3 DEF Next, Reconcile, Crash, Delete, Sync, Tick, vars

\* A step that keeps Flux suspended, or happens while no claim is missing.
LEMMA KeepMissing ==
  ASSUME WorldOK, [Next]_vars, MissingInv, lagged => lagged',
         ~lagged' =>
           /\ \A p \in PVCs : claims'[p].state # "bound" =>
                \/ claims[p].state # "bound"
                \/ Held /\ \E r \in Rollbacks : p \in RestoreSet(upgrade[r])
           /\ \/ suspended => suspended'
              \/ ~Restoring' /\ \A p \in PVCs : claims'[p].state = "bound"
           /\ \A r \in Rollbacks : obj'[r].suspended # "absent" => ValidateSuspendTarget
           /\ pc' # "idle" /\ mem'.suspended # "absent" => ValidateSuspendTarget
           /\ Restoring' => Held
  PROVE  MissingInv'
<1> SUFFICES ASSUME ~lagged' PROVE MissingInv'
  BY DEF MissingInv
<1>1. /\ ValidateSuspendTarget' <=> ValidateSuspendTarget
      /\ \A r \in Rollbacks : RestoreSet(upgrade'[r]) = RestoreSet(upgrade[r])
  BY SameTarget, SameRestoreSets
<1>2. ASSUME NEW p \in PVCs, claims'[p].state # "bound"
      PROVE  Held' /\ \E r \in Rollbacks : p \in RestoreSet(upgrade'[r])
  <2>1. Held /\ \E r \in Rollbacks : p \in RestoreSet(upgrade[r])
    BY <1>2 DEF MissingInv
  <2> QED
    BY <1>1, <1>2, <2>1 DEF Held
<1>3. Restoring' => Held'
  BY <1>1 DEF Held
<1>4. /\ \A r \in Rollbacks : obj'[r].suspended # "absent" => ValidateSuspendTarget'
      /\ pc' # "idle" /\ mem'.suspended # "absent" => ValidateSuspendTarget'
  BY <1>1
<1> QED
  BY <1>2, <1>3, <1>4 DEF MissingInv

\* handleSuspend suspends Flux, and goes on only with a validated target.
LEMMA SuspendMissing ==
  ASSUME IInv, MissingInv, [Next]_vars, handleSuspend
  PROVE  MissingInv'
<1> DEFINE m == [mem EXCEPT !.suspended = "true",
                            !.volumesRestored = @ \/ ToRestore = {}]
<1>1. /\ WorldOK /\ mem \in Object /\ pc # "idle" /\ UNCHANGED <<stored, claims>>
      /\ suspended => suspended'
  <2>1. suspended \in BOOLEAN
    BY DEF IInv, WorldOK, ClusterTypeOK
  <2>2. suspended' \in {suspended, TRUE}
    BY <2>1, SuspendFlag DEF handleSuspend
  <2> QED
    BY <2>1, <2>2 DEF IInv, WorkerClose, handleSuspend, At
<1>2. CASE \/ Fail(mem, 1) \/ Fail(mem, 0) \/ setFailed(mem, "UpgradeInProgress", 0)
  <2>1. mem'.suspended = mem.suspended /\ ~Restoring'
    BY <1>1, <1>2, FailCopies DEF Fail, Restoring
  <2> QED
    BY <1>1, <2>1, KeepMissing DEF MissingInv, stored
<1>3. CASE WriteStatus(m, "return") /\ ValidateSuspendTarget
  <2>1. ~Restoring'
    BY <1>3 DEF WriteStatus, Restoring
  <2> QED
    BY <1>1, <1>3, <2>1, KeepMissing DEF MissingInv, stored
<1> QED
  BY <1>2, <1>3 DEF handleSuspend, m, runRollbackPreflight

\* Flux is resumed when every claim is bound.
LEMMA ReconcilingMissing ==
  ASSUME OneRollback, IInv, RevertInv, MissingInv, [Next]_vars, handleReconciling
  PROVE  MissingInv'
<1> DEFINE m == setPhaseStartIfNeeded(mem)
           resumed == [m EXCEPT !.suspended = "false"]
<1>1. /\ WorldOK /\ mem \in Object /\ pc # "idle" /\ cur \in Rollbacks
      /\ UNCHANGED <<stored, claims, upgrade>> /\ mem = base /\ Ordered(mem)
      /\ Phase(mem) = "reconcile"
  BY RunStage DEF IInv, handleReconciling, At
<1>2. m \in Object
  BY <1>1, TimerType
<1> HIDE DEF m
<1>3. mem.suspended # "absent" /\ mem.volumesRestored
  BY <1>1 DEF Phase
<1>4. ~Restoring'
  <2>1. CASE \E n \in {0, 1} : Fail(m, n)
    BY <1>2, <2>1, FailCopies DEF Fail, Restoring
  <2>2. CASE WriteStatus(resumed, "resumed")
    BY <2>2 DEF WriteStatus, Restoring
  <2> QED
    BY <2>1, <2>2 DEF handleReconciling, m
<1>5. ASSUME ~lagged PROVE \A p \in PVCs : claims[p].state = "bound"
  <2> SUFFICES ASSUME NEW p \in PVCs, claims[p].state # "bound" PROVE FALSE
    OBVIOUS
  <2>1. p \in RestoreSet(upgrade[cur])
    BY <1>1, <1>5 DEF MissingInv, OneRollback
  <2>2. RestoredIn(mem, claims, upgrade[cur])
    BY <1>1, <1>5 DEF RevertInv, WorkerRestored
  <2> QED
    BY <1>3, <2>1, <2>2 DEF RestoredIn
<1> QED
  BY <1>1, <1>3, <1>4, <1>5, KeepMissing DEF MissingInv, stored

\* The claims are taken up when Flux is found suspended.
LEMMA RestoreMissing ==
  ASSUME KustomizationCurrent, IInv, MissingInv, [Next]_vars, handleVolumeRestore
  PROVE  MissingInv'
<1> DEFINE m == setPhaseStartIfNeeded(mem)
<1>1. /\ WorldOK /\ WorkerClose /\ mem \in Object /\ pc # "idle"
      /\ UNCHANGED <<stored, claims, suspended>>
      /\ mem.suspended # "absent"
  BY DEF IInv, WorkerClose, handleVolumeRestore, At, Phase, clusterVars
<1>2. m \in Object
  BY <1>1, TimerType
<1> HIDE DEF m
<1>3. CASE \E n \in {0, 1} : Fail(m, n)
  <2>1. ~Restoring'
    BY <1>2, <1>3, FailCopies DEF Fail, Restoring
  <2> QED
    BY <1>1, <2>1, KeepMissing DEF MissingInv, stored
<1>4. CASE VerifyStillSuspended(TRUE) /\ mem' = m
  <2>1. ~lagged => Held
    BY <1>1, <1>4, CurrentFlag DEF MissingInv, Held, WorldOK, ClusterTypeOK
  <2> QED
    BY <1>1, <2>1, KeepMissing DEF MissingInv, stored
<1> QED
  BY <1>3, <1>4 DEF handleVolumeRestore, m

\* A claim that is deleted or made anew is one to restore, and Flux is held.
LEMMA ClaimMissing ==
  ASSUME IInv, MissingInv, [Next]_vars,
         deleteClaim \/ RestorePVCFromSnapshot \/ awaitBound
  PROVE  MissingInv'
<1>1. /\ WorldOK /\ mem \in Object /\ pc # "idle" /\ cur \in Rollbacks
      /\ pc \in {"next", "deleting"} /\ UNCHANGED <<stored, suspended>>
      /\ mem.suspended # "absent"
  <2>1. /\ WorldOK /\ WorkerClose /\ pc \in {"next", "deleting"}
        /\ UNCHANGED <<stored, suspended>>
    BY DEF IInv, deleteClaim, RestorePVCFromSnapshot, awaitBound, clusterVars
  <2>2. mem \in Object /\ Stage(mem) = "restore" /\ cur \in Rollbacks
    BY <2>1, RestoringStage
  <2>3. mem.suspended # "absent"
    BY <2>2, StagePhase DEF Phase
  <2> QED
    BY <2>1, <2>2, <2>3
<1>2. ~lagged => Held
  BY <1>1 DEF MissingInv, Restoring
<1>3. \A p \in PVCs : claims'[p].state # "bound" =>
        claims[p].state # "bound" \/ p \in RestoreSet(upgrade[cur])
  <2>1. CASE UNCHANGED claims
    BY <2>1
  <2>2. ASSUME NEW p \in Unrestored(mem), DeletePVC(p)
        PROVE  \A q \in PVCs : claims'[q].state # "bound" =>
                 claims[q].state # "bound" \/ q \in RestoreSet(upgrade[cur])
    BY <1>1, <2>2, UnrestoredIn DEF DeletePVC, WorldOK
  <2>3. ASSUME NEW p \in Unrestored(mem),
               claims' = [claims EXCEPT ![p] = NewClaim(Up.pvcSnapshots[p])]
        PROVE  \A q \in PVCs : claims'[q].state # "bound" =>
                 claims[q].state # "bound" \/ q \in RestoreSet(upgrade[cur])
    BY <1>1, <2>3, UnrestoredIn DEF WorldOK
  <2> QED
    BY <2>1, <2>2, <2>3 DEF deleteClaim, RestorePVCFromSnapshot, awaitBound
<1> QED
  BY <1>1, <1>2, <1>3, KeepMissing DEF MissingInv, stored, Held

\* The other handlers.
LEMMA HandlerMissing ==
  ASSUME IInv, MissingInv, [Next]_vars,
         \/ handleStopWorkload \/ checkStopped \/ handleGitRevert \/ commitFile
         \/ checkReconciled \/ handleHealthChecking \/ handleCompleted
  PROVE  MissingInv'
<1>1. WorldOK /\ WorkerClose /\ mem \in Object
  BY DEF IInv, WorkerClose
<1>2. /\ pc # "idle" /\ UNCHANGED <<stored, claims, upgrade>>
      /\ \/ Return
         \/ mem'.suspended = mem.suspended
         \/ mem.suspended # "absent"
  BY <1>1, HandlerCopies
<1>3. UNCHANGED suspended
  BY DEF handleStopWorkload, checkStopped, handleGitRevert, commitFile, checkReconciled,
         handleHealthChecking, handleCompleted, clusterVars, fluxVars
<1>4. ~Restoring'
  BY DEF handleStopWorkload, checkStopped, handleGitRevert, commitFile, checkReconciled,
         handleHealthChecking, handleCompleted, Fail, setFailed, WriteStatus, Return, Restoring
<1> QED
  BY <1>1, <1>2, <1>3, <1>4, KeepMissing DEF MissingInv, stored, Return

\* Writes, deletions and the passing of time.
LEMMA StoreMissing ==
  ASSUME IInv, RevertInv, MissingInv, [Next]_vars,
         \/ \E r \in Rollbacks : Reconcile(r) \/ Delete(r) \/ Sync(r) \/ DeleteUpgrade(r)
         \/ statusUpdate \/ removeFinalizer \/ Tick \/ Crash
  PROVE  MissingInv'
<1>1. /\ WorldOK /\ mem \in Object /\ \A r \in Rollbacks : obj[r] \in Object
      /\ pc # "idle" => cur \in Rollbacks
      /\ obj \in [Rollbacks -> Object]
  BY DEF IInv, WorkerClose, StoredOK
<1>2. UNCHANGED <<claims, suspended>>
  BY DEF Reconcile, Delete, Sync, DeleteUpgrade, statusUpdate, removeFinalizer, Tick, Crash,
         clusterVars
<1>3. \A o \in Object : Older(o).suspended = o.suspended
  BY TimerType, Touching, TouchedCopied
<1>4. lagged => lagged'
  BY DEF Reconcile, Delete, Sync, DeleteUpgrade, statusUpdate, removeFinalizer, Tick, Crash,
         Store, stored
<1>5. ASSUME ~lagged'
      PROVE  /\ \A r \in Rollbacks : obj'[r].suspended # "absent" => ValidateSuspendTarget
             /\ pc' # "idle" /\ mem'.suspended # "absent" => ValidateSuspendTarget
             /\ Restoring' => Held
  <2>1. /\ \A r \in Rollbacks : obj[r].suspended # "absent" => ValidateSuspendTarget
        /\ pc # "idle" /\ mem.suspended # "absent" => ValidateSuspendTarget
        /\ Restoring => Held
    BY <1>4, <1>5 DEF MissingInv
  <2>2. ASSUME NEW r \in Rollbacks, Reconcile(r) \/ Delete(r) \/ Sync(r) \/ DeleteUpgrade(r)
        PROVE  /\ \A q \in Rollbacks : obj'[q].suspended # "absent" => ValidateSuspendTarget
               /\ pc' # "idle" /\ mem'.suspended # "absent" => ValidateSuspendTarget
               /\ Restoring' => Held
    <3>1. CASE Reconcile(r)
      <4>1. cache = obj
        BY <1>4, <1>5 DEF RevertInv
      <4>2. CASE UNCHANGED workerVars
        <5>1. \A q \in Rollbacks : obj'[q].suspended = obj[q].suspended
          <6> DEFINE d == [obj[r] EXCEPT !.finalizer = FALSE, !.life = "gone"]
                     f == [obj[r] EXCEPT !.finalizer = TRUE]
          <6>1. d.suspended = obj[r].suspended /\ f.suspended = obj[r].suspended
            BY <1>1 DEF Object
          <6>2. Store(r, d) \/ Store(r, f) \/ UNCHANGED stored
            BY <3>1 DEF Reconcile
          <6> HIDE DEF d, f
          <6> QED
            BY <1>1, <6>1, <6>2 DEF Store, stored
        <5> QED
          BY <2>1, <4>2, <5>1 DEF Restoring, workerVars
      <4>3. CASE pc' = "run" /\ mem' = cache[r] /\ UNCHANGED stored
        BY <2>1, <4>1, <4>3 DEF Restoring, stored
      <4> QED
        BY <3>1, <4>2, <4>3 DEF Reconcile
    <3>2. CASE Delete(r)
      BY <1>1, <2>1, <3>2 DEF Delete, Store, Object, Restoring, workerVars
    <3>3. CASE Sync(r) \/ DeleteUpgrade(r)
      BY <2>1, <3>3 DEF Sync, DeleteUpgrade, Restoring, workerVars, stored
    <3> QED
      BY <2>2, <3>1, <3>2, <3>3
  <2>3. CASE statusUpdate
    <3>1. \A r \in Rollbacks : obj'[r].suspended # "absent" => ValidateSuspendTarget
      BY <1>1, <2>1, <2>3 DEF statusUpdate, Store, stored
    <3>2. CASE Return
      BY <3>1, <3>2 DEF Return, Restoring
    <3>3. CASE then # "return" /\ pc' = then /\ UNCHANGED mem /\ pc = "update"
      <4>1. then \in {"run", "next", "resumed", "finalize"}
        BY <3>3 DEF IInv, WorkerClose
      <4> QED
        BY <2>1, <3>1, <3>3, <4>1 DEF Restoring
    <3> QED
      BY <2>3, <3>2, <3>3 DEF statusUpdate
  <2>4. CASE removeFinalizer
    BY <1>1, <2>1, <2>4 DEF removeFinalizer, Store, Return, Restoring, stored, Object
  <2>5. CASE Tick
    BY <1>1, <1>3, <2>1, <2>5 DEF Tick, Restoring
  <2>6. CASE Crash
    BY <2>1, <2>6 DEF Crash, Return, Restoring, stored
  <2> QED
    BY <2>2, <2>3, <2>4, <2>5, <2>6
<1> QED
  BY <1>1, <1>2, <1>4, <1>5, KeepMissing DEF MissingInv

\* No other actor takes a bound claim, or resumes Flux while it is held.
LEMMA EnvironmentMissing ==
  ASSUME NoResume, IInv, MissingInv, [Next]_vars, EnvironmentNext,
         UNCHANGED <<upgrade, stored, workerVars, faults>>
  PROVE  MissingInv'
<1>1. WorldOK /\ \A p \in PVCs : Kept(claims[p], claims'[p])
  BY EnvironmentKeeps DEF IInv
<1>2. \A p \in PVCs : claims'[p].state # "bound" => claims[p].state # "bound"
  BY <1>1 DEF Kept
<1>3. CASE ExternalResume /\ UNCHANGED claims
  <2>1. ~ValidateSuspendTarget
    BY <1>3 DEF ExternalResume, NoResume, ValidateSuspendTarget
  <2> QED
    BY <1>1, <1>3, <2>1, KeepMissing DEF MissingInv, Held, Restoring, stored, workerVars
<1>4. CASE UNCHANGED suspended
  BY <1>1, <1>2, <1>4, KeepMissing DEF MissingInv, Restoring, stored, workerVars
<1> QED
  BY <1>3, <1>4
     DEF EnvironmentNext, FluxApplyClaims, FluxApply, PodStartMounting, PodStart, PodReady,
         PodStop, SnapshotReady, updateManagedAppStatus, ClaimGone, ClaimBound, PruneSnapshot,
         clusterVars, fluxVars

\* Every step preserves the invariant.
LEMMA NextMissing ==
  ASSUME KustomizationCurrent, OneRollback, NoResume, IInv, RevertInv, MissingInv, [Next]_vars
  PROVE  MissingInv'
<1>1. CASE UNCHANGED vars
  BY <1>1, KeepMissing DEF vars, IInv, MissingInv, Restoring, stored, workerVars, clusterVars
<1> QED
  BY <1>1, SuspendMissing, ReconcilingMissing, RestoreMissing, ClaimMissing, HandlerMissing,
     StoreMissing, EnvironmentMissing DEF Next, WorkerStep

\* While a claim is missing or not bound yet Flux stays suspended, so that it
\* makes nothing in the claim's place: through every crash, failing call and
\* deletion, and with a suspendRef too, for one rollback, as long as nobody
\* resumes Flux by hand and nothing stale was read (handleReconciling comes
\* last, setFailed does not resume, ValidateSuspendTarget refuses a target that
\* a parent would resume).
THEOREM SuspendedUntilRestored ==
  ASSUME KustomizationCurrent, OneRollback, NoResume
  PROVE  Spec => []SuspendedWhileClaimsMissing
<1>1. Init => MissingInv
  BY DEF Init, MissingInv, NewObject, Restoring
<1>2. IInv /\ RevertInv /\ MissingInv /\ [Next]_vars => MissingInv'
  BY NextMissing
<1>3. MissingInv => SuspendedWhileClaimsMissing
  BY DEF MissingInv, Held, SuspendedWhileClaimsMissing
<1> QED
  BY <1>1, <1>2, <1>3, RecordTrue, PTL DEF Spec

-----------------------------------------------------------------------------
(* The failed version never opens restored data.  RestoredDataClean needs    *)
(* to know that the workloads are down from the moment they were stopped to  *)
(* the resume, and that the resume finds the old version in Git.             *)

\* No pod is evicted: a workload whose pod is being replaced is not found by
\* DiscoverWorkloadsForPVCs, and so is not stopped.
NoEvict == "evict" \notin Disturbances

\* What is suspended is the app's own Kustomization.  With a suspendRef Flux goes
\* on applying the app, and scales it up again.
OwnKustomization == \A s \in AppSpecs : ~s.suspendRef

\* The workload is scaled to 0 and has no pods.
Down(w) == w \notin replicas /\ pods[w] = "none"

\* Nothing has claim p mounted, and nothing will.
StoppedFor(p) == \A w \in Workloads : p \in Mounts[w] => Down(w)

\* That of all the claims that rollback r restores.
AllStopped(r) == \A p \in RestoreSet(upgrade[r]) : StoppedFor(p)

\* What a version o of an object says of the cluster as long as Git is not
\* reverted: held says that Flux is held, stopped that the workloads are down.
Guarded(o, held, stopped) ==
  ~o.gitReverted => /\ o.suspended # "absent" => held
                    /\ o.workloadStopped => stopped

\* Data from a snapshot: opened by the old version only; the app is down, or it
\* comes up from a Git that has the old version.
CleanClaim(r, p) ==
  Holds(r, p) =>
    /\ claims[p].opened \subseteq {upgrade[r].previousVersion}
    /\ \/ Held /\ StoppedFor(p)
       \/ /\ git = upgrade[r].previousVersion
          /\ StoppedFor(p) \/ applied = upgrade[r].previousVersion

\* The claims to restore are clean.
ClaimsClean == \A r \in Rollbacks : \A p \in RestoreSet(upgrade[r]) : CleanClaim(r, p)

\* What is stored and what is cached, which may be older, is true.
StoreGuarded ==
  \A r \in Rollbacks :
    /\ Guarded(obj[r], Held, AllStopped(r)) /\ Guarded(cache[r], Held, AllStopped(r))
    /\ cache[r].gitReverted => obj[r].gitReverted
    /\ obj[r].gitReverted => git = upgrade[r].previousVersion

\* Before the revert, what is not scaled down has pods, and is found; and
\* nothing is scaled down unless Flux is suspended.
PodsUp ==
  \A r \in Rollbacks : ValidateSuspendTarget /\ ~obj[r].gitReverted =>
    \A w \in Workloads : /\ w \in replicas => pods[w] # "none"
                         /\ w \notin replicas => suspended

\* Between handleStopWorkload and its check.
Scaled ==
  \A p \in RestoreSet(upgrade[cur]) : \A w \in Workloads : p \in Mounts[w] =>
    w \notin replicas /\ (w \in mem.scaling \/ pods[w] = "none")

\* The worker: what it read is true of the cluster, and what it is about to
\* write is, unless it read an object from before the revert; what it read as
\* reverted is seen as reverted by every later read.
WorkerGuarded ==
  pc # "idle" =>
    /\ Guarded(base, Held, AllStopped(cur))
    /\ base.gitReverted => cache[cur].gitReverted /\ mem.gitReverted
    /\ mem.gitReverted => /\ git = upgrade[cur].previousVersion
                          /\ base.gitReverted \/ (pc = "update" /\ then = "return")
    /\ ~obj[cur].gitReverted => /\ Guarded(mem, Held, AllStopped(cur))
                                /\ pc = "scaled" => Scaled

\* The inductive invariant.
DataInv == ClaimsClean /\ StoreGuarded /\ PodsUp /\ WorkerGuarded

\* What does not change of the upgrades.
SameUps ==
  \A r \in Rollbacks : /\ RestoreSet(upgrade'[r]) = RestoreSet(upgrade[r])
                       /\ upgrade'[r].pvcSnapshots = upgrade[r].pvcSnapshots
                       /\ upgrade'[r].previousVersion = upgrade[r].previousVersion

\* Every step leaves that alone.
LEMMA UpgradesSame ==
  ASSUME WorldOK, [Next]_vars
  PROVE  SameUps
<1>1. CASE UNCHANGED upgrade
  BY <1>1 DEF SameUps
<1>2. ASSUME NEW q \in Rollbacks, DeleteUpgrade(q)
      PROVE  SameUps
  <2> DEFINE u == [upgrade[q] EXCEPT !.gone = TRUE]
  <2>1. upgrade[q] \in UpgradeView /\ upgrade' = [upgrade EXCEPT ![q] = u]
    BY <1>2 DEF DeleteUpgrade, WorldOK
  <2>2. u.previousVersion = upgrade[q].previousVersion
    BY <2>1 DEF UpgradeView
  <2> HIDE DEF u
  <2>3. \A r \in Rollbacks : upgrade'[r].previousVersion = upgrade[r].previousVersion
    BY <2>1, <2>2 DEF WorldOK
  <2> QED
    BY <1>2, <2>3, DeleteUpgradeSame, SameRestoreSets DEF SameUps
<1>3. CASE WorkerStep
  <2>1. UNCHANGED upgrade
    BY <1>3
       DEF WorkerStep, handleSuspend, handleStopWorkload, checkStopped, handleVolumeRestore,
           deleteClaim, RestorePVCFromSnapshot, awaitBound, handleGitRevert, commitFile,
           handleReconciling, checkReconciled, handleHealthChecking, handleCompleted,
           statusUpdate, removeFinalizer
  <2> QED
    BY <1>1, <2>1
<1> QED
  BY <1>1, <1>2, <1>3 DEF Next, Reconcile, Crash, Delete, Sync, Tick, vars

\* A workload that is scaled down, or down, stays so.
StaysDown(w) == (w \notin replicas => w \notin replicas') /\ (Down(w) => Down(w)')

\* What is held stays held, and what is down then stays down.
HeldStays == Held => Held' /\ \A w \in Workloads : StaysDown(w)

\* So what is stopped for a claim, or for a rollback, stays stopped.
LEMMA StoppedStays ==
  ASSUME HeldStays, SameUps, Held
  PROVE  /\ Held' /\ \A p : StoppedFor(p) => StoppedFor(p)'
         /\ \A r \in Rollbacks : AllStopped(r) => AllStopped(r)'
<1>1. Held' /\ \A w \in Workloads : Down(w) => Down(w)'
  BY DEF HeldStays, StaysDown
<1>2. \A p : StoppedFor(p) => StoppedFor(p)'
  BY <1>1 DEF StoppedFor
<1>3. \A r \in Rollbacks : AllStopped(r) => AllStopped(r)'
  BY <1>2 DEF AllStopped, SameUps
<1> QED
  BY <1>1, <1>2, <1>3

\* No other actor ends that.
LEMMA EnvironmentHeld ==
  ASSUME NoResume, OwnKustomization, WorldOK, [Next]_vars, EnvironmentNext
  PROVE  HeldStays
<1> SUFFICES ASSUME Held PROVE Held' /\ \A w \in Workloads : StaysDown(w)
  BY DEF HeldStays
<1>1. /\ suspended /\ ValidateSuspendTarget /\ ValidateSuspendTarget' /\ AppSuspended
      /\ pods \in [Workloads -> PodStates]
  <2>1. app.spec \in AppSpecs /\ pods \in [Workloads -> PodStates]
    BY DEF WorldOK, ClusterTypeOK
  <2> QED
    BY <2>1, SameTarget DEF Held, OwnKustomization, AppSuspended
<1>2. CASE UNCHANGED <<suspended, replicas, pods>>
  BY <1>1, <1>2 DEF Held, Down, StaysDown
<1>3. ~ExternalResume
  BY <1>1 DEF ExternalResume, NoResume, ValidateSuspendTarget
<1>4. ASSUME NEW w \in Workloads, PodStart(w) \/ PodReady(w) \/ PodStop(w)
      PROVE  Held' /\ \A q \in Workloads : StaysDown(q)
  BY <1>1, <1>4 DEF PodStart, PodReady, PodStop, Held, Down, StaysDown, fluxVars
<1>5. \A ok \in BOOLEAN : ~FluxApply(ok)
  BY <1>1 DEF FluxApply
<1> QED
  BY <1>2, <1>3, <1>4, <1>5
     DEF EnvironmentNext, FluxApplyClaims, PodStartMounting, SnapshotReady,
         updateManagedAppStatus, ClaimGone, ClaimBound, PruneSnapshot, clusterVars, fluxVars,
         workloadVars

\* A claim that keeps its data and is not opened stays clean, also when Git is
\* reverted, and when Flux is resumed after that.
LEMMA CleanKept ==
  ASSUME SameUps, NEW r \in Rollbacks, NEW p, CleanClaim(r, p),
         claims'[p].data = claims[p].data, claims'[p].opened = claims[p].opened,
         applied' = applied, git' \in {git, upgrade[r].previousVersion},
         StoppedFor(p) => StoppedFor(p)',
         (Held => Held') \/ git = upgrade[r].previousVersion
  PROVE  CleanClaim(r, p)'
  BY DEF CleanClaim, SameUps, Holds

\* Other actors open such data only as the old version.
LEMMA EnvironmentOpens ==
  ASSUME NoResume, OwnKustomization, IInv, [Next]_vars, EnvironmentNext, UNCHANGED upgrade,
         NEW r \in Rollbacks, NEW p \in RestoreSet(upgrade[r]), CleanClaim(r, p)
  PROVE  CleanClaim(r, p)'
<1>1. WorldOK /\ SameUps /\ HeldStays
  BY UpgradesSame, EnvironmentHeld DEF IInv
<1>2. /\ claims \in [PVCs -> Claim] /\ \A q \in PVCs : claims[q] \in Claim
      /\ pods \in [Workloads -> PodStates] /\ app.spec \in AppSpecs
      /\ upgrade[r] \in UpgradeView
  BY <1>1 DEF WorldOK, ClusterTypeOK
<1>3. /\ CleanClaim(r, p) /\ p \in PVCs /\ upgrade[r].pvcSnapshots[p] \in 1..MaxSnaps
  <2>1. upgrade[r].pvcSnapshots \in [PVCs -> 0..MaxSnaps]
    BY <1>2 DEF UpgradeView
  <2> QED
    BY <2>1, ClusterAssumption DEF RestoreSet
<1>4. ASSUME NEW ok \in BOOLEAN, FluxApplyClaims(ok) PROVE CleanClaim(r, p)'
  <2>1. ~Held /\ git' = git /\ applied' = git
    BY <1>2, <1>4 DEF FluxApplyClaims, FluxApply, AppSuspended, Held, OwnKustomization
  <2>2. SUFFICES ASSUME Holds(r, p)' PROVE CleanClaim(r, p)'
    BY DEF CleanClaim
  <2>3. Holds(r, p) /\ claims'[p].opened \in {claims[p].opened, claims[p].opened \cup {git}}
    <3>1. claims'[p] = IF claims[p].state = "absent" THEN NewClaim(Blank)
                       ELSE IF applied # git /\ Mounted(p)
                            THEN [claims[p] EXCEPT !.opened = @ \cup {git}] ELSE claims[p]
      BY <1>3, <1>4 DEF FluxApplyClaims
    <3>2. claims'[p].data = upgrade[r].pvcSnapshots[p]
      BY <2>2 DEF Holds
    <3>3. claims[p].state # "absent"
      BY <1>3, <3>1, <3>2, ClusterAssumption DEF NewClaim, Blank
    <3> QED
      BY <1>2, <1>3, <3>1, <3>2, <3>3 DEF Claim, Holds
  <2>4. /\ git = upgrade[r].previousVersion
        /\ claims[p].opened \subseteq {upgrade[r].previousVersion}
    BY <1>3, <2>1, <2>3 DEF CleanClaim
  <2> QED
    BY <2>1, <2>3, <2>4 DEF CleanClaim
<1>5. ASSUME NEW w \in Workloads, PodStartMounting(w) PROVE CleanClaim(r, p)'
  <2>1. /\ UNCHANGED <<suspended, ready, applied, replicas, git, app>> /\ w \in replicas
        /\ pods' = [pods EXCEPT ![w] = "unready"]
    BY <1>5 DEF PodStartMounting, PodStart, fluxVars
  <2>2. StoppedFor(p) => StoppedFor(p)'
    BY <1>2, <2>1 DEF StoppedFor, Down
  <2>3. (Held <=> Held') /\ claims'[p].data = claims[p].data
    BY <1>2, <1>3, <1>5, <2>1
    DEF Held, ValidateSuspendTarget, PodStartMounting, Open, Claim
  <2>4. CASE p \notin Mounts[w]
    <3>1. claims'[p] = claims[p]
      BY <1>3, <1>5, <2>4 DEF PodStartMounting, Open
    <3> QED
      BY <1>1, <1>3, <2>1, <2>2, <2>3, <3>1, CleanKept
  <2>5. CASE p \in Mounts[w]
    <3>1. claims'[p].opened = claims[p].opened \cup {applied}
      BY <1>2, <1>3, <1>5, <2>5 DEF PodStartMounting, Open, Claim
    <3>2. ~StoppedFor(p)
      BY <2>1, <2>5 DEF StoppedFor, Down
    <3> QED
      BY <1>3, <2>1, <2>3, <3>1, <3>2 DEF CleanClaim, Holds
  <2> QED
    BY <2>4, <2>5
<1>6. CASE /\ UNCHANGED <<applied, git>> /\ claims'[p].data = claims[p].data
           /\ claims'[p].opened = claims[p].opened
           /\ StoppedFor(p) => StoppedFor(p)'
  <2>1. Held => Held'
    BY <1>1 DEF HeldStays
  <2> QED
    BY <1>1, <1>3, <1>6, <2>1, CleanKept
<1>7. ASSUME NEW w \in Workloads, PodReady(w) \/ PodStop(w), UNCHANGED claims
      PROVE  CleanClaim(r, p)'
  BY <1>2, <1>6, <1>7 DEF PodReady, PodStop, fluxVars, StoppedFor, Down
<1>8. ASSUME NEW q \in PVCs, ClaimGone(q) \/ ClaimBound(q) PROVE CleanClaim(r, p)'
  <2>1. claims'[p].data = claims[p].data /\ claims'[p].opened = claims[p].opened
    BY <1>2, <1>3, <1>8 DEF ClaimGone, ClaimBound, Claim
  <2> QED
    BY <1>6, <1>8, <2>1 DEF ClaimGone, ClaimBound, clusterVars, StoppedFor, Down
<1>9. CASE UNCHANGED <<applied, git, claims, replicas, pods>>
  BY <1>6, <1>9 DEF StoppedFor, Down
<1> QED
  BY <1>4, <1>5, <1>7, <1>8, <1>9
     DEF EnvironmentNext, SnapshotReady, ExternalResume, updateManagedAppStatus, PruneSnapshot,
         fluxVars, workloadVars

\* So the claims to restore stay clean.
LEMMA EnvironmentClean ==
  ASSUME NoResume, OwnKustomization, IInv, [Next]_vars, EnvironmentNext, UNCHANGED upgrade,
         ClaimsClean
  PROVE  ClaimsClean'
<1>1. \A r \in Rollbacks : \A p \in RestoreSet(upgrade[r]) : CleanClaim(r, p)'
  BY EnvironmentOpens DEF ClaimsClean
<1> QED
  BY <1>1, UpgradesSame DEF ClaimsClean, SameUps, IInv

\* Other actors start what is scaled up, and stop what is scaled down.
LEMMA EnvironmentPods ==
  ASSUME NoResume, NoEvict, OwnKustomization, IInv, [Next]_vars, EnvironmentNext, UNCHANGED obj,
         PodsUp
  PROVE  PodsUp'
<1>1. /\ pods \in [Workloads -> PodStates] /\ app.spec \in AppSpecs
      /\ ValidateSuspendTarget' <=> ValidateSuspendTarget
  BY SameTarget DEF IInv, WorldOK, ClusterTypeOK
<1> SUFFICES ASSUME NEW r \in Rollbacks, ValidateSuspendTarget, NEW w \in Workloads,
                    w \in replicas => pods[w] # "none", w \notin replicas => suspended
             PROVE  /\ w \in replicas' => pods'[w] # "none"
                    /\ w \notin replicas' => suspended'
  BY <1>1 DEF PodsUp
<1>2. ASSUME NEW ok \in BOOLEAN, FluxApplyClaims(ok)
      PROVE  /\ w \in replicas' => pods'[w] # "none"
             /\ w \notin replicas' => suspended'
  <2>1. ~suspended /\ w \in replicas /\ pods[w] # "none"
    BY <1>1, <1>2 DEF FluxApplyClaims, FluxApply, AppSuspended, OwnKustomization
  <2> QED
    BY <1>2, <2>1 DEF FluxApplyClaims, FluxApply
<1>3. ASSUME NEW q \in Workloads, PodStart(q) \/ PodReady(q) \/ PodStop(q)
      PROVE  /\ w \in replicas' => pods'[w] # "none"
             /\ w \notin replicas' => suspended'
  BY <1>1, <1>3 DEF PodStart, PodReady, PodStop, fluxVars, NoEvict
<1>4. ~ExternalResume
  BY DEF ExternalResume, NoResume, ValidateSuspendTarget
<1>5. CASE UNCHANGED <<suspended, replicas, pods>>
  BY <1>5
<1> QED
  BY <1>2, <1>3, <1>4, <1>5
     DEF EnvironmentNext, PodStartMounting, SnapshotReady, updateManagedAppStatus, ClaimGone,
         ClaimBound, PruneSnapshot, clusterVars, fluxVars, workloadVars

\* What q says of a rollback's progress is what o says.
SameMarks(o, q) ==
  /\ q.suspended = o.suspended /\ q.workloadStopped = o.workloadStopped
  /\ q.gitReverted = o.gitReverted

\* Touching an object leaves that alone.
LEMMA TouchedMarks ==
  ASSUME NEW o \in Object, NEW q, Touched(o, q)
  PROVE  SameMarks(o, q)
  BY DEF Touched, SameMarks, Object

\* Objects that are not written but for their timers, finalizers and lives, and
\* a cache that may catch up, while what is held stays held.
LEMMA StoreKept ==
  ASSUME IInv, SameUps, HeldStays, StoreGuarded,
         \A r \in Rollbacks :
           /\ git' \in {git, upgrade[r].previousVersion}
           /\ SameMarks(obj[r], obj'[r])
           /\ SameMarks(cache[r], cache'[r]) \/ SameMarks(obj[r], cache'[r])
  PROVE  StoreGuarded'
<1> SUFFICES ASSUME NEW r \in Rollbacks
             PROVE  /\ Guarded(obj'[r], Held', AllStopped(r)')
                    /\ Guarded(cache'[r], Held', AllStopped(r)')
                    /\ cache'[r].gitReverted => obj'[r].gitReverted
                    /\ obj'[r].gitReverted => git' = upgrade'[r].previousVersion
  BY DEF StoreGuarded
<1>1. /\ Guarded(obj[r], Held, AllStopped(r)) /\ Guarded(cache[r], Held, AllStopped(r))
      /\ cache[r].gitReverted => obj[r].gitReverted
      /\ obj[r].gitReverted => git = upgrade[r].previousVersion
  BY DEF StoreGuarded
<1>2. Held => Held' /\ (AllStopped(r) => AllStopped(r)')
  BY StoppedStays
<1>3. /\ obj[r].workloadStopped => obj[r].suspended # "absent"
      /\ cache[r].workloadStopped => cache[r].suspended # "absent"
  BY DEF IInv, StoredOK, Ordered
<1>4. Guarded(obj'[r], Held', AllStopped(r)') /\ Guarded(cache'[r], Held', AllStopped(r)')
  BY <1>1, <1>2, <1>3 DEF Guarded, SameMarks
<1> QED
  BY <1>1, <1>4 DEF SameMarks, SameUps

\* The same of the worker, when it goes on with a copy that says the same.
LEMMA WorkerKept ==
  ASSUME IInv, SameUps, HeldStays, WorkerGuarded,
         pc = "idle" => pc' = "idle",
         pc # "idle" =>
           /\ cur' = cur /\ SameMarks(base, base') /\ SameMarks(mem, mem')
           /\ git' \in {git, upgrade[cur].previousVersion}
           /\ obj'[cur].gitReverted = obj[cur].gitReverted
           /\ cache[cur].gitReverted => cache'[cur].gitReverted
           /\ pc' = "scaled" => pc = "scaled" /\ mem'.scaling = mem.scaling
           /\ pc = "update" /\ then = "return" => pc' = "update" /\ then' = "return"
  PROVE  WorkerGuarded'
<1> SUFFICES ASSUME pc' # "idle" PROVE WorkerGuarded'
  BY DEF WorkerGuarded
<1>1. /\ pc # "idle" /\ cur' = cur /\ cur \in Rollbacks
      /\ SameMarks(base, base') /\ SameMarks(mem, mem')
  BY DEF IInv, WorkerClose
<1>2. Held => Held' /\ (AllStopped(cur) => AllStopped(cur)')
  BY <1>1, StoppedStays DEF AllStopped, SameUps
<1>3. /\ base.workloadStopped => base.suspended # "absent"
      /\ mem.workloadStopped => mem.suspended # "absent"
  BY DEF IInv, WorkerClose, Ordered
<1>4. /\ Guarded(base', Held', AllStopped(cur)')
      /\ ~obj[cur].gitReverted => Guarded(mem', Held', AllStopped(cur)')
  BY <1>1, <1>2, <1>3 DEF WorkerGuarded, Guarded, SameMarks
<1>5. ASSUME ~obj[cur].gitReverted, pc' = "scaled" PROVE Scaled'
  <2>1. pc = "scaled" /\ mem'.scaling = mem.scaling /\ Scaled
    BY <1>1, <1>5 DEF WorkerGuarded
  <2>2. Held
    <3>1. base \in Object /\ Stage(base) = "stop" /\ Ordered(base)
      BY <2>1 DEF IInv, WorkerClose
    <3>2. base.suspended # "absent" /\ ~base.gitReverted
      BY <3>1, StagePhase DEF Phase, Ordered, Object
    <3> QED
      BY <1>1, <3>2 DEF WorkerGuarded, Guarded
  <2>3. \A w \in Workloads : StaysDown(w)
    BY <2>2 DEF HeldStays
  <2> QED
    BY <1>1, <2>1, <2>3 DEF Scaled, StaysDown, Down, SameUps
<1> QED
  BY <1>1, <1>4, <1>5 DEF WorkerGuarded, SameMarks, SameUps

\* The other actors.
LEMMA EnvironmentData ==
  ASSUME NoResume, NoEvict, OwnKustomization, IInv, DataInv, [Next]_vars, EnvironmentNext,
         UNCHANGED <<upgrade, stored, workerVars, faults>>
  PROVE  DataInv'
<1>1. SameUps /\ HeldStays
  BY UpgradesSame, EnvironmentHeld DEF IInv
<1>2. UNCHANGED git
  BY DEF EnvironmentNext, FluxApplyClaims, FluxApply, PodStartMounting, PodStart, PodReady,
         PodStop, SnapshotReady, ExternalResume, updateManagedAppStatus, ClaimGone, ClaimBound,
         PruneSnapshot, clusterVars
<1>3. \A o : SameMarks(o, o)
  BY DEF SameMarks
<1>4. ClaimsClean' /\ PodsUp'
  BY EnvironmentClean, EnvironmentPods DEF DataInv, stored
<1>5. StoreGuarded'
  BY <1>1, <1>2, <1>3, StoreKept DEF DataInv, stored
<1>6. WorkerGuarded'
  BY <1>1, <1>2, <1>3, WorkerKept DEF DataInv, stored, workerVars
<1> QED
  BY <1>4, <1>5, <1>6 DEF DataInv

\* A step that leaves the cluster alone.
LEMMA StillClean ==
  ASSUME WorldOK, [Next]_vars, UNCHANGED <<clusterVars, claims>>, ClaimsClean, PodsUp,
         \A r \in Rollbacks : obj[r].gitReverted => obj'[r].gitReverted
  PROVE  ClaimsClean' /\ PodsUp' /\ HeldStays /\ SameUps
<1>1. SameUps
  BY UpgradesSame
<1>2. UNCHANGED <<suspended, applied, replicas, pods, git, app, claims>>
  BY DEF clusterVars
<1>3. (Held' <=> Held) /\ \A w : Down(w)' <=> Down(w)
  BY <1>2 DEF Held, ValidateSuspendTarget, Down
<1>4. HeldStays
  BY <1>2, <1>3 DEF HeldStays, StaysDown
<1>5. \A p : StoppedFor(p)' <=> StoppedFor(p)
  BY <1>3 DEF StoppedFor
<1>6. ClaimsClean'
  BY <1>1, <1>2, <1>3, <1>5 DEF ClaimsClean, CleanClaim, Holds, SameUps
<1>7. PodsUp'
  BY <1>2 DEF PodsUp, ValidateSuspendTarget
<1> QED
  BY <1>1, <1>4, <1>6, <1>7

\* Timers, finalizers, lives, the watch: nothing is said that was not said.
LEMMA TouchedData ==
  ASSUME IInv, DataInv, [Next]_vars, UNCHANGED <<clusterVars, claims>>,
         \A r \in Rollbacks :
           /\ SameMarks(obj[r], obj'[r])
           /\ SameMarks(cache[r], cache'[r]) \/ SameMarks(obj[r], cache'[r]),
         \/ Return
         \/ /\ UNCHANGED <<pc, cur, then>> /\ mem'.scaling = mem.scaling
            /\ SameMarks(base, base') /\ SameMarks(mem, mem')
  PROVE  DataInv'
<1>1. ClaimsClean' /\ PodsUp' /\ HeldStays /\ SameUps /\ UNCHANGED git
  BY StillClean DEF IInv, DataInv, SameMarks, clusterVars
<1>2. StoreGuarded'
  BY <1>1, StoreKept DEF DataInv
<1>3. WorkerGuarded'
  <2>1. CASE Return
    BY <2>1 DEF Return, WorkerGuarded
  <2>2. CASE /\ UNCHANGED <<pc, cur, then>> /\ mem'.scaling = mem.scaling
             /\ SameMarks(base, base') /\ SameMarks(mem, mem')
    <3>1. ASSUME pc # "idle"
          PROVE  /\ obj'[cur].gitReverted = obj[cur].gitReverted
                 /\ cache[cur].gitReverted => cache'[cur].gitReverted
      <4>1. cur \in Rollbacks
        BY <3>1 DEF IInv, WorkerClose
      <4> QED
        BY <4>1 DEF DataInv, StoreGuarded, SameMarks
    <3> QED
      BY <1>1, <2>2, <3>1, WorkerKept DEF DataInv
  <2> QED
    BY <2>1, <2>2
<1> QED
  BY <1>1, <1>2, <1>3 DEF DataInv

\* A write of an object that says what the stored one says.
LEMMA StoreMarks ==
  ASSUME IInv, NEW r \in Rollbacks, NEW o \in Object, Store(r, o), SameMarks(obj[r], o)
  PROVE  \A q \in Rollbacks :
           /\ SameMarks(obj[q], obj'[q])
           /\ SameMarks(cache[q], cache'[q]) \/ SameMarks(obj[q], cache'[q])
<1>1. /\ obj \in [Rollbacks -> Object] /\ cache \in [Rollbacks -> Object]
      /\ \A q : SameMarks(q, q)
  BY DEF IInv, StoredOK, SameMarks
<1> QED
  BY <1>1 DEF Store

\* The steps of that kind.
LEMMA StoreData ==
  ASSUME IInv, DataInv, [Next]_vars,
         \/ \E r \in Rollbacks : \/ Reconcile(r) /\ UNCHANGED workerVars
                                 \/ Delete(r) \/ Sync(r) \/ DeleteUpgrade(r)
         \/ removeFinalizer \/ Tick \/ Crash \/ UNCHANGED vars
  PROVE  DataInv'
<1>1. /\ \A r \in Rollbacks : obj[r] \in Object /\ cache[r] \in Object
      /\ obj \in [Rollbacks -> Object] /\ cache \in [Rollbacks -> Object]
      /\ mem \in Object /\ base \in Object /\ WorkerClose
      /\ pc # "idle" => cur \in Rollbacks
  BY DEF IInv, StoredOK, WorkerClose
<1>2. \A o : SameMarks(o, o)
  BY DEF SameMarks
<1>3. ASSUME UNCHANGED <<clusterVars, claims, stored>>, Return \/ UNCHANGED workerVars
      PROVE  DataInv'
  BY <1>2, <1>3, TouchedData DEF stored, workerVars
<1>4. ASSUME NEW r \in Rollbacks, NEW o \in Object, Store(r, o), SameMarks(obj[r], o),
             UNCHANGED <<clusterVars, claims>>, Return \/ UNCHANGED workerVars
      PROVE  DataInv'
  BY <1>2, <1>4, StoreMarks, TouchedData DEF workerVars
<1>5. ASSUME NEW r \in Rollbacks, Reconcile(r), UNCHANGED workerVars PROVE DataInv'
  <2> DEFINE d == [obj[r] EXCEPT !.finalizer = FALSE, !.life = "gone"]
             f == [obj[r] EXCEPT !.finalizer = TRUE]
  <2>1. d \in Object /\ SameMarks(obj[r], d) /\ f \in Object /\ SameMarks(obj[r], f)
    <3>1. obj[r] \in Object
      BY <1>1
    <3>2. d \in Object /\ f \in Object
      BY <3>1 DEF Object
    <3>3. Touched(obj[r], d) /\ Touched(obj[r], f)
      BY <3>1, Touching
    <3> HIDE DEF d, f
    <3> QED
      BY <3>1, <3>2, <3>3, TouchedMarks
  <2>2. Store(r, d) \/ Store(r, f) \/ UNCHANGED stored
    BY <1>5 DEF Reconcile
  <2>3. UNCHANGED <<clusterVars, claims>>
    BY <1>5 DEF Reconcile
  <2> HIDE DEF d, f
  <2> QED
    BY <1>3, <1>4, <1>5, <2>1, <2>2, <2>3
<1>6. ASSUME NEW r \in Rollbacks, Delete(r) PROVE DataInv'
  <2> DEFINE l == IF obj[r].finalizer THEN "deleting" ELSE "gone"
             d == [obj[r] EXCEPT !.life = l]
  <2>1. l \in {"live", "deleting", "gone"}
    OBVIOUS
  <2>2. Delete(r) => Store(r, d) /\ UNCHANGED <<clusterVars, claims, workerVars>>
    BY DEF Delete
  <2> HIDE DEF l
  <2>3. d \in Object /\ SameMarks(obj[r], d)
    <3>1. obj[r] \in Object
      BY <1>1
    <3>2. d \in Object
      BY <2>1, <3>1 DEF Object
    <3> QED
      BY <2>1, <3>1, <3>2, Touching, TouchedMarks
  <2> HIDE DEF d
  <2> QED
    BY <1>4, <1>6, <2>2, <2>3
<1>7. ASSUME NEW r \in Rollbacks, Sync(r) PROVE DataInv'
  BY <1>1, <1>2, <1>7, TouchedData DEF Sync, workerVars
<1>8. CASE removeFinalizer
  <2> DEFINE d == [mem EXCEPT !.finalizer = FALSE]
  <2>1. d \in Object /\ SameMarks(mem, d) /\ mem = base /\ cur \in Rollbacks /\ Return
    BY <1>1, <1>8 DEF Object, SameMarks, removeFinalizer, WorkerClose
  <2>2. UNCHANGED stored \/ (obj[cur] = base /\ Store(cur, d))
    BY <1>8 DEF removeFinalizer
  <2>3. UNCHANGED <<clusterVars, claims>>
    BY <1>8 DEF removeFinalizer
  <2> HIDE DEF d
  <2> QED
    BY <1>3, <1>4, <2>1, <2>2, <2>3
<1>9. CASE Tick
  <2>1. \A o \in Object : SameMarks(o, Older(o)) /\ Older(o).scaling = o.scaling
    BY DEF SameMarks, Older, Object
  <2> QED
    BY <1>1, <1>2, <1>9, <2>1, TouchedData DEF Tick
<1> QED
  BY <1>3, <1>5, <1>6, <1>7, <1>8, <1>9 DEF DeleteUpgrade, Crash, vars

\* Taking up a rollback: the worker's copy is what the cache says.
LEMMA TakeUpData ==
  ASSUME IInv, DataInv, [Next]_vars, NEW r \in Rollbacks, Reconcile(r),
         pc' = "run", cur' = r, base' = cache[r], mem' = cache[r], UNCHANGED stored
  PROVE  DataInv'
<1>1. UNCHANGED <<clusterVars, claims, upgrade>> /\ UNCHANGED <<obj, cache>>
  BY DEF Reconcile, stored
<1>2. ClaimsClean' /\ PodsUp' /\ HeldStays /\ SameUps /\ UNCHANGED git
  BY <1>1, StillClean DEF IInv, DataInv, clusterVars
<1>3. StoreGuarded'
  BY <1>1, <1>2, StoreKept DEF DataInv, SameMarks
<1>4. WorkerGuarded'
  <2>1. /\ Guarded(cache'[r], Held', AllStopped(r)')
        /\ cache'[r].gitReverted => obj'[r].gitReverted
        /\ obj'[r].gitReverted => git' = upgrade'[r].previousVersion
    BY <1>3 DEF StoreGuarded
  <2>2. AllStopped(cur)' <=> AllStopped(r)'
    BY DEF AllStopped
  <2> QED
    BY <1>1, <2>1, <2>2 DEF WorkerGuarded
<1> QED
  BY <1>2, <1>3, <1>4 DEF DataInv

\* The write of the worker's copy over the object that it read.
LEMMA UpdateData ==
  ASSUME IInv, DataInv, [Next]_vars, statusUpdate
  PROVE  DataInv'
<1>1. /\ UNCHANGED <<clusterVars, claims, upgrade>> /\ pc = "update" /\ cur \in Rollbacks
      /\ obj \in [Rollbacks -> Object] /\ cache \in [Rollbacks -> Object]
  BY DEF IInv, WorkerClose, StoredOK, statusUpdate
<1>2. CASE Return /\ UNCHANGED stored
  BY <1>1, <1>2, TouchedData DEF SameMarks, stored
<1>3. ASSUME obj[cur] = base, Store(cur, mem),
             \/ Return
             \/ then # "return" /\ pc' = then /\ base' = mem /\ UNCHANGED <<cur, mem, then>>
      PROVE  DataInv'
  <2>1. /\ base.gitReverted => cache[cur].gitReverted /\ mem.gitReverted
        /\ mem.gitReverted => /\ git = upgrade[cur].previousVersion
                              /\ base.gitReverted \/ then = "return"
        /\ ~base.gitReverted => Guarded(mem, Held, AllStopped(cur))
    BY <1>1, <1>3 DEF DataInv, WorkerGuarded
  <2>2. Guarded(mem, Held, AllStopped(cur))
    BY <2>1 DEF Guarded
  <2>3. ClaimsClean' /\ PodsUp' /\ HeldStays /\ SameUps /\ UNCHANGED git
    BY <1>1, <1>3, <2>1, StillClean DEF IInv, DataInv, Store, clusterVars
  <2>4. /\ Held' <=> Held
        /\ \A r \in Rollbacks : AllStopped(r)' <=> AllStopped(r)
        /\ \A p : StoppedFor(p)' <=> StoppedFor(p)
    BY <1>1 DEF clusterVars, Held, ValidateSuspendTarget, AllStopped, StoppedFor, Down
  <2>5. StoreGuarded'
    <3> SUFFICES ASSUME NEW r \in Rollbacks
                 PROVE  /\ Guarded(obj'[r], Held, AllStopped(r))
                        /\ Guarded(cache'[r], Held, AllStopped(r))
                        /\ cache'[r].gitReverted => obj'[r].gitReverted
                        /\ obj'[r].gitReverted => git = upgrade[r].previousVersion
      BY <1>1, <2>3, <2>4 DEF StoreGuarded, Guarded
    <3>1. /\ Guarded(obj[r], Held, AllStopped(r)) /\ Guarded(cache[r], Held, AllStopped(r))
          /\ cache[r].gitReverted => obj[r].gitReverted
          /\ obj[r].gitReverted => git = upgrade[r].previousVersion
      BY DEF DataInv, StoreGuarded
    <3>2. CASE r # cur
      BY <1>1, <1>3, <3>1, <3>2 DEF Store
    <3>3. CASE r = cur
      <4>1. obj'[r] = mem /\ cache'[r] \in {mem, cache[r]}
        BY <1>1, <1>3, <3>3 DEF Store
      <4>2. AllStopped(r) = AllStopped(cur)
        BY <3>3
      <4> QED
        BY <1>3, <2>1, <2>2, <3>1, <3>3, <4>1, <4>2
    <3> QED
      BY <3>2, <3>3
  <2>6. WorkerGuarded'
    <3>1. CASE Return
      BY <3>1 DEF Return, WorkerGuarded
    <3>2. CASE then # "return" /\ pc' = then /\ base' = mem /\ UNCHANGED <<cur, mem, then>>
      <4>1. then \in {"run", "next", "resumed", "finalize"}
        BY <3>2 DEF IInv, WorkerClose
      <4>2. mem.gitReverted => cache'[cur].gitReverted
        BY <1>1, <1>3, <2>1, <3>2 DEF Store
      <4>3. Guarded(mem, Held', AllStopped(cur)')
        BY <1>1, <2>2, <2>4, <3>2 DEF AllStopped, Guarded
      <4> QED
        BY <1>1, <2>1, <2>3, <3>2, <4>1, <4>2, <4>3 DEF WorkerGuarded
    <3> QED
      BY <1>3, <3>1, <3>2
  <2> QED
    BY <2>3, <2>5, <2>6 DEF DataInv
<1> QED
  BY <1>2, <1>3 DEF statusUpdate

\* A handler's step, by what it does to the worker's copy.
LEMMA HandlerWorker ==
  ASSUME IInv, SameUps, HeldStays, WorkerGuarded, pc \notin {"idle", "update"},
         UNCHANGED <<obj, cache, cur, base>>,
         git' \in {git, upgrade[cur].previousVersion},
         mem.gitReverted => mem'.gitReverted,
         mem'.gitReverted => \/ mem.gitReverted
                             \/ /\ git' = upgrade[cur].previousVersion
                                /\ pc' = "update" /\ then' = "return",
         ~obj[cur].gitReverted => /\ Guarded(mem', Held', AllStopped(cur)')
                                  /\ pc' = "scaled" => Scaled'
  PROVE  WorkerGuarded'
<1>1. cur \in Rollbacks
  BY DEF IInv, WorkerClose
<1>2. Held => Held' /\ (AllStopped(cur) => AllStopped(cur)')
  BY <1>1, StoppedStays DEF AllStopped, SameUps
<1>3. base.workloadStopped => base.suspended # "absent"
  BY DEF IInv, WorkerClose, Ordered
<1>4. Guarded(base', Held', AllStopped(cur)')
  BY <1>2, <1>3 DEF WorkerGuarded, Guarded
<1> QED
  BY <1>1, <1>4 DEF WorkerGuarded, SameUps

\* A copy that says the same.
LEMMA MarksWorker ==
  ASSUME IInv, SameUps, HeldStays, WorkerGuarded, pc \notin {"idle", "update"},
         UNCHANGED <<obj, cache>>, git' \in {git, upgrade[cur].previousVersion},
         \/ Return
         \/ UNCHANGED <<cur, base>> /\ SameMarks(mem, mem') /\ pc' # "scaled"
  PROVE  WorkerGuarded'
<1>1. CASE Return
  BY <1>1 DEF Return, WorkerGuarded
<1>2. CASE UNCHANGED <<cur, base>> /\ SameMarks(mem, mem') /\ pc' # "scaled"
  BY <1>2, WorkerKept DEF SameMarks
<1> QED
  BY <1>1, <1>2

\* A handler that leaves the cluster and what its copy says alone.
LEMMA QuietData ==
  ASSUME IInv, DataInv, [Next]_vars, UNCHANGED <<clusterVars, claims, stored>>,
         pc \notin {"idle", "update"},
         \/ Return
         \/ UNCHANGED <<cur, base>> /\ SameMarks(mem, mem') /\ pc' # "scaled"
  PROVE  DataInv'
<1>1. UNCHANGED <<obj, cache>>
  BY DEF stored
<1>2. ClaimsClean' /\ PodsUp' /\ HeldStays /\ SameUps /\ UNCHANGED git
  BY <1>1, StillClean DEF IInv, DataInv, clusterVars
<1>3. StoreGuarded'
  BY <1>1, <1>2, StoreKept DEF DataInv, SameMarks
<1>4. WorkerGuarded'
  BY <1>1, <1>2, MarksWorker DEF DataInv
<1> QED
  BY <1>2, <1>3, <1>4 DEF DataInv

\* A failure leaves the marks of the copy alone.
LEMMA FailMarks ==
  ASSUME NEW m \in Object, SameMarks(mem, m), NEW reason, NEW n, setFailed(m, reason, n)
  PROVE  UNCHANGED <<cur, base>> /\ SameMarks(mem, mem') /\ pc' = "update"
  BY DEF setFailed, WriteStatus, SameMarks, Object

\* So do the phase timers.
LEMMA TimerMarks ==
  ASSUME mem \in Object
  PROVE  /\ SameMarks(mem, mem)
         /\ setPhaseStartIfNeeded(mem) \in Object /\ SameMarks(mem, setPhaseStartIfNeeded(mem))
         /\ resetPhaseStart(mem) \in Object /\ SameMarks(mem, resetPhaseStart(mem))
  BY Touching, TouchedMarks, TimerType

\* The handlers of that kind.
LEMMA QuietHandlers ==
  ASSUME IInv, DataInv, [Next]_vars,
         \/ handleVolumeRestore \/ awaitBound \/ handleGitRevert \/ checkReconciled
         \/ handleHealthChecking \/ handleCompleted
  PROVE  DataInv'
<1> DEFINE m == setPhaseStartIfNeeded(mem)
           t == resetPhaseStart(mem)
<1>1. /\ mem \in Object /\ m \in Object /\ t \in Object
      /\ SameMarks(mem, mem) /\ SameMarks(mem, m) /\ SameMarks(mem, t)
  BY TimerMarks DEF IInv, WorkerClose
<1>2. UNCHANGED <<clusterVars, claims, stored>> /\ pc \notin {"idle", "update"}
  BY DEF handleVolumeRestore, awaitBound, handleGitRevert, checkReconciled,
         handleHealthChecking, handleCompleted, At
<1>3. SUFFICES \/ Return
               \/ UNCHANGED <<cur, base>> /\ SameMarks(mem, mem') /\ pc' # "scaled"
  BY <1>2, QuietData
<1>4. ASSUME NEW q \in {mem, m, t}, NEW n, Fail(q, n)
      PROVE  UNCHANGED <<cur, base>> /\ SameMarks(mem, mem') /\ pc' # "scaled"
  BY <1>1, <1>4, FailMarks DEF Fail
<1> HIDE DEF m, t
<1>5. CASE handleVolumeRestore
  BY <1>1, <1>4, <1>5 DEF handleVolumeRestore, m
<1>6. CASE awaitBound
  <2>1. ASSUME NEW f, WriteStatus([t EXCEPT !.restored = f, !.volumesRestored = TRUE], "return")
        PROVE  UNCHANGED <<cur, base>> /\ SameMarks(mem, mem') /\ pc' # "scaled"
    BY <1>1, <2>1 DEF WriteStatus, SameMarks, Object
  <2> QED
    BY <1>4, <1>6, <2>1 DEF awaitBound, t
<1>7. CASE handleGitRevert
  BY <1>1, <1>4, <1>7 DEF handleGitRevert
<1>8. CASE checkReconciled
  <2>1. ASSUME WriteStatus([t EXCEPT !.reconciled = TRUE], "return")
        PROVE  UNCHANGED <<cur, base>> /\ SameMarks(mem, mem') /\ pc' # "scaled"
    BY <1>1, <2>1 DEF WriteStatus, SameMarks, Object
  <2> QED
    BY <1>4, <1>8, <2>1 DEF checkReconciled, t
<1>9. CASE handleHealthChecking
  <2>1. ASSUME WriteStatus([m EXCEPT !.healthy = TRUE], "return")
        PROVE  UNCHANGED <<cur, base>> /\ SameMarks(mem, mem') /\ pc' # "scaled"
    BY <1>1, <2>1 DEF WriteStatus, SameMarks, Object
  <2> QED
    BY <1>4, <1>9, <2>1 DEF handleHealthChecking, m
<1>10. CASE handleCompleted
  BY <1>1, <1>10 DEF handleCompleted, WriteStatus, SameMarks, Object
<1> QED
  BY <1>5, <1>6, <1>7, <1>8, <1>9, <1>10

\* A handler that suspends, scales down or reverts Git.
LEMMA CalmingData ==
  ASSUME IInv, DataInv, [Next]_vars, UNCHANGED <<claims, stored, applied, pods, app>>,
         suspended => suspended', replicas' \subseteq replicas,
         \A r \in Rollbacks : /\ git' \in {git, upgrade[r].previousVersion}
                              /\ replicas' = replicas \/ suspended \/ obj[r].gitReverted
                                 \/ ~ValidateSuspendTarget
  PROVE  ClaimsClean' /\ PodsUp' /\ StoreGuarded' /\ HeldStays /\ SameUps
<1>1. SameUps /\ UNCHANGED <<obj, cache>>
  BY UpgradesSame DEF IInv, stored
<1>2. /\ ValidateSuspendTarget' <=> ValidateSuspendTarget
      /\ Held => Held'
      /\ \A w : Down(w) => Down(w)'
  BY DEF Held, ValidateSuspendTarget, Down
<1>3. HeldStays
  BY <1>2 DEF HeldStays, StaysDown
<1>4. \A p : StoppedFor(p) => StoppedFor(p)'
  BY <1>2 DEF StoppedFor
<1>5. ClaimsClean'
  <2> SUFFICES ASSUME NEW r \in Rollbacks, NEW p \in RestoreSet(upgrade[r])
               PROVE  CleanClaim(r, p)'
    BY <1>1 DEF ClaimsClean, SameUps
  <2>1. CleanClaim(r, p)
    BY DEF DataInv, ClaimsClean
  <2> QED
    BY <1>1, <1>2, <1>4, <2>1, CleanKept
<1>6. PodsUp'
  BY <1>1, <1>2 DEF DataInv, PodsUp
<1>7. StoreGuarded'
  BY <1>1, <1>3, StoreKept DEF DataInv, SameMarks
<1> QED
  BY <1>1, <1>3, <1>5, <1>6, <1>7

\* handleSuspend: past it Flux is held.
LEMMA SuspendData ==
  ASSUME KustomizationCurrent, IInv, DataInv, [Next]_vars, handleSuspend
  PROVE  DataInv'
<1> DEFINE m == [mem EXCEPT !.suspended = "true",
                            !.volumesRestored = @ \/ ToRestore = {}]
<1>1. /\ mem \in Object /\ pc = "run" /\ ~mem.workloadStopped /\ ~mem.gitReverted
      /\ SameMarks(mem, mem)
  <2>1. /\ mem \in Object /\ Ordered(mem) /\ pc = "run" /\ Phase(mem) = "suspend"
    BY DEF IInv, WorkerClose, handleSuspend, At
  <2> QED
    BY <2>1 DEF Phase, Ordered, SameMarks
<1>2. /\ UNCHANGED <<claims, stored, applied, pods, app, replicas, git, upgrade>>
      /\ suspended => suspended'
  <2>1. suspended \in BOOLEAN
    BY DEF IInv, WorldOK, ClusterTypeOK
  <2>2. suspended' \in {suspended, TRUE}
    BY <2>1, SuspendFlag DEF handleSuspend
  <2> QED
    BY <2>1, <2>2 DEF handleSuspend, workloadVars
<1>3. ClaimsClean' /\ PodsUp' /\ StoreGuarded' /\ HeldStays /\ SameUps
  BY <1>2, CalmingData
<1>4. CASE \/ Fail(mem, 1) \/ Fail(mem, 0) \/ setFailed(mem, "UpgradeInProgress", 0)
  <2>1. UNCHANGED <<cur, base>> /\ SameMarks(mem, mem') /\ pc' # "scaled"
    BY <1>1, <1>4, FailMarks DEF Fail
  <2>2. WorkerGuarded'
    BY <1>1, <1>2, <1>3, <2>1, MarksWorker DEF DataInv, stored
  <2> QED
    BY <1>3, <2>2 DEF DataInv
<1>5. CASE WriteStatus(m, "return") /\ ValidateSuspendTarget /\ SuspendKustomization(TRUE)
  <2>1. Held' /\ UNCHANGED <<cur, base>> /\ pc' = "update"
    <3>1. suspended'
      BY <1>5, SuspendFlag DEF IInv, WorldOK, ClusterTypeOK
    <3> QED
      BY <1>2, <1>5, <3>1 DEF Held, ValidateSuspendTarget, WriteStatus
  <2>2. ~mem'.workloadStopped /\ ~mem'.gitReverted
    BY <1>1, <1>5 DEF WriteStatus, Object
  <2>3. Guarded(mem', Held', AllStopped(cur)')
    BY <2>1, <2>2 DEF Guarded
  <2>4. WorkerGuarded'
    BY <1>1, <1>2, <1>3, <2>1, <2>2, <2>3, HandlerWorker DEF DataInv, stored
  <2> QED
    BY <1>3, <2>4 DEF DataInv
<1> QED
  BY <1>4, <1>5 DEF handleSuspend, m, runRollbackPreflight

\* handleStopWorkload: what it does not find is down already.
LEMMA StopData ==
  ASSUME OneRollback, IInv, DataInv, [Next]_vars, handleStopWorkload
  PROVE  DataInv'
<1> DEFINE m == setPhaseStartIfNeeded(mem)
           W == DiscoverWorkloadsForPVCs
           done == [m EXCEPT !.workloadStopped = TRUE]
           scaled == [m EXCEPT !.scaling = W]
<1>1. /\ mem \in Object /\ m \in Object /\ SameMarks(mem, m) /\ pc = "run"
      /\ cur \in Rollbacks
      /\ mem.suspended # "absent" /\ ~mem.workloadStopped /\ ~mem.gitReverted
  <2>1. /\ mem \in Object /\ Ordered(mem) /\ pc = "run" /\ Phase(mem) = "stop"
        /\ cur \in Rollbacks
    BY DEF IInv, WorkerClose, handleStopWorkload, At
  <2> QED
    BY <2>1, TimerMarks DEF Phase, Ordered
<1>2. UNCHANGED <<claims, stored, applied, pods, app, suspended, git, upgrade>>
  BY DEF handleStopWorkload, fluxVars
<1>3. ~obj[cur].gitReverted => Held
  BY <1>1 DEF DataInv, WorkerGuarded, Guarded
<1>4. replicas' \subseteq replicas
  BY DEF handleStopWorkload, ScaleDown
<1>5. ClaimsClean' /\ PodsUp' /\ StoreGuarded' /\ HeldStays /\ SameUps
  BY <1>1, <1>2, <1>3, <1>4, CalmingData DEF Held, OneRollback
<1>6. ASSUME ~obj[cur].gitReverted, NEW p \in RestoreSet(upgrade[cur]),
             NEW w \in Workloads, p \in Mounts[w]
      PROVE  w \in W \/ Down(w)
  <2>1. w \in replicas => pods[w] # "none"
    BY <1>1, <1>3, <1>6 DEF DataInv, PodsUp, Held
  <2>2. RestoreSet(upgrade[cur]) = ToRestore
    BY DEF RestoreSet, ToRestore, Recorded, Up
  <2> QED
    BY <1>6, <2>1, <2>2 DEF DiscoverWorkloadsForPVCs, Running, Down
<1> HIDE DEF m, W
<1>7. CASE Fail(m, 1) \/ Fail(m, 0)
  <2>1. UNCHANGED <<cur, base>> /\ SameMarks(mem, mem') /\ pc' # "scaled"
    BY <1>1, <1>7, FailMarks DEF Fail
  <2>2. WorkerGuarded'
    BY <1>1, <1>2, <1>5, <2>1, MarksWorker DEF DataInv, stored
  <2> QED
    BY <1>5, <2>2 DEF DataInv
<1>8. CASE W = {} /\ WriteStatus(done, "run") /\ UNCHANGED replicas
  <2>1. /\ UNCHANGED <<cur, base>> /\ pc' = "update"
        /\ ~mem'.gitReverted
    BY <1>1, <1>8 DEF WriteStatus, Object, SameMarks
  <2>2. ~obj[cur].gitReverted => AllStopped(cur)
    BY <1>6, <1>8 DEF AllStopped, StoppedFor
  <2>3. ~obj[cur].gitReverted => Held' /\ AllStopped(cur)'
    BY <1>1, <1>3, <1>5, <2>1, <2>2, StoppedStays DEF AllStopped, SameUps
  <2>4. ~obj[cur].gitReverted => Guarded(mem', Held', AllStopped(cur)')
    BY <2>3 DEF Guarded
  <2>5. WorkerGuarded'
    BY <1>1, <1>2, <1>5, <2>1, <2>4, HandlerWorker DEF DataInv, stored
  <2> QED
    BY <1>5, <2>5 DEF DataInv
<1>9. CASE ScaleDown(W) /\ pc' = "scaled" /\ mem' = scaled /\ UNCHANGED <<cur, base, then>>
  <2>1. /\ mem'.scaling = W /\ ~mem'.gitReverted /\ ~mem'.workloadStopped
    BY <1>1, <1>9 DEF Object, SameMarks
  <2>2. ~obj[cur].gitReverted => Guarded(mem', Held', AllStopped(cur)')
    BY <1>3, <1>5, <2>1 DEF Guarded, HeldStays
  <2>3. ~obj[cur].gitReverted => Scaled'
    BY <1>2, <1>6, <1>9, <2>1 DEF Scaled, ScaleDown, Down
  <2>4. WorkerGuarded'
    BY <1>1, <1>2, <1>5, <1>9, <2>1, <2>2, <2>3, HandlerWorker DEF DataInv, stored
  <2> QED
    BY <1>5, <2>4 DEF DataInv
<1> QED
  BY <1>7, <1>8, <1>9 DEF handleStopWorkload, m, W

\* checkStopped: once the pods are gone everything is down.
LEMMA StoppedData ==
  ASSUME IInv, DataInv, [Next]_vars, checkStopped
  PROVE  DataInv'
<1> DEFINE t == resetPhaseStart(mem)
           done == [t EXCEPT !.workloadStopped = TRUE]
<1>1. /\ mem \in Object /\ t \in Object /\ SameMarks(mem, t) /\ SameMarks(mem, mem)
      /\ pc = "scaled" /\ cur \in Rollbacks
      /\ mem.suspended # "absent" /\ ~mem.gitReverted
  <2>1. /\ mem \in Object /\ Ordered(mem) /\ pc = "scaled" /\ Stage(mem) = "stop"
        /\ cur \in Rollbacks
    BY DEF IInv, WorkerClose, checkStopped
  <2>2. Phase(mem) = "stop"
    BY <2>1, StagePhase
  <2> QED
    BY <2>1, <2>2, TimerMarks DEF Phase, Ordered
<1>2. UNCHANGED <<clusterVars, claims, upgrade, stored>>
  BY DEF checkStopped
<1> HIDE DEF t
<1>3. CASE \/ Fail(mem, 1) \/ Fail(mem, 0) \/ WriteStatus(mem, "return")
  <2>1. UNCHANGED <<cur, base>> /\ SameMarks(mem, mem') /\ pc' # "scaled"
    BY <1>1, <1>3, FailMarks DEF Fail, WriteStatus
  <2> QED
    BY <1>1, <1>2, <2>1, QuietData
<1>4. CASE (\A w \in mem.scaling : IsScaledDown(w)) /\ WriteStatus(done, "return")
  <2>1. ClaimsClean' /\ PodsUp' /\ HeldStays /\ SameUps /\ UNCHANGED git
    BY <1>2, StillClean DEF IInv, DataInv, stored, clusterVars
  <2>2. StoreGuarded'
    BY <1>2, <2>1, StoreKept DEF DataInv, SameMarks, stored
  <2>3. UNCHANGED <<cur, base>> /\ pc' = "update" /\ ~mem'.gitReverted
    BY <1>1, <1>4 DEF WriteStatus, Object, SameMarks
  <2>4. ASSUME ~obj[cur].gitReverted PROVE Guarded(mem', Held', AllStopped(cur)')
    <3>1. Held /\ Scaled
      BY <1>1, <2>4 DEF DataInv, WorkerGuarded, Guarded
    <3>2. AllStopped(cur)
      BY <1>4, <3>1 DEF AllStopped, StoppedFor, Down, Scaled, IsScaledDown
    <3>3. Held' /\ AllStopped(cur)'
      BY <1>1, <2>1, <2>3, <3>1, <3>2, StoppedStays DEF AllStopped, SameUps
    <3> QED
      BY <3>3 DEF Guarded
  <2>5. WorkerGuarded'
    BY <1>1, <1>2, <2>1, <2>3, <2>4, HandlerWorker DEF DataInv, stored
  <2> QED
    BY <2>1, <2>2, <2>5 DEF DataInv
<1> QED
  BY <1>3, <1>4 DEF checkStopped, t

\* A claim is deleted, which keeps its data, or made while all is down.
LEMMA ClaimData ==
  ASSUME OneRollback, IInv, DataInv, [Next]_vars, deleteClaim \/ RestorePVCFromSnapshot
  PROVE  DataInv'
<1>1. /\ mem \in Object /\ SameMarks(mem, mem) /\ pc \in {"next", "deleting"}
      /\ cur \in Rollbacks /\ UNCHANGED <<clusterVars, upgrade, stored>>
      /\ claims \in [PVCs -> Claim] /\ \A q \in PVCs : claims[q] \in Claim
  BY TimerMarks
     DEF IInv, WorkerClose, WorldOK, deleteClaim, RestorePVCFromSnapshot
<1>2. Held /\ AllStopped(cur)
  <2>1. base \in Object /\ Stage(base) = "restore" /\ Ordered(base)
    BY <1>1 DEF IInv, WorkerClose
  <2>2. base.workloadStopped /\ ~base.gitReverted /\ base.suspended # "absent"
    BY <2>1, StagePhase DEF Phase, Ordered, Object
  <2> QED
    BY <1>1, <2>2 DEF DataInv, WorkerGuarded, Guarded
<1>3. /\ UNCHANGED <<suspended, applied, replicas, pods, git, app, obj, cache>>
      /\ (Held' <=> Held) /\ \A w : Down(w)' <=> Down(w)
  BY <1>1 DEF clusterVars, stored, Held, ValidateSuspendTarget, Down
<1>4. HeldStays /\ SameUps /\ \A p : StoppedFor(p)' <=> StoppedFor(p)
  BY <1>3, UpgradesSame DEF IInv, HeldStays, StaysDown, StoppedFor
<1>5. \/ UNCHANGED <<cur, base>> /\ SameMarks(mem, mem') /\ pc' # "scaled"
      \/ Return
  <2>1. ASSUME NEW n, Fail(mem, n)
        PROVE  UNCHANGED <<cur, base>> /\ SameMarks(mem, mem') /\ pc' # "scaled"
    BY <1>1, <2>1, FailMarks DEF Fail
  <2>2. ASSUME NEW p, WriteStatus([mem EXCEPT !.restored[p] = "pending"], "next")
        PROVE  UNCHANGED <<cur, base>> /\ SameMarks(mem, mem') /\ pc' # "scaled"
    BY <1>1, <2>2 DEF WriteStatus, SameMarks, Object
  <2>3. CASE deleteClaim
    BY <1>1, <2>1, <2>3 DEF deleteClaim
  <2>4. CASE RestorePVCFromSnapshot
    BY <2>1, <2>2, <2>4 DEF RestorePVCFromSnapshot
  <2> QED
    BY <2>3, <2>4
<1>6. ASSUME NEW p \in PVCs
      PROVE  \/ claims'[p].data = claims[p].data /\ claims'[p].opened = claims[p].opened
             \/ claims'[p].opened = {}
  <2>1. ASSUME NEW q \in Unrestored(mem), DeletePVC(q)
        PROVE  claims'[p].data = claims[p].data /\ claims'[p].opened = claims[p].opened
    BY <1>1, <2>1, UnrestoredIn DEF DeletePVC, Claim
  <2>2. ASSUME NEW q \in Unrestored(mem),
               claims' = [claims EXCEPT ![q] = NewClaim(Up.pvcSnapshots[q])]
        PROVE  claims'[p] = claims[p] \/ claims'[p].opened = {}
    BY <1>1, <2>2, UnrestoredIn DEF NewClaim
  <2> QED
    BY <2>1, <2>2 DEF deleteClaim, RestorePVCFromSnapshot
<1>7. ClaimsClean'
  <2> SUFFICES ASSUME NEW r \in Rollbacks, NEW p \in RestoreSet(upgrade[r])
               PROVE  CleanClaim(r, p)'
    BY <1>1 DEF ClaimsClean
  <2>1. p \in PVCs /\ StoppedFor(p) /\ CleanClaim(r, p)
    BY <1>1, <1>2 DEF OneRollback, AllStopped, RestoreSet, DataInv, ClaimsClean
  <2>2. CASE claims'[p].data = claims[p].data /\ claims'[p].opened = claims[p].opened
    BY <1>3, <1>4, <2>1, <2>2, CleanKept
  <2>3. CASE claims'[p].opened = {}
    BY <1>2, <1>3, <1>4, <2>1, <2>3 DEF CleanClaim
  <2> QED
    BY <1>6, <2>1, <2>2, <2>3
<1>8. PodsUp'
  BY <1>3 DEF DataInv, PodsUp, ValidateSuspendTarget
<1>9. StoreGuarded'
  BY <1>3, <1>4, StoreKept DEF DataInv, SameMarks
<1>10. WorkerGuarded'
  BY <1>1, <1>3, <1>4, <1>5, MarksWorker DEF DataInv
<1> QED
  BY <1>7, <1>8, <1>9, <1>10 DEF DataInv

\* commitFile: Git has the old version from here on.
LEMMA CommitData ==
  ASSUME OneRollback, IInv, DataInv, [Next]_vars, commitFile
  PROVE  DataInv'
<1> DEFINE m == [mem EXCEPT !.gitReverted = TRUE]
<1>1. /\ mem \in Object /\ SameMarks(mem, mem) /\ pc = "push" /\ cur \in Rollbacks
  BY TimerMarks DEF IInv, WorkerClose, commitFile
<1>2. /\ UNCHANGED <<claims, stored, applied, pods, app, suspended, replicas, upgrade>>
      /\ git' \in {git, upgrade[cur].previousVersion}
  BY DEF commitFile, fluxVars, workloadVars, Up
<1>3. ClaimsClean' /\ PodsUp' /\ StoreGuarded' /\ HeldStays /\ SameUps
  BY <1>1, <1>2, CalmingData DEF OneRollback
<1>4. CASE Fail(mem, 1)
  <2>1. UNCHANGED <<cur, base>> /\ SameMarks(mem, mem') /\ pc' # "scaled"
    BY <1>1, <1>4, FailMarks DEF Fail
  <2>2. WorkerGuarded'
    BY <1>1, <1>2, <1>3, <2>1, MarksWorker DEF DataInv, stored
  <2> QED
    BY <1>3, <2>2 DEF DataInv
<1>5. CASE git' = Up.previousVersion /\ WriteStatus(m, "return")
  <2>1. /\ UNCHANGED <<cur, base>> /\ pc' = "update" /\ then' = "return" /\ mem'.gitReverted
        /\ git' = upgrade[cur].previousVersion
    BY <1>1, <1>5 DEF WriteStatus, Object, Up
  <2>2. Guarded(mem', Held', AllStopped(cur)')
    BY <2>1 DEF Guarded
  <2>3. WorkerGuarded'
    BY <1>1, <1>2, <1>3, <2>1, <2>2, HandlerWorker DEF DataInv, stored
  <2> QED
    BY <1>3, <2>3 DEF DataInv
<1> QED
  BY <1>4, <1>5 DEF commitFile, m

\* handleReconciling resumes Flux when every copy says that Git is reverted.
LEMMA ReconcilingData ==
  ASSUME OneRollback, IInv, DataInv, [Next]_vars, handleReconciling
  PROVE  DataInv'
<1> DEFINE m == setPhaseStartIfNeeded(mem)
           resumed == [m EXCEPT !.suspended = "false"]
<1>1. /\ mem \in Object /\ m \in Object /\ SameMarks(mem, m) /\ pc = "run" /\ mem = base
      /\ cur \in Rollbacks /\ mem.gitReverted
  <2>1. /\ mem \in Object /\ pc = "run" /\ mem = base /\ cur \in Rollbacks
        /\ Phase(mem) = "reconcile"
    BY DEF IInv, WorkerClose, handleReconciling, At
  <2> QED
    BY <2>1, TimerMarks DEF Phase
<1>2. /\ cache[cur].gitReverted /\ obj[cur].gitReverted /\ git = upgrade[cur].previousVersion
  BY <1>1 DEF DataInv, WorkerGuarded, StoreGuarded
<1>3. /\ UNCHANGED <<claims, obj, cache, applied, pods, replicas, git, upgrade>>
      /\ \A r \in Rollbacks : r = cur
  BY <1>1 DEF handleReconciling, workloadVars, stored, OneRollback
<1>4. SameUps
  BY UpgradesSame DEF IInv
<1>5. ClaimsClean'
  <2> SUFFICES ASSUME NEW r \in Rollbacks, NEW p \in RestoreSet(upgrade[r])
               PROVE  CleanClaim(r, p)'
    BY <1>3 DEF ClaimsClean
  <2>1. CleanClaim(r, p) /\ git = upgrade[r].previousVersion
    BY <1>2, <1>3 DEF DataInv, ClaimsClean
  <2>2. StoppedFor(p) => StoppedFor(p)'
    BY <1>3 DEF StoppedFor, Down
  <2> QED
    BY <1>3, <1>4, <2>1, <2>2, CleanKept
<1>6. PodsUp' /\ StoreGuarded'
  BY <1>2, <1>3 DEF PodsUp, StoreGuarded, Guarded
<1> HIDE DEF m
<1>7. UNCHANGED <<cur, base>> /\ mem'.gitReverted /\ pc' = "update"
  <2>1. CASE Fail(m, 1) \/ Fail(m, 0)
    BY <1>1, <2>1, FailMarks DEF Fail, SameMarks
  <2>2. CASE WriteStatus(resumed, "resumed")
    BY <1>1, <2>2 DEF WriteStatus, Object, SameMarks
  <2> QED
    BY <2>1, <2>2 DEF handleReconciling, m
<1>8. WorkerGuarded'
  BY <1>1, <1>2, <1>3, <1>7 DEF WorkerGuarded, Guarded
<1> QED
  BY <1>5, <1>6, <1>8 DEF DataInv

\* Every step preserves the invariant.
LEMMA NextData ==
  ASSUME KustomizationCurrent, OneRollback, NoResume, NoEvict, OwnKustomization,
         IInv, DataInv, [Next]_vars
  PROVE  DataInv'
<1>1. ASSUME NEW r \in Rollbacks, Reconcile(r) PROVE DataInv'
  BY <1>1, StoreData, TakeUpData DEF Reconcile
<1> QED
  BY <1>1, StoreData, UpdateData, EnvironmentData, QuietHandlers, SuspendData, StopData,
     StoppedData, ClaimData, CommitData, ReconcilingData DEF Next, WorkerStep

\* From the restore of a claim on, only the version that is restored has it
\* mounted, however often the rollback crashes, fails, reads a stale object or
\* restores a claim again: the workloads were found and stopped, stay down while
\* Flux is held, and come up from a Git that has the old version (handleStopWorkload
\* before handleVolumeRestore, handleReconciling after handleGitRevert).  For one
\* rollback of an app without suspendRef, without evictions and external resumes,
\* and with current reads of the Kustomization.
THEOREM RestoredStaysClean ==
  ASSUME KustomizationCurrent, OneRollback, NoResume, NoEvict, OwnKustomization
  PROVE  Spec => []RestoredDataClean
<1>1. Init => DataInv
  <2> SUFFICES ASSUME Init PROVE DataInv
    OBVIOUS
  <2>1. ClaimsClean
    BY DEF Init, ClaimsClean, CleanClaim, Holds, RestoreSet, Live
  <2>2. StoreGuarded
    BY DEF Init, StoreGuarded, Guarded, NewObject
  <2>3. PodsUp
    BY DEF Init, PodsUp
  <2>4. WorkerGuarded
    BY DEF Init, WorkerGuarded
  <2> QED
    BY <2>1, <2>2, <2>3, <2>4 DEF DataInv
<1>2. IInv /\ DataInv /\ [Next]_vars => DataInv'
  BY NextData
<1>3. DataInv => RestoredDataClean
  BY DEF DataInv, ClaimsClean, CleanClaim, RestoredDataClean, Restores, RestoreSet
<1> QED
  BY <1>1, <1>2, <1>3, Invariance, PTL DEF Spec

-----------------------------------------------------------------------------
(* What a rollback says of Git, and of the claims before it has begun: facts *)
(* that the proofs about both controllers together need.                     *)

\* A version o of rollback r's object: nothing is restored before Flux is
\* suspended, and what is reverted is in Git.
Began(r, o) ==
  /\ o.suspended = "absent" => \A p \in PVCs : o.restored[p] = "no"
  /\ o.gitReverted => git = upgrade[r].previousVersion

\* That of what is stored, of what is cached and of the worker's copy.
BeganInv ==
  /\ \A r \in Rollbacks : Began(r, obj[r]) /\ Began(r, cache[r])
  /\ pc # "idle" => Began(cur, mem)

\* Timers, finalizers and lives are not part of that.
LEMMA TouchedBegan ==
  ASSUME NEW o \in Object, NEW q, Touched(o, q), NEW r, Began(r, o)
  PROVE  Began(r, q)
<1>1. q.suspended = o.suspended /\ q.restored = o.restored
  BY TouchedCopied DEF Copied
<1>2. q.gitReverted = o.gitReverted
  BY TouchedMarks DEF SameMarks
<1> QED
  BY <1>1, <1>2 DEF Began

\* What a handler does to the marks of its copy.
BeganStep ==
  \/ Return
  \/ /\ UNCHANGED <<cur, base>>
     /\ mem'.suspended = "absent" =>
          mem.suspended = "absent" /\ mem'.restored = mem.restored
     /\ mem'.gitReverted => mem.gitReverted \/ git' = upgrade[cur].previousVersion

\* A copy with the same marks and record.
LEMMA SameBegan ==
  ASSUME NEW m, SameMarks(mem, m), Copied(mem, m), mem' = m, UNCHANGED <<cur, base>>
  PROVE  BeganStep
  BY DEF SameMarks, Copied, BeganStep

\* A failure changes neither.
LEMMA FailBegan ==
  ASSUME NEW m \in Object, SameMarks(mem, m), Copied(mem, m), NEW reason, NEW n,
         setFailed(m, reason, n)
  PROVE  BeganStep
<1>1. UNCHANGED <<cur, base>> /\ SameMarks(mem, mem') /\ Copied(m, mem')
  BY FailMarks, FailCopies
<1> QED
  BY <1>1 DEF Copied, SameMarks, BeganStep

\* Every handler but the suspension works on a rollback that has begun, and only
\* the commit reverts.
LEMMA HandlerBegan ==
  ASSUME IInv,
         \/ handleSuspend \/ handleStopWorkload \/ checkStopped
         \/ handleVolumeRestore \/ deleteClaim \/ RestorePVCFromSnapshot \/ awaitBound
         \/ handleGitRevert \/ commitFile
         \/ handleReconciling \/ checkReconciled \/ handleHealthChecking \/ handleCompleted
  PROVE  BeganStep /\ git' \in {git, upgrade[cur].previousVersion} /\ pc # "idle"
<1>1. mem \in Object /\ WorkerClose
  BY DEF IInv, WorkerClose
<1> DEFINE m == setPhaseStartIfNeeded(mem)
           t == resetPhaseStart(mem)
<1>2. /\ m \in Object /\ SameMarks(mem, m) /\ Copied(mem, m)
      /\ t \in Object /\ SameMarks(mem, t) /\ Copied(mem, t)
      /\ SameMarks(mem, mem) /\ Copied(mem, mem)
  BY <1>1, TimerCopies, TimerMarks DEF Copied
<1>3. ASSUME NEW o \in {mem, m}, NEW reason, NEW n, setFailed(o, reason, n) PROVE BeganStep
  BY <1>1, <1>2, <1>3, FailBegan
<1>4. ASSUME NEW o \in {mem, m, t}, mem' = o, UNCHANGED <<cur, base>> PROVE BeganStep
  BY <1>2, <1>4, SameBegan
<1>5. ASSUME Return PROVE BeganStep
  BY <1>5 DEF BeganStep
<1> HIDE DEF m, t
<1> USE DEF WriteStatus, Fail
<1>6. CASE handleSuspend
  <2>1. ASSUME NEW x, mem' = [mem EXCEPT !.suspended = "true", !.volumesRestored = x],
               UNCHANGED <<cur, base>>
        PROVE  BeganStep
    BY <1>1, <2>1 DEF Object, BeganStep
  <2>2. UNCHANGED git /\ pc # "idle"
    BY <1>6 DEF handleSuspend, At
  <2> QED
    BY <1>3, <1>6, <2>1, <2>2 DEF handleSuspend
<1>7. CASE handleStopWorkload
  <2>1. ASSUME NEW x, NEW y, mem' = [m EXCEPT !.workloadStopped = x] \/ mem' = [m EXCEPT !.scaling = y],
               UNCHANGED <<cur, base>>
        PROVE  BeganStep
    BY <1>2, <2>1 DEF Object, BeganStep, SameMarks, Copied
  <2>2. UNCHANGED git /\ pc # "idle"
    BY <1>7 DEF handleStopWorkload, At
  <2> QED
    BY <1>3, <1>7, <2>1, <2>2 DEF handleStopWorkload, m
<1>8. CASE checkStopped
  <2>1. ASSUME NEW x, mem' = [t EXCEPT !.workloadStopped = x], UNCHANGED <<cur, base>>
        PROVE  BeganStep
    BY <1>2, <2>1 DEF Object, BeganStep, SameMarks, Copied
  <2>2. UNCHANGED git /\ pc # "idle"
    BY <1>8 DEF checkStopped, clusterVars
  <2> QED
    BY <1>3, <1>4, <1>8, <2>1, <2>2 DEF checkStopped, t
<1>9. CASE handleVolumeRestore
  <2>2. UNCHANGED git /\ pc # "idle"
    BY <1>9 DEF handleVolumeRestore, clusterVars, At
  <2> QED
    BY <1>3, <1>4, <1>9, <2>2 DEF handleVolumeRestore, m
<1>10. CASE deleteClaim
  <2>2. UNCHANGED git /\ pc # "idle"
    BY <1>10 DEF deleteClaim, clusterVars
  <2> QED
    BY <1>3, <1>4, <1>10, <2>2 DEF deleteClaim
<1>11. CASE RestorePVCFromSnapshot
  <2>1. mem.suspended # "absent"
    BY <1>1, <1>11, RestoringStage DEF RestorePVCFromSnapshot, Stage, Phase
  <2>2. ASSUME NEW p, mem' = [mem EXCEPT !.restored[p] = "pending"], UNCHANGED <<cur, base>>
        PROVE  BeganStep
    BY <1>1, <2>1, <2>2 DEF Object, BeganStep
  <2>3. UNCHANGED git /\ pc # "idle"
    BY <1>11 DEF RestorePVCFromSnapshot, clusterVars
  <2> QED
    BY <1>3, <1>4, <1>5, <1>11, <2>2, <2>3 DEF RestorePVCFromSnapshot
<1>12. CASE awaitBound
  <2>1. mem.suspended # "absent"
    BY <1>1, <1>12, RestoringStage DEF awaitBound, Stage, Phase
  <2>2. ASSUME NEW x, NEW y, mem' = [t EXCEPT !.restored = x, !.volumesRestored = y],
               UNCHANGED <<cur, base>>
        PROVE  BeganStep
    BY <1>2, <2>1, <2>2 DEF Object, BeganStep, SameMarks
  <2>3. UNCHANGED git /\ pc # "idle"
    BY <1>12 DEF awaitBound, clusterVars
  <2> QED
    BY <1>3, <1>4, <1>5, <1>12, <2>2, <2>3 DEF awaitBound, t
<1>13. CASE handleGitRevert
  <2>3. UNCHANGED git /\ pc # "idle"
    BY <1>13 DEF handleGitRevert, clusterVars, At
  <2> QED
    BY <1>3, <1>4, <1>13, <2>3 DEF handleGitRevert
<1>14. CASE commitFile
  <2>1. ASSUME mem' = [mem EXCEPT !.gitReverted = TRUE], UNCHANGED <<cur, base>>,
               git' = upgrade[cur].previousVersion
        PROVE  BeganStep
    BY <1>1, <2>1 DEF Object, BeganStep
  <2>2. git' \in {git, upgrade[cur].previousVersion} /\ pc # "idle"
    BY <1>14 DEF commitFile, Up
  <2> QED
    BY <1>3, <1>14, <2>1, <2>2 DEF commitFile, Up
<1>15. CASE handleReconciling
  <2>1. mem.suspended # "absent"
    BY <1>15 DEF handleReconciling, At, Phase
  <2>2. ASSUME mem' = [m EXCEPT !.suspended = "false"], UNCHANGED <<cur, base>>
        PROVE  BeganStep
    BY <1>2, <2>1, <2>2 DEF Object, BeganStep, SameMarks
  <2>3. UNCHANGED git /\ pc # "idle"
    BY <1>15 DEF handleReconciling, At
  <2> QED
    BY <1>3, <1>15, <2>2, <2>3 DEF handleReconciling, m
<1>16. CASE checkReconciled
  <2>1. ASSUME NEW x, mem' = [t EXCEPT !.reconciled = x], UNCHANGED <<cur, base>>
        PROVE  BeganStep
    BY <1>2, <2>1 DEF Object, BeganStep, SameMarks, Copied
  <2>2. UNCHANGED git /\ pc # "idle"
    BY <1>16 DEF checkReconciled, clusterVars
  <2> QED
    BY <1>3, <1>5, <1>16, <2>1, <2>2 DEF checkReconciled, t
<1>17. CASE handleHealthChecking
  <2>1. ASSUME NEW x, mem' = [m EXCEPT !.healthy = x], UNCHANGED <<cur, base>>
        PROVE  BeganStep
    BY <1>2, <2>1 DEF Object, BeganStep, SameMarks, Copied
  <2>2. UNCHANGED git /\ pc # "idle"
    BY <1>17 DEF handleHealthChecking, clusterVars, At
  <2> QED
    BY <1>3, <1>5, <1>17, <2>1, <2>2 DEF handleHealthChecking, m
<1>18. CASE handleCompleted
  BY <1>1, <1>18 DEF handleCompleted, At, clusterVars, Object, BeganStep
<1> QED
  BY <1>6, <1>7, <1>8, <1>9, <1>10, <1>11, <1>12, <1>13, <1>14, <1>15, <1>16, <1>17, <1>18

\* A write of an object of which that is true.
LEMMA StoreBegan ==
  ASSUME StoredOK, SameUps, UNCHANGED git,
         \A q \in Rollbacks : Began(q, obj[q]) /\ Began(q, cache[q]),
         NEW r \in Rollbacks, NEW o \in Object, Began(r, o), Store(r, o)
  PROVE  \A q \in Rollbacks : Began(q, obj[q])' /\ Began(q, cache[q])'
<1> SUFFICES ASSUME NEW q \in Rollbacks PROVE Began(q, obj[q])' /\ Began(q, cache[q])'
  OBVIOUS
<1>1. obj'[q] \in {obj[q], o} /\ (obj'[q] = o => q = r \/ obj[q] = o)
  BY DEF Store, StoredOK
<1>2. cache'[q] \in {cache[q], o} /\ (cache'[q] = o => q = r \/ cache[q] = o)
  BY DEF Store, StoredOK
<1>3. \A x : Began(q, x) =>
        /\ x.suspended = "absent" => \A p \in PVCs : x.restored[p] = "no"
        /\ x.gitReverted => git' = upgrade'[q].previousVersion
  BY DEF Began, SameUps
<1> QED
  BY <1>1, <1>2, <1>3 DEF Began

\* Every step preserves it: only the rollback's commit changes Git.
LEMMA NextBegan ==
  ASSUME IInv, OneRollback, BeganInv, [Next]_vars
  PROVE  BeganInv'
<1>1. WorldOK /\ StoredOK /\ WorkerClose /\ SameUps
  BY UpgradesSame DEF IInv
<1>2. /\ \A r \in Rollbacks : obj[r] \in Object /\ cache[r] \in Object
      /\ mem \in Object /\ (pc # "idle" => cur \in Rollbacks)
  BY <1>1 DEF StoredOK, WorkerClose
<1>3. ASSUME UNCHANGED git, UNCHANGED <<obj, cache>>
      PROVE  \A r \in Rollbacks : Began(r, obj[r])' /\ Began(r, cache[r])'
  BY <1>1, <1>3 DEF BeganInv, Began, SameUps
<1>4. ASSUME UNCHANGED git, UNCHANGED <<pc, cur, mem>>
      PROVE  (pc # "idle" => Began(cur, mem))'
  BY <1>1, <1>2, <1>4 DEF BeganInv, Began, SameUps
<1>5. ASSUME UNCHANGED git, NEW r \in Rollbacks, NEW o \in Object, Began(r, o), Store(r, o)
      PROVE  \A q \in Rollbacks : Began(q, obj[q])' /\ Began(q, cache[q])'
  BY <1>1, <1>5, StoreBegan DEF BeganInv
<1>6. ASSUME Return PROVE (pc # "idle" => Began(cur, mem))'
  BY <1>6 DEF Return
<1>7. CASE \/ handleSuspend \/ handleStopWorkload \/ checkStopped
           \/ handleVolumeRestore \/ deleteClaim \/ RestorePVCFromSnapshot \/ awaitBound
           \/ handleGitRevert \/ commitFile
           \/ handleReconciling \/ checkReconciled \/ handleHealthChecking \/ handleCompleted
  <2>1. BeganStep /\ git' \in {git, upgrade[cur].previousVersion} /\ pc # "idle"
    BY <1>7, HandlerBegan
  <2>2. UNCHANGED <<obj, cache>>
    BY <1>1, <1>7, HandlerWorld DEF stored
  <2>3. cur \in Rollbacks /\ \A r \in Rollbacks : r = cur
    BY <1>2, <2>1 DEF OneRollback
  <2>4. \A r \in Rollbacks : Began(r, obj[r])' /\ Began(r, cache[r])'
    BY <1>1, <2>1, <2>2, <2>3 DEF BeganInv, Began, SameUps
  <2>5. (pc # "idle" => Began(cur, mem))'
    <3>1. CASE Return
      BY <1>6, <3>1
    <3>2. CASE ~Return
      BY <1>1, <2>1, <2>3, <3>2 DEF BeganStep, BeganInv, Began, SameUps
    <3> QED
      BY <3>1, <3>2
  <2> QED
    BY <2>4, <2>5 DEF BeganInv
<1>8. ASSUME NEW r \in Rollbacks, Reconcile(r) PROVE BeganInv'
  <2> DEFINE d == [obj[r] EXCEPT !.finalizer = FALSE, !.life = "gone"]
             f == [obj[r] EXCEPT !.finalizer = TRUE]
  <2>1. UNCHANGED git
    BY <1>8 DEF Reconcile, clusterVars
  <2>0. obj[r] \in Object
    BY <1>2
  <2>2. d \in Object /\ f \in Object
    BY <2>0 DEF Object
  <2>3. Touched(obj[r], d) /\ Touched(obj[r], f)
    BY <1>2, Touching
  <2> HIDE DEF d, f
  <2>4. Began(r, d) /\ Began(r, f)
    BY <1>2, <2>3, TouchedBegan DEF BeganInv
  <2>5. CASE (Store(r, d) \/ Store(r, f)) /\ UNCHANGED workerVars
    <3>1. \A q \in Rollbacks : Began(q, obj[q])' /\ Began(q, cache[q])'
      BY <1>5, <2>1, <2>2, <2>4, <2>5
    <3>2. (pc # "idle" => Began(cur, mem))'
      BY <1>4, <2>1, <2>5 DEF workerVars
    <3> QED
      BY <3>1, <3>2 DEF BeganInv
  <2>6. CASE cur' = r /\ mem' = cache[r] /\ UNCHANGED stored
    <3>1. \A q \in Rollbacks : Began(q, obj[q])' /\ Began(q, cache[q])'
      BY <1>3, <2>1, <2>6 DEF stored
    <3>2. Began(r, cache[r])' /\ cache' = cache
      BY <2>6, <3>1 DEF stored
    <3>3. Began(cur, mem)'
      BY <2>6, <3>2 DEF Began
    <3> QED
      BY <3>1, <3>3 DEF BeganInv
  <2> QED
    BY <1>8, <2>5, <2>6 DEF Reconcile, d, f
<1>9. CASE statusUpdate
  <2>1. UNCHANGED git /\ pc = "update" /\ cur \in Rollbacks /\ Began(cur, mem)
    BY <1>2, <1>9 DEF statusUpdate, clusterVars, BeganInv
  <2>2. CASE Store(cur, mem)
    <3>1. \A q \in Rollbacks : Began(q, obj[q])' /\ Began(q, cache[q])'
      BY <1>2, <1>5, <2>1, <2>2
    <3>2. (pc # "idle" => Began(cur, mem))'
      <4>1. CASE UNCHANGED <<cur, mem>>
        BY <1>1, <2>1, <4>1 DEF Began, SameUps
      <4> QED
        BY <1>6, <1>9, <4>1 DEF statusUpdate
    <3> QED
      BY <3>1, <3>2 DEF BeganInv
  <2>3. CASE Return /\ UNCHANGED stored
    BY <1>3, <1>6, <2>1, <2>3 DEF stored, BeganInv
  <2> QED
    BY <1>9, <2>2, <2>3 DEF statusUpdate
<1>10. CASE removeFinalizer
  <2> DEFINE o == [mem EXCEPT !.finalizer = FALSE]
  <2>1. UNCHANGED git /\ cur \in Rollbacks /\ Began(cur, mem) /\ Return
    BY <1>2, <1>10 DEF removeFinalizer, clusterVars, BeganInv
  <2>2. o \in Object
    BY <1>2 DEF Object
  <2>3. Touched(mem, o)
    BY <1>2, Touching
  <2> HIDE DEF o
  <2>4. Began(cur, o)
    BY <1>2, <2>1, <2>3, TouchedBegan
  <2>5. CASE Store(cur, o)
    BY <1>5, <1>6, <2>1, <2>2, <2>4, <2>5 DEF BeganInv
  <2>6. CASE UNCHANGED stored
    BY <1>3, <1>6, <2>1, <2>6 DEF stored, BeganInv
  <2> QED
    BY <1>10, <2>5, <2>6 DEF removeFinalizer, o
<1>11. CASE Crash
  BY <1>3, <1>6, <1>11 DEF Crash, clusterVars, stored, BeganInv
<1>12. ASSUME NEW r \in Rollbacks, Delete(r) PROVE BeganInv'
  <2> DEFINE l == IF obj[r].finalizer THEN "deleting" ELSE "gone"
             o == [obj[r] EXCEPT !.life = l]
  <2>1. /\ l \in {"live", "deleting", "gone"} /\ Store(r, o)
        /\ UNCHANGED git /\ UNCHANGED <<pc, cur, mem>>
    BY <1>12 DEF Delete, clusterVars, workerVars
  <2> HIDE DEF l
  <2>2. o \in Object
    BY <1>2, <2>1 DEF Object
  <2>3. Touched(obj[r], o)
    BY <1>2, <2>1, Touching
  <2> HIDE DEF o
  <2>4. Began(r, o)
    BY <1>2, <2>3, TouchedBegan DEF BeganInv
  <2> QED
    BY <1>4, <1>5, <2>1, <2>2, <2>4 DEF BeganInv
<1>13. ASSUME NEW r \in Rollbacks, Sync(r) PROVE BeganInv'
  <2>1. UNCHANGED git /\ UNCHANGED <<obj, pc, cur, mem>>
        /\ \A q \in Rollbacks : cache'[q] \in {cache[q], obj[q]}
    BY <1>1, <1>13 DEF Sync, clusterVars, workerVars, StoredOK
  <2>2. \A q \in Rollbacks : Began(q, obj[q])' /\ Began(q, cache[q])'
    BY <1>1, <2>1 DEF BeganInv, Began, SameUps
  <2> QED
    BY <1>4, <2>1, <2>2 DEF BeganInv
<1>14. ASSUME NEW r \in Rollbacks, DeleteUpgrade(r) PROVE BeganInv'
  BY <1>3, <1>4, <1>14 DEF DeleteUpgrade, clusterVars, stored, workerVars, BeganInv
<1>15. CASE Tick
  <2>1. UNCHANGED git /\ UNCHANGED <<pc, cur>>
    BY <1>15 DEF Tick, clusterVars
  <2>2. \A o \in Object, r \in Rollbacks : Began(r, o) => Began(r, Older(o))
    BY Touching, TouchedBegan
  <2>3. \A r \in Rollbacks : Began(r, obj'[r]) /\ Began(r, cache'[r])
    BY <1>2, <1>15, <2>2 DEF Tick, BeganInv
  <2>4. pc # "idle" => Began(cur, mem')
    BY <1>2, <1>15, <2>2 DEF Tick, BeganInv
  <2> QED
    BY <1>1, <1>2, <2>1, <2>3, <2>4 DEF BeganInv, Began, SameUps
<1>16. CASE EnvironmentNext /\ UNCHANGED <<upgrade, stored, workerVars, faults>>
  <2>1. UNCHANGED git
    BY <1>16
       DEF EnvironmentNext, FluxApplyClaims, FluxApply, PodStartMounting, PodStart, PodReady,
           PodStop, SnapshotReady, ExternalResume, updateManagedAppStatus, ClaimGone,
           ClaimBound, PruneSnapshot, clusterVars
  <2> QED
    BY <1>3, <1>4, <1>16, <2>1 DEF stored, workerVars, BeganInv
<1>17. CASE UNCHANGED vars
  BY <1>3, <1>4, <1>17 DEF vars, clusterVars, stored, workerVars, BeganInv
<1> QED
  BY <1>7, <1>8, <1>9, <1>10, <1>11, <1>12, <1>13, <1>14, <1>15, <1>16, <1>17
     DEF Next, WorkerStep

\* A new rollback has neither restored nor reverted anything.
LEMMA NewBegan == \A r : Began(r, NewObject)
  BY DEF Began, NewObject
-----------------------------------------------------------------------------
(* What a rollback has stopped stays down, and so what it restores stays      *)
(* clean, also when an eviction hid other workloads from it: again for the    *)
(* proofs about both controllers.                                             *)

\* The workloads that mount claim p are among those that o has scaled down.
Covers(o, p) == \A w \in Workloads : p \in Mounts[w] => w \in o.scaling

\* What a version o of an object says of the workloads in it, when the claims P are
\* to be restored and Git is not reverted: Flux is held, they are not in R, the
\* workloads that are scaled up, they mount a claim of P, and when they are stopped
\* they have no pods in D.
Stopped(o, P, held, R, D) ==
  /\ o.suspended = "absent" => o.scaling = {}
  /\ ~o.gitReverted =>
       /\ o.suspended # "absent" => held
       /\ \A w \in o.scaling : /\ w \notin R /\ Mounts[w] \cap P # {}
                               /\ o.workloadStopped => D[w] = "none"

\* A claim has the data of a snapshot only once the workloads are stopped, and is
\* clean if those are all that mount it.
StoppedClean(r) ==
  /\ \A p \in PVCs : claims[p].data > Live =>
       obj[r].workloadStopped /\ RestoreSet(upgrade[r]) # {}
  /\ \A p \in RestoreSet(upgrade[r]) : Covers(obj[r], p) => CleanClaim(r, p)

\* The inductive invariant, when the cache is current: the worker's copy says the
\* same, and once the workloads are stopped it is no longer changed which.
StopInv ==
  /\ \A r \in Rollbacks :
       Stopped(obj[r], RestoreSet(upgrade[r]), Held, replicas, pods) /\ StoppedClean(r)
  /\ pc # "idle" =>
       /\ Stopped(mem, RestoreSet(upgrade[cur]), Held, replicas, pods)
       /\ base.workloadStopped => mem.workloadStopped /\ mem.scaling = base.scaling

\* What q says of that is what o says.
SameStop(o, q) == SameMarks(o, q) /\ q.scaling = o.scaling

\* Touching an object leaves it alone.
LEMMA TouchedStop ==
  ASSUME NEW o \in Object, NEW q, Touched(o, q)
  PROVE  SameStop(o, q)
  BY DEF Touched, SameStop, SameMarks, Object

\* It stays true while what is held stays held.
LEMMA StoppedKept ==
  ASSUME SameUps, HeldStays, NEW r \in Rollbacks, NEW o \in Object, NEW q, SameStop(o, q),
         Stopped(o, RestoreSet(upgrade[r]), Held, replicas, pods)
  PROVE  Stopped(q, RestoreSet(upgrade'[r]), Held', replicas', pods')
<1>1. /\ q.suspended = o.suspended /\ q.workloadStopped = o.workloadStopped
      /\ q.gitReverted = o.gitReverted /\ q.scaling = o.scaling
  BY DEF SameStop, SameMarks
<1>2. RestoreSet(upgrade'[r]) = RestoreSet(upgrade[r]) /\ o.scaling \subseteq Workloads
  BY DEF SameUps, Object
<1>3. CASE o.suspended = "absent" \/ o.gitReverted
  BY <1>1, <1>2, <1>3 DEF Stopped
<1>4. CASE o.suspended # "absent" /\ ~o.gitReverted
  <2>1. Held
    BY <1>4 DEF Stopped
  <2>2. Held' /\ \A w \in Workloads : StaysDown(w)
    BY <2>1 DEF HeldStays
  <2>3. \A w \in o.scaling : /\ w \notin replicas /\ Mounts[w] \cap RestoreSet(upgrade[r]) # {}
                             /\ o.workloadStopped => pods[w] = "none"
    BY <1>4 DEF Stopped
  <2>4. \A w \in o.scaling : w \notin replicas' /\ (o.workloadStopped => pods'[w] = "none")
    BY <1>2, <2>2, <2>3 DEF StaysDown, Down
  <2> QED
    BY <1>1, <1>2, <1>4, <2>2, <2>3, <2>4 DEF Stopped
<1> QED
  BY <1>3, <1>4

\* A step that changes neither what is stored in that respect nor the data from
\* snapshots, while what is held stays held.
LEMMA KeepStop ==
  ASSUME IInv, StopInv, SameUps, HeldStays,
         \A r \in Rollbacks : SameStop(obj[r], obj'[r]),
         \A p \in PVCs : claims'[p].data > Live => claims[p].data > Live,
         \A r \in Rollbacks : \A p \in RestoreSet(upgrade[r]) :
           CleanClaim(r, p) => CleanClaim(r, p)',
         pc' # "idle" =>
           \/ pc # "idle" /\ cur' = cur /\ SameStop(mem, mem') /\ SameStop(base, base')
           \/ /\ Stopped(mem', RestoreSet(upgrade'[cur']), Held', replicas', pods')
              /\ base'.workloadStopped => mem'.workloadStopped /\ mem'.scaling = base'.scaling
  PROVE  StopInv'
<1>1. /\ \A r \in Rollbacks : obj[r] \in Object
      /\ mem \in Object /\ base \in Object /\ (pc # "idle" => cur \in Rollbacks)
  BY DEF IInv, StoredOK, WorkerClose
<1>2. \A r \in Rollbacks : Stopped(obj'[r], RestoreSet(upgrade'[r]), Held', replicas', pods')
  BY <1>1, StoppedKept DEF StopInv
<1>3. ASSUME NEW r \in Rollbacks PROVE StoppedClean(r)'
  <2>1. StoppedClean(r) /\ obj'[r].workloadStopped = obj[r].workloadStopped
        /\ obj'[r].scaling = obj[r].scaling /\ RestoreSet(upgrade'[r]) = RestoreSet(upgrade[r])
    BY <1>3 DEF StopInv, SameStop, SameMarks, SameUps
  <2>2. \A p \in PVCs : claims'[p].data > Live =>
          obj'[r].workloadStopped /\ RestoreSet(upgrade'[r]) # {}
    BY <2>1 DEF StoppedClean
  <2>3. \A p \in RestoreSet(upgrade[r]) : Covers(obj'[r], p) => CleanClaim(r, p)'
    BY <2>1 DEF StoppedClean, Covers
  <2>4. \A p : Covers(obj[r], p)' <=> Covers(obj'[r], p)
    BY DEF Covers
  <2> QED
    BY <2>1, <2>2, <2>3, <2>4 DEF StoppedClean
<1>4. (pc # "idle" =>
        /\ Stopped(mem, RestoreSet(upgrade[cur]), Held, replicas, pods)
        /\ base.workloadStopped => mem.workloadStopped /\ mem.scaling = base.scaling)'
  <2> SUFFICES ASSUME pc' # "idle"
               PROVE  /\ Stopped(mem', RestoreSet(upgrade'[cur']), Held', replicas', pods')
                      /\ base'.workloadStopped =>
                           mem'.workloadStopped /\ mem'.scaling = base'.scaling
    OBVIOUS
  <2>1. CASE pc # "idle" /\ cur' = cur /\ SameStop(mem, mem') /\ SameStop(base, base')
    <3>1. Stopped(mem, RestoreSet(upgrade[cur]), Held, replicas, pods) /\ cur \in Rollbacks
      BY <1>1, <2>1 DEF StopInv
    <3>2. Stopped(mem', RestoreSet(upgrade'[cur]), Held', replicas', pods')
      BY <1>1, <2>1, <3>1, StoppedKept
    <3> QED
      BY <2>1, <3>2 DEF StopInv, SameStop, SameMarks
  <2> QED
    BY <2>1
<1> QED
  BY <1>2, <1>3, <1>4 DEF StopInv

\* A step that leaves the pods alone and scales nothing up.
LEMMA CalmHeld ==
  ASSUME SameUps, UNCHANGED <<pods, app, applied>>, suspended => suspended',
         replicas' \subseteq replicas,
         \A r \in Rollbacks : git' \in {git, upgrade[r].previousVersion},
         \A p \in PVCs : claims'[p].data = claims[p].data /\ claims'[p].opened = claims[p].opened
  PROVE  /\ HeldStays /\ \A p \in PVCs : claims'[p].data > Live => claims[p].data > Live
         /\ \A r \in Rollbacks : \A p \in RestoreSet(upgrade[r]) :
              CleanClaim(r, p) => CleanClaim(r, p)'
<1>1. HeldStays /\ (Held => Held')
  BY DEF HeldStays, Held, ValidateSuspendTarget, StaysDown, Down
<1>2. \A p : StoppedFor(p) => StoppedFor(p)'
  BY DEF StoppedFor, Down
<1>3. \A r \in Rollbacks : \A p \in RestoreSet(upgrade[r]) : p \in PVCs
  BY DEF RestoreSet
<1> QED
  BY <1>1, <1>2, <1>3, CleanKept

\* A handler's step that changes the copy in that respect in no way, or truly.
LEMMA CalmStop ==
  ASSUME IInv, StopInv, [Next]_vars, UNCHANGED <<stored, pods, app, applied>>, pc # "idle",
         suspended => suspended', replicas' \subseteq replicas,
         \A r \in Rollbacks : git' \in {git, upgrade[r].previousVersion},
         \A p \in PVCs : claims'[p].data = claims[p].data /\ claims'[p].opened = claims[p].opened,
         \/ Return
         \/ /\ UNCHANGED <<cur, base>>
            /\ \/ SameStop(mem, mem')
               \/ /\ Stopped(mem', RestoreSet(upgrade[cur]), Held', replicas', pods')
                  /\ base.workloadStopped => mem'.workloadStopped /\ mem'.scaling = base.scaling
  PROVE  StopInv'
<1>1. SameUps /\ cur \in Rollbacks
  BY UpgradesSame DEF IInv, WorkerClose
<1>2. /\ HeldStays /\ \A p \in PVCs : claims'[p].data > Live => claims[p].data > Live
      /\ \A r \in Rollbacks : \A p \in RestoreSet(upgrade[r]) :
           CleanClaim(r, p) => CleanClaim(r, p)'
  BY <1>1, CalmHeld
<1>3. \A r \in Rollbacks : SameStop(obj[r], obj'[r])
  BY DEF stored, SameStop, SameMarks
<1>4. SameStop(base, base) /\ RestoreSet(upgrade'[cur]) = RestoreSet(upgrade[cur])
  BY <1>1 DEF SameStop, SameMarks, SameUps
<1>5. CASE Return
  <2>1. pc' = "idle"
    BY <1>5 DEF Return
  <2> QED
    BY <1>1, <1>2, <1>3, <2>1, KeepStop
<1>6. CASE /\ UNCHANGED <<cur, base>>
           /\ \/ SameStop(mem, mem')
              \/ /\ Stopped(mem', RestoreSet(upgrade[cur]), Held', replicas', pods')
                 /\ base.workloadStopped => mem'.workloadStopped /\ mem'.scaling = base.scaling
  <2>1. \/ pc # "idle" /\ cur' = cur /\ SameStop(mem, mem') /\ SameStop(base, base')
        \/ /\ Stopped(mem', RestoreSet(upgrade'[cur']), Held', replicas', pods')
           /\ base'.workloadStopped => mem'.workloadStopped /\ mem'.scaling = base'.scaling
    BY <1>4, <1>6
  <2> QED
    BY <1>1, <1>2, <1>3, <2>1, KeepStop
<1> QED
  BY <1>5, <1>6

\* A failure, and the timers, say nothing of it.
LEMMA FailStop ==
  ASSUME NEW m \in Object, SameStop(mem, m), NEW reason, NEW n, setFailed(m, reason, n)
  PROVE  UNCHANGED <<cur, base>> /\ SameStop(mem, mem')
  BY DEF setFailed, WriteStatus, SameStop, SameMarks, Object

LEMMA TimerStop ==
  ASSUME mem \in Object
  PROVE  /\ SameStop(mem, mem) /\ SameStop(mem, setPhaseStartIfNeeded(mem))
         /\ SameStop(mem, resetPhaseStart(mem))
         /\ setPhaseStartIfNeeded(mem) \in Object /\ resetPhaseStart(mem) \in Object
<1>1. setPhaseStartIfNeeded(mem) \in Object /\ resetPhaseStart(mem) \in Object
  BY TimerMarks
<1> QED
  BY <1>1 DEF setPhaseStartIfNeeded, resetPhaseStart, SameStop, SameMarks, Object

\* The handlers that neither stop anything, nor make a claim, nor resume.
LEMMA QuietStop ==
  ASSUME OneRollback, IInv, StopInv, [Next]_vars,
         \/ handleVolumeRestore \/ deleteClaim \/ awaitBound \/ handleGitRevert \/ commitFile
         \/ checkReconciled \/ handleHealthChecking \/ handleCompleted
  PROVE  StopInv'
<1> DEFINE m == setPhaseStartIfNeeded(mem)
           t == resetPhaseStart(mem)
<1>1. mem \in Object /\ WorldOK /\ \A p \in PVCs : claims[p] \in Claim
  BY DEF IInv, WorkerClose, WorldOK
<1>2. /\ SameStop(mem, mem) /\ SameStop(mem, m) /\ SameStop(mem, t)
      /\ m \in Object /\ t \in Object
  BY <1>1, TimerStop
<1> HIDE DEF m, t
<1> DEFINE Step == \/ Return
                   \/ /\ UNCHANGED <<cur, base>>
                      /\ \/ SameStop(mem, mem')
                         \/ /\ Stopped(mem', RestoreSet(upgrade[cur]), Held', replicas', pods')
                            /\ base.workloadStopped =>
                                 mem'.workloadStopped /\ mem'.scaling = base.scaling
<1>3. ASSUME NEW o \in {mem, m}, NEW n, Fail(o, n) PROVE Step
  BY <1>1, <1>2, <1>3, FailStop DEF Fail
<1>4. CASE handleVolumeRestore \/ handleGitRevert \/ handleHealthChecking \/ handleCompleted
  <2>1. /\ UNCHANGED <<clusterVars, claims, stored>> /\ pc # "idle"
    BY <1>4 DEF handleVolumeRestore, handleGitRevert, handleHealthChecking, handleCompleted, At
  <2>2. ASSUME NEW x, NEW o \in {mem, m}, mem' = [o EXCEPT !.healthy = x]
                                          \/ mem' = [o EXCEPT !.complete = x]
        PROVE  SameStop(mem, mem')
    BY <1>1, <1>2, <2>2 DEF SameStop, SameMarks, Object
  <2>3. Step
    BY <1>2, <1>3, <1>4, <2>2
       DEF handleVolumeRestore, handleGitRevert, handleHealthChecking, handleCompleted,
           WriteStatus, m
  <2> HIDE DEF Step
  <2> QED
    BY <2>1, <2>3, CalmStop DEF clusterVars, fluxVars, workloadVars, Step
<1>5. CASE awaitBound \/ checkReconciled
  <2>1. /\ UNCHANGED <<clusterVars, claims, stored>> /\ pc # "idle"
    BY <1>5 DEF awaitBound, checkReconciled
  <2>2. ASSUME NEW x, NEW y, mem' = [t EXCEPT !.restored = x, !.volumesRestored = y]
                             \/ mem' = [t EXCEPT !.reconciled = x]
        PROVE  SameStop(mem, mem')
    BY <1>2, <2>2 DEF SameStop, SameMarks, Object
  <2>3. Step
    BY <1>2, <1>3, <1>5, <2>2 DEF awaitBound, checkReconciled, WriteStatus, t
  <2> HIDE DEF Step
  <2> QED
    BY <2>1, <2>3, CalmStop DEF clusterVars, fluxVars, workloadVars, Step
<1>6. CASE deleteClaim
  <2>1. UNCHANGED <<clusterVars, stored>> /\ pc # "idle"
    BY <1>6 DEF deleteClaim
  <2>2. \A p \in PVCs : claims'[p].data = claims[p].data /\ claims'[p].opened = claims[p].opened
    <3>1. ASSUME NEW q \in PVCs, DeletePVC(q)
          PROVE  \A p \in PVCs : claims'[p].data = claims[p].data
                                 /\ claims'[p].opened = claims[p].opened
      BY <1>1, <3>1 DEF DeletePVC, WorldOK, Claim
    <3>2. \E q \in PVCs : DeletePVC(q) \/ UNCHANGED claims
      BY <1>6, UnrestoredIn DEF deleteClaim
    <3> QED
      BY <3>1, <3>2
  <2>3. Step
    BY <1>2, <1>3, <1>6 DEF deleteClaim
  <2> HIDE DEF Step
  <2> QED
    BY <2>1, <2>2, <2>3, CalmStop DEF clusterVars, fluxVars, workloadVars, Step
<1>7. CASE commitFile
  <2>1. /\ UNCHANGED <<fluxVars, workloadVars, app, claims, stored>> /\ pc = "push"
        /\ git' \in {git, upgrade[cur].previousVersion} /\ cur \in Rollbacks
    BY <1>7 DEF commitFile, Up, IInv, WorkerClose
  <2>2. ASSUME mem' = [mem EXCEPT !.gitReverted = TRUE]
        PROVE  /\ Stopped(mem', RestoreSet(upgrade[cur]), Held', replicas', pods')
               /\ base.workloadStopped => mem'.workloadStopped /\ mem'.scaling = base.scaling
    BY <1>1, <2>1, <2>2 DEF StopInv, Stopped, Object
  <2>3. Step
    BY <1>2, <1>3, <1>7, <2>2 DEF commitFile, WriteStatus
  <2>4. \A r \in Rollbacks : git' \in {git, upgrade[r].previousVersion}
    BY <2>1 DEF OneRollback
  <2> HIDE DEF Step
  <2> QED
    BY <2>1, <2>3, <2>4, CalmStop DEF fluxVars, workloadVars, Step
<1> QED
  BY <1>4, <1>5, <1>6, <1>7

\* handleSuspend: Flux is held, and nothing is scaled down yet.
LEMMA SuspendStop ==
  ASSUME KustomizationCurrent, IInv, StopInv, [Next]_vars, handleSuspend
  PROVE  StopInv'
<1>1. mem \in Object /\ SameStop(mem, mem)
  BY TimerStop DEF IInv, WorkerClose
<1>2. /\ pc # "idle" /\ mem.suspended = "absent" /\ mem = base /\ Ordered(base)
      /\ UNCHANGED <<stored, workloadVars, git, app, applied, claims>>
      /\ suspended => suspended'
  <2>1. suspended \in BOOLEAN
    BY DEF IInv, WorldOK, ClusterTypeOK
  <2>2. suspended' \in {suspended, TRUE}
    BY <2>1, SuspendFlag DEF handleSuspend
  <2> QED
    BY <2>1, <2>2, RunStage DEF handleSuspend, At, Phase, IInv
<1>3. ASSUME NEW reason, NEW n, setFailed(mem, reason, n)
      PROVE  UNCHANGED <<cur, base>> /\ SameStop(mem, mem')
  BY <1>1, <1>3, FailStop
<1>4. ASSUME NEW x, mem' = [mem EXCEPT !.suspended = "true", !.volumesRestored = x],
             SuspendKustomization(TRUE), runRollbackPreflight
      PROVE  /\ Stopped(mem', RestoreSet(upgrade[cur]), Held', replicas', pods')
             /\ base.workloadStopped => mem'.workloadStopped /\ mem'.scaling = base.scaling
  <2>1. mem.scaling = {} /\ mem'.scaling = {}
    BY <1>1, <1>2, <1>4 DEF StopInv, Stopped, Object
  <2>2. Held'
    <3>1. suspended'
      BY <1>4, SuspendFlag DEF IInv, WorldOK, ClusterTypeOK
    <3> QED
      BY <1>2, <1>4, <3>1 DEF runRollbackPreflight, Held, ValidateSuspendTarget
  <2> QED
    BY <1>2, <2>1, <2>2 DEF Stopped, Ordered
<1>5. /\ UNCHANGED <<cur, base>>
      /\ \/ SameStop(mem, mem')
         \/ /\ Stopped(mem', RestoreSet(upgrade[cur]), Held', replicas', pods')
            /\ base.workloadStopped => mem'.workloadStopped /\ mem'.scaling = base.scaling
  BY <1>3, <1>4 DEF handleSuspend, Fail, WriteStatus
<1> QED
  BY <1>2, <1>5, CalmStop DEF workloadVars

\* handleStopWorkload: the workloads it finds are scaled down.
LEMMA StopStop ==
  ASSUME IInv, StopInv, [Next]_vars, handleStopWorkload
  PROVE  StopInv'
<1> DEFINE m == setPhaseStartIfNeeded(mem)
           W == DiscoverWorkloadsForPVCs
<1>1. mem \in Object /\ m \in Object /\ SameStop(mem, m)
  BY TimerStop DEF IInv, WorkerClose
<1>2. /\ pc # "idle" /\ ~base.workloadStopped /\ mem = base /\ Ordered(base)
      /\ mem.suspended # "absent" /\ cur \in Rollbacks
      /\ UNCHANGED <<fluxVars, pods, stored, git, app, claims>>
  BY RunStage DEF handleStopWorkload, At, Phase, IInv
<1>3. replicas' \subseteq replicas
  BY DEF handleStopWorkload, ScaleDown
<1>4. ~mem.gitReverted /\ (Held <=> Held')
  BY <1>2 DEF Ordered, Held, ValidateSuspendTarget, fluxVars
<1>5. /\ Held /\ \A w \in mem.scaling : w \notin replicas
                                       /\ Mounts[w] \cap RestoreSet(upgrade[cur]) # {}
      /\ mem.scaling \subseteq Workloads
  BY <1>1, <1>2, <1>4 DEF StopInv, Stopped, Object
<1>6. W = {w \in Workloads : pods[w] # "none" /\ Mounts[w] \cap RestoreSet(upgrade[cur]) # {}}
  BY DEF DiscoverWorkloadsForPVCs, Running, ToRestore, Recorded, Up, RestoreSet
<1> HIDE DEF m, W
<1>7. ASSUME NEW n, Fail(m, n) PROVE UNCHANGED <<cur, base>> /\ SameStop(mem, mem')
  BY <1>1, <1>7, FailStop DEF Fail
<1>8. ASSUME W = {}, mem' = [m EXCEPT !.workloadStopped = TRUE], UNCHANGED replicas
      PROVE  Stopped(mem', RestoreSet(upgrade[cur]), Held', replicas', pods')
  <2>1. /\ mem'.scaling = mem.scaling /\ mem'.suspended = mem.suspended
        /\ mem'.gitReverted = mem.gitReverted
    BY <1>1, <1>8 DEF SameStop, SameMarks, Object
  <2>2. \A w \in mem.scaling : pods'[w] = "none"
    BY <1>2, <1>5, <1>6, <1>8
  <2> QED
    BY <1>2, <1>4, <1>5, <1>8, <2>1, <2>2 DEF Stopped
<1>9. ASSUME mem' = [m EXCEPT !.scaling = W], ScaleDown(W)
      PROVE  Stopped(mem', RestoreSet(upgrade[cur]), Held', replicas', pods')
  <2>1. /\ mem'.scaling = W /\ mem'.suspended = mem.suspended
        /\ mem'.workloadStopped = mem.workloadStopped
    BY <1>1, <1>9 DEF SameStop, SameMarks, Object
  <2> QED
    BY <1>2, <1>4, <1>5, <1>6, <1>9, <2>1 DEF Stopped, ScaleDown
<1>10. /\ UNCHANGED <<cur, base>>
       /\ \/ SameStop(mem, mem')
          \/ Stopped(mem', RestoreSet(upgrade[cur]), Held', replicas', pods')
  BY <1>7, <1>8, <1>9 DEF handleStopWorkload, WriteStatus, m, W
<1> QED
  BY <1>2, <1>3, <1>10, CalmStop DEF fluxVars

\* checkStopped: their pods are gone.
LEMMA CheckStop ==
  ASSUME IInv, StopInv, [Next]_vars, checkStopped
  PROVE  StopInv'
<1> DEFINE t == resetPhaseStart(mem)
<1>1. mem \in Object /\ t \in Object /\ SameStop(mem, mem) /\ SameStop(mem, t)
  BY TimerStop DEF IInv, WorkerClose
<1>2. UNCHANGED <<clusterVars, stored, claims>> /\ pc = "scaled" /\ cur \in Rollbacks
  BY DEF checkStopped, IInv, WorkerClose
<1>3. ~base.workloadStopped
  <2>1. base \in Object /\ Stage(base) = "stop"
    BY <1>2 DEF IInv, WorkerClose
  <2> QED
    BY <2>1, StagePhase DEF Phase
<1> HIDE DEF t
<1>4. ASSUME NEW n, Fail(mem, n) PROVE UNCHANGED <<cur, base>> /\ SameStop(mem, mem')
  BY <1>1, <1>4, FailStop DEF Fail
<1>5. ASSUME \A w \in mem.scaling : IsScaledDown(w), mem' = [t EXCEPT !.workloadStopped = TRUE]
      PROVE  Stopped(mem', RestoreSet(upgrade[cur]), Held', replicas', pods')
  <2>1. /\ mem'.scaling = mem.scaling /\ mem'.suspended = mem.suspended
        /\ mem'.gitReverted = mem.gitReverted
    BY <1>1, <1>5 DEF SameStop, SameMarks, Object
  <2>2. (Held <=> Held') /\ UNCHANGED <<replicas, pods>>
    BY <1>2 DEF Held, ValidateSuspendTarget, clusterVars, fluxVars, workloadVars
  <2> QED
    BY <1>2, <1>5, <2>1, <2>2 DEF StopInv, Stopped, IsScaledDown
<1>6. /\ UNCHANGED <<cur, base>>
      /\ \/ SameStop(mem, mem')
         \/ Stopped(mem', RestoreSet(upgrade[cur]), Held', replicas', pods')
  BY <1>1, <1>4, <1>5 DEF checkStopped, WriteStatus, t
<1> QED
  BY <1>2, <1>3, <1>6, CalmStop DEF clusterVars, fluxVars, workloadVars

\* RestorePVCFromSnapshot: a claim is made while the workloads that mount it are
\* down, if they are all known.
LEMMA RestoreStop ==
  ASSUME OneRollback, IInv, RevertInv, ~lagged, StopInv, [Next]_vars, RestorePVCFromSnapshot
  PROVE  StopInv'
<1>1. /\ mem \in Object /\ SameStop(mem, mem) /\ WorldOK /\ cur \in Rollbacks /\ pc = "deleting"
      /\ UNCHANGED <<clusterVars, stored>> /\ SameUps /\ base \in Object
  BY TimerStop, UpgradesSame DEF RestorePVCFromSnapshot, IInv, WorkerClose
<1>2. /\ claims \in [PVCs -> Claim] /\ \A p \in PVCs : claims[p] \in Claim
      /\ obj[cur] \in Object /\ RestoreSet(upgrade[cur]) \subseteq PVCs
  BY <1>1 DEF WorldOK, IInv, StoredOK, RestoreSet
<1>3. ASSUME NEW n, Fail(mem, n) PROVE UNCHANGED <<cur, base>> /\ SameStop(mem, mem')
  BY <1>1, <1>3, FailStop DEF Fail
<1>4. CASE UNCHANGED claims /\ (Return \/ \E n : Fail(mem, n))
  BY <1>1, <1>3, <1>4, CalmStop DEF clusterVars, fluxVars, workloadVars
<1>5. ASSUME NEW p \in Unrestored(mem),
             claims' = [claims EXCEPT ![p] = NewClaim(Up.pvcSnapshots[p])],
             UNCHANGED <<cur, base>>, SameStop(mem, mem')
      PROVE  StopInv'
  <2>1. p \in PVCs /\ p \in RestoreSet(upgrade[cur])
    BY <1>5, UnrestoredIn
  <2>2. base.workloadStopped /\ ~base.gitReverted /\ base.suspended # "absent"
    <3>1. Stage(base) = "restore" /\ ~Terminal(base) /\ Ordered(base)
      BY <1>1, RestoringStage DEF IInv, WorkerClose
    <3>2. Phase(base) = "restore"
      BY <1>1, <3>1, PhaseStage
    <3> QED
      BY <3>1, <3>2 DEF Phase, Ordered
  <2>3. /\ obj[cur].workloadStopped /\ ~obj[cur].gitReverted /\ obj[cur].suspended # "absent"
    <3>1. SameStop(base, obj[cur])
      BY <1>1, TouchedStop DEF RevertInv, WorkerRestored
    <3> QED
      BY <2>2, <3>1 DEF SameStop, SameMarks
  <2>4. HeldStays /\ (Held <=> Held') /\ \A q : StoppedFor(q) <=> StoppedFor(q)'
    BY <1>1 DEF HeldStays, Held, ValidateSuspendTarget, StaysDown, Down, StoppedFor,
                clusterVars, fluxVars, workloadVars
  <2>5. Held /\ (Covers(obj[cur], p) => StoppedFor(p))
    <3>1. Stopped(obj[cur], RestoreSet(upgrade[cur]), Held, replicas, pods)
      BY <1>1 DEF StopInv
    <3> QED
      BY <2>3, <3>1 DEF Stopped, Covers, StoppedFor, Down
  <2>6. ASSUME NEW q \in RestoreSet(upgrade[cur]), Covers(obj[cur], q)
        PROVE  CleanClaim(cur, q) /\ (q = p => StoppedFor(q))
    BY <1>1, <2>5, <2>6 DEF StopInv, StoppedClean
  <2>7. ASSUME NEW q \in RestoreSet(upgrade[cur]), Covers(obj[cur], q),
               NEW r \in Rollbacks, r = cur
        PROVE  CleanClaim(r, q)'
    <3>1. CleanClaim(r, q)
      BY <2>6, <2>7
    <3>2. CASE q # p
      <4>1. claims'[q] = claims[q] /\ UNCHANGED <<applied, git>>
        BY <1>1, <1>2, <1>5, <2>7, <3>2 DEF clusterVars, fluxVars
      <4> QED
        BY <1>1, <2>4, <3>1, <4>1, CleanKept
    <3>3. CASE q = p
      <4>1. claims'[q].opened = {}
        BY <1>2, <1>5, <2>1, <3>3 DEF NewClaim
      <4> QED
        BY <2>4, <2>5, <2>7, <3>3, <4>1 DEF CleanClaim
    <3> QED
      BY <3>2, <3>3
  <2>8. /\ obj' = obj /\ RestoreSet(upgrade'[cur]) = RestoreSet(upgrade[cur])
    BY <1>1 DEF stored, SameUps
  <2>9. ASSUME NEW r \in Rollbacks PROVE StoppedClean(r)'
    <3>1. r = cur
      BY <1>1 DEF OneRollback
    <3>2. \A q : Covers(obj[r], q)' <=> Covers(obj[cur], q)
      BY <2>8, <3>1 DEF Covers
    <3>3. \A q \in RestoreSet(upgrade[cur]) : Covers(obj[cur], q) => CleanClaim(r, q)'
      BY <2>7, <2>9, <3>1
    <3>4. \A q \in PVCs : claims'[q].data > Live =>
            obj'[r].workloadStopped /\ RestoreSet(upgrade'[r]) # {}
      BY <2>1, <2>3, <2>8, <3>1
    <3> QED
      BY <2>8, <3>1, <3>2, <3>3, <3>4 DEF StoppedClean
  <2>10. \A r \in Rollbacks : Stopped(obj'[r], RestoreSet(upgrade'[r]), Held', replicas', pods')
    <3>1. \A r \in Rollbacks : obj[r] \in Object /\ SameStop(obj[r], obj'[r])
      BY <2>8 DEF IInv, StoredOK, SameStop, SameMarks
    <3> QED
      BY <1>1, <2>4, <3>1, StoppedKept DEF StopInv
  <2>11. Stopped(mem', RestoreSet(upgrade'[cur]), Held', replicas', pods')
    <3>1. Stopped(mem, RestoreSet(upgrade[cur]), Held, replicas, pods)
      BY <1>1 DEF StopInv
    <3> QED
      BY <1>1, <1>5, <2>4, <3>1, StoppedKept
  <2>12. base'.workloadStopped => mem'.workloadStopped /\ mem'.scaling = base'.scaling
    BY <1>1, <1>5 DEF StopInv, SameStop, SameMarks
  <2> QED
    BY <1>5, <2>9, <2>10, <2>11, <2>12 DEF StopInv
<1>6. ASSUME NEW p, mem' = [mem EXCEPT !.restored[p] = "pending"] PROVE SameStop(mem, mem')
  BY <1>1, <1>6 DEF SameStop, SameMarks, Object
<1> QED
  BY <1>3, <1>4, <1>5, <1>6 DEF RestorePVCFromSnapshot, WriteStatus

\* handleReconciling: Flux is resumed when the old version is in Git.
LEMMA ReconcilingStop ==
  ASSUME OneRollback, IInv, RevertInv, ~lagged, BeganInv, StopInv, [Next]_vars,
         handleReconciling
  PROVE  StopInv'
<1> DEFINE m == setPhaseStartIfNeeded(mem)
<1>1. /\ mem \in Object /\ m \in Object /\ SameStop(mem, m) /\ cur \in Rollbacks
      /\ UNCHANGED <<stored, workloadVars, git, app, applied, claims>> /\ SameUps
      /\ pc # "idle" /\ mem = base /\ mem.gitReverted /\ mem.suspended # "absent"
  <2>1. mem \in Object /\ m \in Object /\ SameStop(mem, m)
    BY TimerStop DEF IInv, WorkerClose
  <2>2. UNCHANGED <<stored, workloadVars, git, app, applied, claims>> /\ SameUps
    BY UpgradesSame DEF handleReconciling, IInv
  <2>3. mem = base /\ Phase(base) = "reconcile" /\ pc # "idle" /\ cur \in Rollbacks
    BY RunStage DEF handleReconciling, IInv
  <2> QED
    BY <2>1, <2>2, <2>3 DEF Phase
<1>2. obj[cur].gitReverted /\ obj[cur].suspended # "absent" /\ obj[cur] \in Object
  <2>1. SameStop(base, obj[cur]) /\ obj[cur] \in Object
    BY <1>1, TouchedStop DEF RevertInv, WorkerRestored, IInv, StoredOK
  <2> QED
    BY <1>1, <2>1 DEF SameStop, SameMarks
<1>3. git = upgrade[cur].previousVersion
  BY <1>1 DEF BeganInv, Began
<1> HIDE DEF m
<1>4. UNCHANGED <<cur, base>> /\ mem'.gitReverted /\ mem'.suspended # "absent"
      /\ mem'.workloadStopped = mem.workloadStopped /\ mem'.scaling = mem.scaling
  <2>1. ASSUME NEW n, Fail(m, n)
        PROVE  UNCHANGED <<cur, base>> /\ SameStop(mem, mem')
    BY <1>1, <2>1, FailStop DEF Fail
  <2>2. ASSUME mem' = [m EXCEPT !.suspended = "false"]
        PROVE  mem'.gitReverted /\ mem'.suspended # "absent"
               /\ mem'.workloadStopped = mem.workloadStopped /\ mem'.scaling = mem.scaling
    BY <1>1, <2>2 DEF SameStop, SameMarks, Object
  <2> QED
    BY <1>1, <2>1, <2>2 DEF handleReconciling, WriteStatus, SameStop, SameMarks, m
<1>5. obj' = obj /\ RestoreSet(upgrade'[cur]) = RestoreSet(upgrade[cur])
  BY <1>1 DEF stored, SameUps
<1>6. ASSUME NEW r \in Rollbacks, NEW p \in RestoreSet(upgrade[r]), CleanClaim(r, p)
      PROVE  CleanClaim(r, p)'
  <2>1. StoppedFor(p) => StoppedFor(p)'
    BY <1>1 DEF StoppedFor, Down, workloadVars
  <2>2. git = upgrade[r].previousVersion
    BY <1>1, <1>3 DEF OneRollback
  <2> QED
    BY <1>1, <1>6, <2>1, <2>2, CleanKept
<1>7. ASSUME NEW r \in Rollbacks PROVE StoppedClean(r)'
  <2>1. StoppedClean(r) /\ RestoreSet(upgrade'[r]) = RestoreSet(upgrade[r])
    BY <1>1 DEF StopInv, SameUps
  <2>2. \A q : Covers(obj[r], q)' <=> Covers(obj[r], q)
    BY <1>5 DEF Covers
  <2>3. \A p \in RestoreSet(upgrade[r]) : CleanClaim(r, p) => CleanClaim(r, p)'
    BY <1>6
  <2>4. \A p \in PVCs : claims'[p].data > Live =>
          obj'[r].workloadStopped /\ RestoreSet(upgrade'[r]) # {}
    BY <1>1, <1>5, <2>1 DEF StoppedClean
  <2> QED
    BY <2>1, <2>2, <2>3, <2>4 DEF StoppedClean
<1>8. \A r \in Rollbacks : Stopped(obj'[r], RestoreSet(upgrade'[r]), Held', replicas', pods')
  <2>1. \A r \in Rollbacks : r = cur
    BY <1>1 DEF OneRollback
  <2> QED
    BY <1>2, <1>5, <2>1 DEF Stopped
<1>9. Stopped(mem', RestoreSet(upgrade'[cur]), Held', replicas', pods')
  BY <1>4 DEF Stopped
<1>10. base'.workloadStopped => mem'.workloadStopped /\ mem'.scaling = base'.scaling
  BY <1>1, <1>4 DEF StopInv
<1> QED
  BY <1>4, <1>7, <1>8, <1>9, <1>10 DEF StopInv

\* statusUpdate: no claim has a snapshot's data before the workloads are stopped,
\* and after that their list is not changed.
LEMMA UpdateStop ==
  ASSUME OneRollback, IInv, RevertInv, ~lagged, StopInv, [Next]_vars, statusUpdate
  PROVE  StopInv'
<1>1. /\ mem \in Object /\ base \in Object /\ cur \in Rollbacks /\ pc # "idle" /\ WorldOK
      /\ UNCHANGED <<clusterVars, claims>> /\ SameUps /\ obj \in [Rollbacks -> Object]
  BY UpgradesSame DEF statusUpdate, IInv, WorkerClose, StoredOK
<1>2. /\ HeldStays /\ \A p \in PVCs : claims'[p].data > Live => claims[p].data > Live
      /\ \A r \in Rollbacks : \A p \in RestoreSet(upgrade[r]) :
           CleanClaim(r, p) => CleanClaim(r, p)'
  BY <1>1, CalmHeld DEF clusterVars, fluxVars, workloadVars
<1>3. CASE Return /\ UNCHANGED stored
  <2>1. pc' = "idle" /\ \A r \in Rollbacks : SameStop(obj[r], obj'[r])
    BY <1>3 DEF Return, stored, SameStop, SameMarks
  <2> QED
    BY <1>1, <1>2, <2>1, KeepStop
<1>4. CASE /\ obj[cur] = base /\ Store(cur, mem)
           /\ Return \/ (base' = mem /\ UNCHANGED <<cur, mem>>)
  <2>1. /\ Stopped(mem, RestoreSet(upgrade[cur]), Held, replicas, pods) /\ SameStop(mem, mem)
        /\ base.workloadStopped => mem.workloadStopped /\ mem.scaling = base.scaling
    BY <1>1 DEF StopInv, SameStop, SameMarks
  <2>2. Stopped(mem, RestoreSet(upgrade'[cur]), Held', replicas', pods')
    BY <1>1, <1>2, <2>1, StoppedKept
  <2>3. \A r \in Rollbacks : r = cur /\ obj'[r] = mem
    BY <1>1, <1>4 DEF Store, OneRollback
  <2>4. ASSUME NEW r \in Rollbacks PROVE StoppedClean(r)'
    <3>1. /\ StoppedClean(r) /\ RestoreSet(upgrade'[r]) = RestoreSet(upgrade[r])
          /\ obj[r] = base /\ obj'[r] = mem
      BY <1>1, <1>4, <2>3 DEF StopInv, SameUps
    <3>2. \A p \in PVCs : claims'[p].data > Live =>
            obj'[r].workloadStopped /\ RestoreSet(upgrade'[r]) # {}
      BY <1>2, <2>1, <3>1 DEF StoppedClean
    <3>3. \A p \in RestoreSet(upgrade[r]) : Covers(mem, p) => CleanClaim(r, p)'
      <4>1. CASE base.workloadStopped
        BY <1>2, <2>1, <3>1, <4>1 DEF StoppedClean, Covers
      <4>2. CASE ~base.workloadStopped
        <5>1. upgrade[r] \in UpgradeView /\ Live = 0 /\ MaxSnaps \in Nat
          BY <1>1, ClusterAssumption DEF WorldOK, Live
        <5>2. \A p \in RestoreSet(upgrade[r]) :
                p \in PVCs /\ upgrade[r].pvcSnapshots[p] > Live
          BY <5>1 DEF UpgradeView, RestoreSet
        <5>3. \A p \in RestoreSet(upgrade[r]) : ~Holds(r, p)
          BY <3>1, <4>2, <5>2 DEF StoppedClean, Holds
        <5>4. \A p \in RestoreSet(upgrade[r]) : CleanClaim(r, p)
          BY <5>3 DEF CleanClaim
        <5> QED
          BY <1>2, <5>4
      <4> QED
        BY <4>1, <4>2
    <3>4. \A p : Covers(obj[r], p)' <=> Covers(mem, p)
      BY <3>1 DEF Covers
    <3> QED
      BY <3>1, <3>2, <3>3, <3>4 DEF StoppedClean
  <2>5. \A r \in Rollbacks : Stopped(obj'[r], RestoreSet(upgrade'[r]), Held', replicas', pods')
    BY <2>2, <2>3
  <2>6. pc' # "idle" =>
          /\ Stopped(mem', RestoreSet(upgrade'[cur']), Held', replicas', pods')
          /\ base'.workloadStopped => mem'.workloadStopped /\ mem'.scaling = base'.scaling
    BY <1>4, <2>2 DEF Return
  <2> QED
    BY <2>4, <2>5, <2>6 DEF StopInv
<1> QED
  BY <1>3, <1>4 DEF statusUpdate

\* Timers, finalizers and lives, and a worker that goes on or drops its copy.
LEMMA TouchStop ==
  ASSUME IInv, StopInv, [Next]_vars, UNCHANGED <<clusterVars, claims>>,
         \A r \in Rollbacks : Touched(obj[r], obj'[r]),
         \/ Return
         \/ UNCHANGED <<pc, cur>> /\ Touched(base, base') /\ Touched(mem, mem')
         \/ cur' \in Rollbacks /\ base' = obj[cur'] /\ mem' = obj[cur']
  PROVE  StopInv'
<1>1. /\ mem \in Object /\ base \in Object /\ SameUps /\ \A r \in Rollbacks : obj[r] \in Object
  BY UpgradesSame DEF IInv, WorkerClose, StoredOK
<1>2. /\ HeldStays /\ \A p \in PVCs : claims'[p].data > Live => claims[p].data > Live
      /\ \A r \in Rollbacks : \A p \in RestoreSet(upgrade[r]) :
           CleanClaim(r, p) => CleanClaim(r, p)'
  BY <1>1, CalmHeld DEF clusterVars, fluxVars, workloadVars
<1>3. \A r \in Rollbacks : SameStop(obj[r], obj'[r])
  BY <1>1, TouchedStop
<1>4. pc' # "idle" =>
        \/ pc # "idle" /\ cur' = cur /\ SameStop(mem, mem') /\ SameStop(base, base')
        \/ /\ Stopped(mem', RestoreSet(upgrade'[cur']), Held', replicas', pods')
           /\ base'.workloadStopped => mem'.workloadStopped /\ mem'.scaling = base'.scaling
  <2>1. CASE Return
    BY <2>1 DEF Return
  <2>2. CASE UNCHANGED <<pc, cur>> /\ Touched(base, base') /\ Touched(mem, mem')
    BY <1>1, <2>2, TouchedStop
  <2>3. CASE cur' \in Rollbacks /\ base' = obj[cur'] /\ mem' = obj[cur']
    <3>1. \A r \in Rollbacks : Stopped(obj[r], RestoreSet(upgrade'[r]), Held', replicas', pods')
      <4>1. \A r \in Rollbacks : SameStop(obj[r], obj[r])
        BY DEF SameStop, SameMarks
      <4> QED
        BY <1>1, <1>2, <4>1, StoppedKept DEF StopInv
    <3>2. Stopped(mem', RestoreSet(upgrade'[cur']), Held', replicas', pods')
      BY <2>3, <3>1
    <3>3. base'.workloadStopped => mem'.workloadStopped /\ mem'.scaling = base'.scaling
      BY <2>3
    <3> QED
      BY <3>2, <3>3
  <2> QED
    BY <2>1, <2>2, <2>3
<1> QED
  BY <1>1, <1>2, <1>3, <1>4, KeepStop

\* The other actors make no data from snapshots.
LEMMA EnvironmentStop ==
  ASSUME NoResume, OwnKustomization, IInv, StopInv, [Next]_vars, EnvironmentNext,
         UNCHANGED <<upgrade, stored, workerVars>>
  PROVE  StopInv'
<1>1. SameUps /\ HeldStays /\ claims \in [PVCs -> Claim] /\ \A p \in PVCs : claims[p] \in Claim
  BY UpgradesSame, EnvironmentHeld DEF IInv, WorldOK
<1>2. \A p \in PVCs : claims'[p].data > Live => claims[p].data > Live
  <2>1. ASSUME NEW p \in PVCs PROVE claims'[p].data \in {claims[p].data, Blank}
    <3>1. ASSUME NEW ok \in BOOLEAN, FluxApplyClaims(ok)
          PROVE  claims'[p].data \in {claims[p].data, Blank}
      BY <1>1, <3>1 DEF FluxApplyClaims, NewClaim, Claim
    <3>2. ASSUME NEW w \in Workloads, PodStartMounting(w)
          PROVE  claims'[p].data \in {claims[p].data, Blank}
      BY <1>1, <3>2 DEF PodStartMounting, Open, Claim
    <3>3. ASSUME NEW q \in PVCs, ClaimGone(q) \/ ClaimBound(q)
          PROVE  claims'[p].data \in {claims[p].data, Blank}
      BY <1>1, <3>3 DEF ClaimGone, ClaimBound, Claim
    <3>4. CASE UNCHANGED claims
      BY <3>4
    <3> QED
      BY <3>1, <3>2, <3>3, <3>4 DEF EnvironmentNext, PruneSnapshot
  <2> QED
    BY <2>1 DEF Blank, Live
<1>3. \A r \in Rollbacks : \A p \in RestoreSet(upgrade[r]) : CleanClaim(r, p) => CleanClaim(r, p)'
  BY EnvironmentOpens
<1>4. /\ \A r \in Rollbacks : SameStop(obj[r], obj'[r])
      /\ UNCHANGED <<pc, cur>> /\ SameStop(mem, mem') /\ SameStop(base, base')
  BY DEF stored, workerVars, SameStop, SameMarks
<1> QED
  BY <1>1, <1>2, <1>3, <1>4, KeepStop

\* Every step preserves the invariant.
LEMMA NextStop ==
  ASSUME KustomizationCurrent, OneRollback, NoResume, OwnKustomization, IInv, RevertInv,
         ~lagged, BeganInv, StopInv, [Next]_vars
  PROVE  StopInv'
<1>1. /\ \A r \in Rollbacks : obj[r] \in Object
      /\ obj \in [Rollbacks -> Object] /\ cache = obj
      /\ mem \in Object /\ base \in Object /\ (pc # "idle" => cur \in Rollbacks)
  BY DEF IInv, StoredOK, WorkerClose, RevertInv
<1>2. \A o \in Object : Touched(o, o) /\ Touched(o, Older(o))
  BY Touching
<1>3. ASSUME NEW r \in Rollbacks, NEW o, Touched(obj[r], o), Store(r, o)
      PROVE  \A q \in Rollbacks : Touched(obj[q], obj'[q])
  BY <1>1, <1>2, <1>3 DEF Store
<1>4. ASSUME UNCHANGED obj PROVE \A q \in Rollbacks : Touched(obj[q], obj'[q])
  BY <1>1, <1>2, <1>4
<1>5. ASSUME UNCHANGED workerVars
      PROVE  UNCHANGED <<pc, cur>> /\ Touched(base, base') /\ Touched(mem, mem')
  BY <1>1, <1>2, <1>5 DEF workerVars
<1>6. ASSUME NEW r \in Rollbacks, Reconcile(r) PROVE StopInv'
  <2> DEFINE d == [obj[r] EXCEPT !.finalizer = FALSE, !.life = "gone"]
             f == [obj[r] EXCEPT !.finalizer = TRUE]
  <2>1. UNCHANGED <<clusterVars, claims>>
    BY <1>6 DEF Reconcile
  <2>2. Touched(obj[r], d) /\ Touched(obj[r], f)
    BY <1>1, Touching
  <2> HIDE DEF d, f
  <2>3. CASE (Store(r, d) \/ Store(r, f)) /\ UNCHANGED workerVars
    BY <1>3, <1>5, <2>1, <2>2, <2>3, TouchStop
  <2>4. CASE cur' = r /\ base' = cache[r] /\ mem' = cache[r] /\ UNCHANGED stored
    BY <1>1, <1>4, <2>1, <2>4, TouchStop DEF stored
  <2> QED
    BY <1>6, <2>3, <2>4 DEF Reconcile, d, f
<1>7. CASE removeFinalizer
  <2> DEFINE o == [mem EXCEPT !.finalizer = FALSE]
  <2>1. UNCHANGED <<clusterVars, claims>> /\ cur \in Rollbacks /\ Return /\ mem = base
    BY <1>1, <1>7 DEF removeFinalizer, IInv, WorkerClose
  <2>2. Touched(mem, o)
    BY <1>1, Touching
  <2> HIDE DEF o
  <2>3. CASE obj[cur] = base /\ Store(cur, o)
    BY <1>3, <2>1, <2>2, <2>3, TouchStop
  <2>4. CASE UNCHANGED stored
    BY <1>4, <2>1, <2>4, TouchStop DEF stored
  <2> QED
    BY <1>7, <2>3, <2>4 DEF removeFinalizer, o
<1>8. CASE Crash
  BY <1>4, <1>8, TouchStop DEF Crash, stored
<1>9. ASSUME NEW r \in Rollbacks, Delete(r) PROVE StopInv'
  <2> DEFINE l == IF obj[r].finalizer THEN "deleting" ELSE "gone"
             o == [obj[r] EXCEPT !.life = l]
  <2>1. /\ l \in {"live", "deleting", "gone"} /\ Store(r, o)
        /\ UNCHANGED <<clusterVars, claims>> /\ UNCHANGED workerVars
    BY <1>9 DEF Delete
  <2> HIDE DEF l
  <2>2. Touched(obj[r], o)
    BY <1>1, <2>1, Touching
  <2> HIDE DEF o
  <2> QED
    BY <1>3, <1>5, <2>1, <2>2, TouchStop
<1>10. ASSUME NEW r \in Rollbacks, Sync(r) \/ DeleteUpgrade(r) PROVE StopInv'
  <2>1. UNCHANGED <<clusterVars, claims>> /\ UNCHANGED obj /\ UNCHANGED workerVars
    BY <1>10 DEF Sync, DeleteUpgrade, stored
  <2> QED
    BY <1>4, <1>5, <2>1, TouchStop
<1>11. CASE Tick
  <2>1. /\ UNCHANGED <<clusterVars, claims>> /\ UNCHANGED <<pc, cur>>
        /\ \A r \in Rollbacks : Touched(obj[r], obj'[r])
        /\ Touched(base, base') /\ Touched(mem, mem')
    BY <1>1, <1>2, <1>11 DEF Tick
  <2> QED
    BY <2>1, TouchStop
<1>12. CASE UNCHANGED vars
  <2>1. UNCHANGED <<clusterVars, claims>> /\ UNCHANGED obj /\ UNCHANGED workerVars
    BY <1>12 DEF vars, stored
  <2> QED
    BY <1>4, <1>5, <2>1, TouchStop
<1> QED
  BY <1>6, <1>7, <1>8, <1>9, <1>10, <1>11, <1>12, QuietStop, SuspendStop, StopStop, CheckStop,
     RestoreStop, ReconcilingStop, UpdateStop, EnvironmentStop
     DEF Next, WorkerStep
=============================================================================
