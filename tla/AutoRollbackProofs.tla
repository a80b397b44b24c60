------------------------- MODULE AutoRollbackProofs -------------------------
(***************************************************************************)
(* Proofs about module AutoRollback: the two controllers do not work on    *)
(* the app at the same time, for any number of upgrades and rollbacks; and *)
(* a rollback puts back the version and the data that its upgrade found,   *)
(* and lets only that version have them.                                   *)
(***************************************************************************)
EXTENDS AutoRollback, UpgradeSafety

-----------------------------------------------------------------------------
(* Whose turn it is *)

\* The objects have their fields.
UpgradeObject(o)  == DOMAIN o = DOMAIN NewObject
RollbackObject(o) == DOMAIN o = DOMAIN RB!NewObject

Shapes ==
  /\ DOMAIN obj = Requests /\ \A r \in Requests : UpgradeObject(obj[r])
  /\ UpgradeObject(base) /\ UpgradeObject(mem)
  /\ DOMAIN robj = Rollbacks /\ \A b \in Rollbacks : RollbackObject(robj[b])
  /\ DOMAIN rcache = Rollbacks /\ \A b \in Rollbacks : RollbackObject(rcache[b])
  /\ RollbackObject(rmem)

\* The upgrade controller's worker is at a request that has not ended, or has
\* just written its end.
UpgradeTurn ==
  /\ cache = obj
  /\ pc \in {"idle", "run", "scaled", "push", "update", "finalize"}
  /\ IF pc = "idle" THEN cur = None ELSE cur \in Requests
  /\ pc \in {"run", "scaled", "push", "update"} => ~Terminal(obj[cur])
  /\ pc \in {"run", "scaled", "push"} => ~Terminal(mem)
  /\ pc = "update" => \/ then = "return"
                      \/ then = "run" /\ ~Terminal(mem)
                      \/ then = "finalize" /\ Terminal(mem)
  /\ pc = "finalize" => Terminal(mem)

\* If rollback b has begun, according to its object o, its upgrade has ended.
Follows(b, o) == o.suspended # "absent" => Terminal(obj[b[1]])

\* That of every version of a rollback's object there is.
RollbackTurn ==
  /\ \A b \in Rollbacks : Follows(b, robj[b]) /\ Follows(b, rcache[b])
  /\ rpc # "idle" => rcur \in Rollbacks /\ Follows(rcur, rmem)

\* The inductive invariant.
TurnInv == Shapes /\ UpgradeTurn /\ RollbackTurn

-----------------------------------------------------------------------------
(* The upgrade controller *)

\* What a handler does to the worker: it gives up, hands over a copy to be
\* written, with which it goes on only if that has not ended, or goes on.
Handled ==
  \/ Return
  \/ /\ UNCHANGED <<cur, base>> /\ UpgradeObject(mem')
     /\ \/ pc' = "update" /\ then' = "return"
        \/ pc' = "update" /\ then' = "run" /\ ~Terminal(mem')
        \/ pc' = "update" /\ then' = "finalize" /\ Terminal(mem')
        \/ pc' \in {"scaled", "push"} /\ ~Terminal(mem')

\* A failure ends the request.
LEMMA FailHandled ==
  ASSUME NEW m, UpgradeObject(m), NEW s, NEW n, setFailed(m, s, n)
  PROVE  Handled
  BY DEF setFailed, WriteStatus, Handled, UpgradeObject, NewObject, Terminal

\* The timers leave the other fields alone.
LEMMA TimerFields ==
  ASSUME NEW o, UpgradeObject(o)
  PROVE  /\ UpgradeObject(setPhaseStartIfNeeded(o)) /\ UpgradeObject(resetPhaseStart(o))
         /\ UpgradeObject(Older(o))
         /\ setPhaseStartIfNeeded(o).complete = o.complete
         /\ resetPhaseStart(o).complete = o.complete /\ Older(o).complete = o.complete
  BY DEF setPhaseStartIfNeeded, resetPhaseStart, Older, UpgradeObject, NewObject

\* Every handler is of that kind, and writes no object.
LEMMA HandlersTurn ==
  ASSUME Shapes, UpgradeTurn, WorkerStep, ~statusUpdate, ~removeFinalizer
  PROVE  Handled /\ pc \in {"run", "scaled", "push"} /\ UNCHANGED <<obj, cache>>
<1> UpgradeObject(mem)
  BY DEF Shapes
<1> DEFINE m == setPhaseStartIfNeeded(mem)
<1>1. UpgradeObject(m) /\ UpgradeObject(resetPhaseStart(m))
      /\ UpgradeObject(resetPhaseStart(mem)) /\ m.complete = mem.complete
  BY TimerFields
<1> USE DEF WriteStatus, At
<1>2. CASE handleSuspend
  BY <1>2, FailHandled DEF handleSuspend, Fail, Handled, UpgradeObject, NewObject
<1>3. CASE handleScaleDown
  <2>1. pc = "run" /\ ~Terminal(mem) /\ UNCHANGED <<obj, cache>>
    BY <1>3 DEF handleScaleDown, UpgradeTurn
  <2>2. CASE Fail(m, 1)
    BY <1>1, <2>1, <2>2, FailHandled DEF Fail
  <2>3. CASE WriteStatus([m EXCEPT !.workloadStopped = TRUE], "run")
    BY <1>1, <2>1, <2>3 DEF Handled, UpgradeObject, NewObject, Terminal
  <2>4. ASSUME NEW W, pc' = "scaled", mem' = [m EXCEPT !.scaling = W], UNCHANGED <<cur, base>>
        PROVE  Handled
    BY <1>1, <2>1, <2>4 DEF Handled, UpgradeObject, NewObject, Terminal
  <2> QED
    BY <1>3, <2>1, <2>2, <2>3, <2>4 DEF handleScaleDown, m
<1>4. CASE checkScaledDown
  BY <1>1, <1>4, FailHandled DEF checkScaledDown, Fail, Handled, UpgradeObject, NewObject
<1>5. CASE createSnapshotsForUpgrade
  <2>1. pc = "run" /\ UNCHANGED <<obj, cache>>
    BY <1>5 DEF createSnapshotsForUpgrade
  <2>2. ASSUME NEW n, Fail(m, n) PROVE Handled
    BY <1>1, <2>2, FailHandled DEF Fail
  <2> HIDE DEF m
  <2>3. ASSUME NEW x, WriteStatus([m EXCEPT !.snapshotReady = x], "return") PROVE Handled
    BY <1>1, <2>3 DEF Handled, UpgradeObject, NewObject, Terminal
  <2>4. ASSUME NEW f, WriteStatus([m EXCEPT !.pvcSnapshots = f], "run") PROVE Handled
    BY <1>1, <1>5, <2>1, <2>4 DEF Handled, UpgradeObject, NewObject, Terminal, UpgradeTurn
  <2> HIDE DEF WriteStatus
  <2> QED
    BY <1>5, <2>1, <2>2, <2>3, <2>4 DEF createSnapshotsForUpgrade, m
<1>6. CASE awaitSnapshots
  BY <1>1, <1>6, FailHandled DEF awaitSnapshots, Fail, Handled, UpgradeObject, NewObject
<1>7. CASE handleCommitting
  BY <1>7, FailHandled
     DEF handleCommitting, Fail, Handled, UpgradeObject, NewObject, Terminal, UpgradeTurn
<1>8. CASE commitFile
  BY <1>8, FailHandled DEF commitFile, Fail, Handled, UpgradeObject, NewObject
<1>9. CASE handleReconciling
  BY <1>1, <1>9, FailHandled, TimerFields
     DEF handleReconciling, Fail, Handled, UpgradeObject, NewObject
<1>10. CASE handleHealthChecking
  BY <1>1, <1>10, FailHandled DEF handleHealthChecking, Fail, Handled, UpgradeObject, NewObject
<1>11. CASE handleCompleted
  BY <1>11, FailHandled
     DEF handleCompleted, Fail, Handled, UpgradeObject, NewObject, Terminal
<1> QED
  BY <1>2, <1>3, <1>4, <1>5, <1>6, <1>7, <1>8, <1>9, <1>10, <1>11 DEF WorkerStep

\* Every request that has ended stays so.
EndsKept == \A r \in Requests : Terminal(obj[r]) => Terminal(obj'[r])

\* What the two lemmas below show of a step of the upgrade controller.
UpgradeKept ==
  /\ UpgradeTurn' /\ EndsKept
  /\ DOMAIN obj' = Requests /\ \A r \in Requests : UpgradeObject(obj'[r])
  /\ UpgradeObject(base') /\ UpgradeObject(mem')

\* Storing an object of a request that the worker is not at, or that ends no
\* sooner than what is stored.
LEMMA StoreKept ==
  ASSUME CacheCurrent, Shapes, UpgradeTurn, NEW r \in Requests, NEW o, UpgradeObject(o),
         Store(r, o), Terminal(obj[r]) => Terminal(o)
  PROVE  /\ cache' = obj' /\ obj' = [obj EXCEPT ![r] = o] /\ EndsKept
         /\ DOMAIN obj' = Requests /\ \A q \in Requests : UpgradeObject(obj'[q])
  BY DEF CacheCurrent, Shapes, UpgradeTurn, Store, EndsKept

\* A copy is written over a request that has not ended, and only the finalizer
\* is left to remove once it has (statusUpdate, removeFinalizer).
LEMMA WorkerKept ==
  ASSUME CacheCurrent, Shapes, UpgradeTurn, WorkerStep
  PROVE  UpgradeKept
<1>0. UpgradeObject(mem) /\ UpgradeObject(base) /\ UpgradeObject(NewObject)
  BY DEF Shapes, UpgradeObject
<1>1. CASE statusUpdate
  <2>1. pc = "update" /\ cur \in Requests /\ ~Terminal(obj[cur])
    BY <1>1 DEF statusUpdate, UpgradeTurn
  <2>2. CASE obj[cur] = base /\ Store(cur, mem)
    <3>1. /\ cache' = obj' /\ obj' = [obj EXCEPT ![cur] = mem] /\ EndsKept
          /\ DOMAIN obj' = Requests /\ \A q \in Requests : UpgradeObject(obj'[q])
      BY <1>0, <2>1, <2>2, StoreKept
    <3>2. CASE then = "return" /\ Return
      BY <1>0, <3>1, <3>2 DEF Return, UpgradeKept, UpgradeTurn
    <3>3. CASE then # "return" /\ pc' = then /\ base' = mem /\ UNCHANGED <<cur, mem, then>>
      <4>1. obj'[cur] = mem
        BY <2>1, <3>1 DEF Shapes
      <4> QED
        BY <1>0, <2>1, <3>1, <3>3, <4>1 DEF UpgradeKept, UpgradeTurn
    <3> QED
      BY <1>1, <2>2, <3>2, <3>3 DEF statusUpdate
  <2>3. CASE Return /\ UNCHANGED <<obj, cache>>
    BY <1>0, <2>3 DEF Return, UpgradeKept, UpgradeTurn, EndsKept, Shapes
  <2> QED
    BY <1>1, <2>2, <2>3 DEF statusUpdate
<1>2. CASE removeFinalizer
  <2>1. cur \in Requests /\ Terminal(mem) /\ Return
    BY <1>2 DEF removeFinalizer, UpgradeTurn
  <2>2. CASE Store(cur, [mem EXCEPT !.finalizer = FALSE])
    <3>1. /\ UpgradeObject([mem EXCEPT !.finalizer = FALSE])
          /\ Terminal([mem EXCEPT !.finalizer = FALSE])
      BY <1>0, <2>1 DEF UpgradeObject, NewObject, Terminal
    <3> QED
      BY <1>0, <2>1, <2>2, <3>1, StoreKept DEF Return, UpgradeKept, UpgradeTurn
  <2>3. CASE UNCHANGED <<obj, cache>>
    BY <1>0, <2>1, <2>3 DEF Return, UpgradeKept, UpgradeTurn, EndsKept, Shapes
  <2> QED
    BY <1>2, <2>2, <2>3 DEF removeFinalizer
<1>3. CASE ~statusUpdate /\ ~removeFinalizer
  <2>1. Handled /\ pc \in {"run", "scaled", "push"} /\ UNCHANGED <<obj, cache>>
    BY <1>3, HandlersTurn
  <2>2. CASE Return
    BY <1>0, <2>1, <2>2 DEF Return, UpgradeKept, UpgradeTurn, EndsKept, Shapes
  <2> QED
    BY <1>0, <2>1, <2>2 DEF Handled, UpgradeKept, UpgradeTurn, EndsKept, Shapes
<1> QED
  BY <1>1, <1>2, <1>3

\* A request is taken up before it ends; the rest leaves the conditions alone.
LEMMA UpgradeStepKept ==
  ASSUME CacheCurrent, Shapes, UpgradeTurn, UpgradeStep
  PROVE  UpgradeKept
<1>0. UpgradeObject(mem) /\ UpgradeObject(base) /\ UpgradeObject(NewObject)
  BY DEF Shapes, UpgradeObject
<1>1. ASSUME NEW r \in Requests, NEW o, Store(r, o), UNCHANGED workerVars, UpgradeObject(o),
             o.complete = obj[r].complete
      PROVE  UpgradeKept
  <2>1. /\ cache' = obj' /\ obj' = [obj EXCEPT ![r] = o] /\ EndsKept
        /\ DOMAIN obj' = Requests /\ \A q \in Requests : UpgradeObject(obj'[q])
    BY <1>1, StoreKept DEF Terminal
  <2>2. \A q \in Requests : Terminal(obj'[q]) <=> Terminal(obj[q])
    BY <1>1, <2>1 DEF Shapes, Terminal
  <2> QED
    BY <1>0, <1>1, <2>1, <2>2 DEF UpgradeKept, UpgradeTurn, workerVars
<1>2. ASSUME NEW r \in Requests, Reconcile(r) PROVE UpgradeKept
  <2>1. CASE Store(r, [obj[r] EXCEPT !.finalizer = FALSE, !.life = "gone"]) /\ UNCHANGED workerVars
    <3> DEFINE o == [obj[r] EXCEPT !.finalizer = FALSE, !.life = "gone"]
    <3>1. UpgradeObject(o) /\ o.complete = obj[r].complete
      BY DEF Shapes, UpgradeObject, NewObject
    <3> QED
      BY <1>1, <2>1, <3>1
  <2>2. CASE Store(r, [obj[r] EXCEPT !.finalizer = TRUE]) /\ UNCHANGED workerVars
    <3> DEFINE o == [obj[r] EXCEPT !.finalizer = TRUE]
    <3>1. UpgradeObject(o) /\ o.complete = obj[r].complete
      BY DEF Shapes, UpgradeObject, NewObject
    <3> QED
      BY <1>1, <2>2, <3>1
  <2>3. CASE /\ ~Terminal(cache[r]) /\ pc' = "run" /\ cur' = r /\ base' = cache[r]
             /\ mem' = cache[r] /\ UNCHANGED <<then, obj, cache>>
    BY <2>3 DEF UpgradeKept, UpgradeTurn, EndsKept, Shapes
  <2> QED
    BY <1>2, <2>1, <2>2, <2>3 DEF Reconcile
<1>3. ASSUME NEW r \in Requests, Delete(r) PROVE UpgradeKept
  <2> DEFINE o == [obj[r] EXCEPT !.life = IF obj[r].finalizer THEN "deleting" ELSE "gone"]
  <2>1. UpgradeObject(o) /\ o.complete = obj[r].complete
    BY DEF Shapes, UpgradeObject, NewObject
  <2> QED
    BY <1>1, <1>3, <2>1 DEF Delete
<1>4. ASSUME NEW r \in Requests, Sync(r) PROVE UpgradeKept
  BY <1>4 DEF Sync, UpgradeTurn
<1>5. CASE Crash
  BY <1>0, <1>5 DEF Crash, Return, UpgradeKept, UpgradeTurn, EndsKept, Shapes
<1> QED
  BY <1>2, <1>3, <1>4, <1>5, WorkerKept DEF UpgradeStep

-----------------------------------------------------------------------------
(* The rollback controller *)

\* What a handler does to the worker: it gives up, or it has a copy that is
\* right about the upgrade.
RollbackHandled ==
  \/ RB!Return
  \/ rcur' = rcur /\ RollbackObject(rmem') /\ Follows(rcur, rmem')

\* A copy whose Suspended condition is that of the worker's copy is right.
LEMMA SameBegin ==
  ASSUME NEW m, RollbackObject(m), m.suspended = rmem.suspended, Follows(rcur, rmem),
         rmem' = m, UNCHANGED rcur
  PROVE  RollbackHandled
  BY DEF RollbackHandled, Follows

\* So is a failed one.
LEMMA RollbackFailHandled ==
  ASSUME NEW m, RollbackObject(m), m.suspended = rmem.suspended, Follows(rcur, rmem),
         NEW reason, NEW n, RB!setFailed(m, reason, n)
  PROVE  RollbackHandled
<1> DEFINE f == [m EXCEPT !.complete = "false", !.reason = reason]
<1>1. RollbackObject(f) /\ f.suspended = rmem.suspended /\ rmem' = f /\ UNCHANGED rcur
  BY DEF RB!setFailed, RB!WriteStatus, RollbackObject, RB!NewObject
<1> QED
  BY <1>1, SameBegin

\* The timers leave the Suspended condition alone.
LEMMA RollbackTimerFields ==
  ASSUME NEW o, RollbackObject(o)
  PROVE  /\ RollbackObject(RB!setPhaseStartIfNeeded(o))
         /\ RollbackObject(RB!resetPhaseStart(o)) /\ RollbackObject(RB!Older(o))
         /\ RB!setPhaseStartIfNeeded(o).suspended = o.suspended
         /\ RB!resetPhaseStart(o).suspended = o.suspended
         /\ RB!Older(o).suspended = o.suspended
  BY DEF RB!setPhaseStartIfNeeded, RB!resetPhaseStart, RB!Older, RollbackObject, RB!NewObject

\* The suspension is the only step that begins a rollback, and the cache it
\* looks the upgrade up in says that it has ended (isUpgradeTerminal).
LEMMA SuspendFollows ==
  ASSUME Shapes, UpgradeTurn, rcur \in Rollbacks, Follows(rcur, rmem), RB!handleSuspend
  PROVE  RollbackHandled
<1>0. RollbackObject(rmem)
  BY DEF Shapes
<1>1. RB!Up.terminal = Terminal(obj[rcur[1]])
  BY DEF RB!Up, ViewOf, UpgradeTurn
<1>2. ASSUME NEW n, NEW reason, RB!setFailed(rmem, reason, n) PROVE RollbackHandled
  BY <1>0, <1>2, RollbackFailHandled
<1>3. ASSUME NEW x, RB!isUpgradeTerminal(RB!Up),
             RB!WriteStatus([rmem EXCEPT !.suspended = "true", !.volumesRestored = x], "return")
      PROVE  RollbackHandled
  BY <1>0, <1>1, <1>3
     DEF RB!isUpgradeTerminal, RB!WriteStatus, RollbackHandled, Follows, RollbackObject,
         RB!NewObject
<1> QED
  BY <1>2, <1>3 DEF RB!handleSuspend, RB!Fail

\* The other handlers leave the Suspended condition alone, or reset it.
LEMMA RollbackHandlersFollow ==
  ASSUME Shapes, UpgradeTurn, rcur \in Rollbacks, Follows(rcur, rmem), RB!WorkerStep,
         ~RB!statusUpdate, ~RB!removeFinalizer
  PROVE  RollbackHandled
<1> DEFINE m == RB!setPhaseStartIfNeeded(rmem)
           z == RB!resetPhaseStart(rmem)
<1>0. /\ RollbackObject(rmem) /\ RollbackObject(m) /\ RollbackObject(z)
      /\ m.suspended = rmem.suspended /\ z.suspended = rmem.suspended
  BY RollbackTimerFields DEF Shapes
<1>1. ASSUME NEW o \in {rmem, m}, NEW reason, NEW n, RB!setFailed(o, reason, n)
      PROVE  RollbackHandled
  BY <1>0, <1>1, RollbackFailHandled
<1>2. ASSUME NEW o \in {rmem, m, z}, rmem' = o, UNCHANGED rcur PROVE RollbackHandled
  BY <1>0, <1>2, SameBegin
<1> HIDE DEF m, z
<1> USE DEF RB!WriteStatus, RB!Fail, RollbackObject, RB!NewObject
<1>3. CASE RB!handleStopWorkload
  <2>1. ASSUME NEW x, rmem' = [m EXCEPT !.workloadStopped = x], UNCHANGED rcur
        PROVE  RollbackHandled
    BY <1>0, <2>1, SameBegin
  <2>2. ASSUME NEW x, rmem' = [m EXCEPT !.scaling = x], UNCHANGED rcur
        PROVE  RollbackHandled
    BY <1>0, <2>2, SameBegin
  <2> QED
    BY <1>1, <1>3, <2>1, <2>2 DEF RB!handleStopWorkload, m
<1>4. CASE RB!checkStopped
  <2>1. ASSUME NEW x, rmem' = [z EXCEPT !.workloadStopped = x], UNCHANGED rcur
        PROVE  RollbackHandled
    BY <1>0, <2>1, SameBegin
  <2> QED
    BY <1>1, <1>2, <1>4, <2>1 DEF RB!checkStopped, z
<1>5. CASE RB!handleVolumeRestore
  BY <1>1, <1>2, <1>5 DEF RB!handleVolumeRestore, m
<1>6. CASE RB!deleteClaim
  BY <1>1, <1>2, <1>6 DEF RB!deleteClaim
<1>7. CASE RB!RestorePVCFromSnapshot
  <2>1. ASSUME NEW p, rmem' = [rmem EXCEPT !.restored[p] = "pending"], UNCHANGED rcur
        PROVE  RollbackHandled
    <3>1. RollbackObject(rmem') /\ rmem'.suspended = rmem.suspended
      BY <1>0, <2>1
    <3> QED
      BY <2>1, <3>1, SameBegin
  <2>2. CASE RB!Return
    BY <2>2 DEF RollbackHandled
  <2> HIDE DEF RollbackObject, RB!NewObject
  <2> QED
    BY <1>1, <1>2, <1>7, <2>1, <2>2 DEF RB!RestorePVCFromSnapshot
<1>8. CASE RB!awaitBound
  <2>1. ASSUME NEW x, NEW y, rmem' = [z EXCEPT !.restored = x, !.volumesRestored = y],
               UNCHANGED rcur
        PROVE  RollbackHandled
    <3>1. RollbackObject(rmem') /\ rmem'.suspended = rmem.suspended
      BY <1>0, <2>1
    <3> QED
      BY <2>1, <3>1, SameBegin
  <2>2. CASE RB!Return
    BY <2>2 DEF RollbackHandled
  <2> QED
    BY <1>1, <1>2, <1>8, <2>1, <2>2 DEF RB!awaitBound, z
<1>9. CASE RB!handleGitRevert
  BY <1>1, <1>2, <1>9 DEF RB!handleGitRevert
<1>10. CASE RB!commitFile
  <2>1. ASSUME NEW x, rmem' = [rmem EXCEPT !.gitReverted = x], UNCHANGED rcur
        PROVE  RollbackHandled
    BY <1>0, <2>1, SameBegin
  <2> QED
    BY <1>1, <1>10, <2>1 DEF RB!commitFile
<1>11. CASE RB!handleReconciling
  <2>1. rmem.suspended # "absent"
    BY <1>11 DEF RB!handleReconciling, RB!At, RB!Phase
  <2>2. ASSUME NEW x, rmem' = [m EXCEPT !.suspended = x], UNCHANGED rcur
        PROVE  RollbackHandled
    BY <1>0, <2>1, <2>2 DEF RollbackHandled, Follows
  <2> QED
    BY <1>1, <1>11, <2>2 DEF RB!handleReconciling, m
<1>12. CASE RB!checkReconciled
  <2>1. ASSUME NEW x, rmem' = [z EXCEPT !.reconciled = x], UNCHANGED rcur
        PROVE  RollbackHandled
    BY <1>0, <2>1, SameBegin
  <2>2. CASE RB!Return
    BY <2>2 DEF RollbackHandled
  <2> QED
    BY <1>1, <1>12, <2>1, <2>2 DEF RB!checkReconciled, z
<1>13. CASE RB!handleHealthChecking
  <2>1. ASSUME NEW x, rmem' = [m EXCEPT !.healthy = x], UNCHANGED rcur
        PROVE  RollbackHandled
    BY <1>0, <2>1, SameBegin
  <2>2. CASE RB!Return
    BY <2>2 DEF RollbackHandled
  <2> QED
    BY <1>1, <1>13, <2>1, <2>2 DEF RB!handleHealthChecking, m
<1>14. CASE RB!handleCompleted
  <2>1. ASSUME NEW x, rmem' = [rmem EXCEPT !.complete = x], UNCHANGED rcur
        PROVE  RollbackHandled
    BY <1>0, <2>1, SameBegin
  <2> QED
    BY <1>14, <2>1 DEF RB!handleCompleted
<1> QED
  BY <1>3, <1>4, <1>5, <1>6, <1>7, <1>8, <1>9, <1>10, <1>11, <1>12, <1>13, <1>14,
     SuspendFollows DEF RB!WorkerStep

\* What the lemmas below show of a step of the rollback controller.
RollbackKept ==
  /\ RollbackTurn'
  /\ DOMAIN robj' = Rollbacks /\ \A b \in Rollbacks : RollbackObject(robj'[b])
  /\ DOMAIN rcache' = Rollbacks /\ \A b \in Rollbacks : RollbackObject(rcache'[b])
  /\ RollbackObject(rmem')

\* An object that is right is stored, and cached then or later.
LEMMA RollbackStoreKept ==
  ASSUME Shapes, RollbackTurn, NEW b \in Rollbacks, NEW o, RollbackObject(o), Follows(b, o),
         UNCHANGED obj, RB!Store(b, o)
  PROVE  /\ \A a \in Rollbacks : Follows(a, robj[a])' /\ Follows(a, rcache[a])'
         /\ DOMAIN robj' = Rollbacks /\ \A a \in Rollbacks : RollbackObject(robj'[a])
         /\ DOMAIN rcache' = Rollbacks /\ \A a \in Rollbacks : RollbackObject(rcache'[a])
  BY DEF Shapes, RollbackTurn, RB!Store, Follows

\* The worker reads what is cached and writes what is right.
LEMMA RollbackStepKept ==
  ASSUME Shapes, UpgradeTurn, RollbackTurn, RollbackStep
  PROVE  RollbackKept
<1>0. /\ RollbackObject(rmem) /\ RollbackObject(RB!NewObject) /\ UNCHANGED obj
      /\ \A b \in Rollbacks : RollbackObject(robj[b]) /\ Follows(b, robj[b])
  BY DEF Shapes, RollbackObject, RollbackStep, RollbackTurn
<1>1. ASSUME NEW b \in Rollbacks, NEW o, RB!Store(b, o), RollbackObject(o), Follows(b, o),
             \/ RB!Return
             \/ rcur' = rcur /\ rmem' = rmem /\ (rpc' = "idle" \/ rpc # "idle")
      PROVE  RollbackKept
  BY <1>0, <1>1, RollbackStoreKept DEF RB!Return, RollbackKept, RollbackTurn, Follows
<1>2. CASE RB!Return /\ UNCHANGED <<robj, rcache>>
  BY <1>0, <1>2 DEF RB!Return, RollbackKept, RollbackTurn, Follows, Shapes
<1>3. ASSUME NEW b \in Rollbacks, RB!Reconcile(b) PROVE RollbackKept
  <2>1. ASSUME NEW o, RB!Store(b, o), UNCHANGED RB!workerVars, RollbackObject(o),
               o.suspended = robj[b].suspended
        PROVE  RollbackKept
    BY <1>0, <1>1, <1>3, <2>1 DEF RB!workerVars, RB!Reconcile, Follows
  <2>2. CASE /\ RB!Store(b, [robj[b] EXCEPT !.finalizer = FALSE, !.life = "gone"])
             /\ UNCHANGED RB!workerVars
    <3> DEFINE o == [robj[b] EXCEPT !.finalizer = FALSE, !.life = "gone"]
    <3>1. RollbackObject(o) /\ o.suspended = robj[b].suspended
      BY <1>0 DEF RollbackObject, RB!NewObject
    <3> QED
      BY <2>1, <2>2, <3>1
  <2>3. CASE RB!Store(b, [robj[b] EXCEPT !.finalizer = TRUE]) /\ UNCHANGED RB!workerVars
    <3> DEFINE o == [robj[b] EXCEPT !.finalizer = TRUE]
    <3>1. RollbackObject(o) /\ o.suspended = robj[b].suspended
      BY <1>0 DEF RollbackObject, RB!NewObject
    <3> QED
      BY <2>1, <2>3, <3>1
  <2>4. CASE rcur' = b /\ rmem' = rcache[b] /\ UNCHANGED <<robj, rcache>>
    BY <1>0, <2>4 DEF RollbackKept, RollbackTurn, Follows, Shapes
  <2> QED
    BY <1>3, <2>2, <2>3, <2>4 DEF RB!Reconcile, RB!stored
<1>4. ASSUME NEW b \in Rollbacks, RB!Delete(b) PROVE RollbackKept
  <2> DEFINE o == [robj[b] EXCEPT !.life = IF robj[b].finalizer THEN "deleting" ELSE "gone"]
  <2>1. RollbackObject(o) /\ o.suspended = robj[b].suspended
    BY <1>0 DEF RollbackObject, RB!NewObject
  <2>2. RB!Store(b, o) /\ UNCHANGED RB!workerVars
    BY <1>4 DEF RB!Delete
  <2> HIDE DEF o
  <2> QED
    BY <1>0, <2>1, <2>2, RollbackStoreKept
       DEF RB!workerVars, RollbackKept, RollbackTurn, Follows
<1>5. ASSUME NEW b \in Rollbacks, RB!Sync(b) PROVE RollbackKept
  BY <1>0, <1>5 DEF RB!Sync, RB!workerVars, RollbackKept, RollbackTurn, Follows, Shapes
<1>6. CASE RB!statusUpdate
  <2>1. rcur \in Rollbacks /\ Follows(rcur, rmem) /\ rpc # "idle"
    BY <1>6 DEF RB!statusUpdate, RollbackTurn
  <2> QED
    BY <1>0, <1>1, <1>2, <1>6, <2>1 DEF RB!statusUpdate, RB!stored
<1>7. CASE RB!removeFinalizer
  <2>1. rcur \in Rollbacks /\ Follows(rcur, rmem)
    BY <1>7 DEF RB!removeFinalizer, RollbackTurn
  <2> DEFINE o == [rmem EXCEPT !.finalizer = FALSE]
  <2>2. RollbackObject(o) /\ Follows(rcur, o)
    BY <1>0, <2>1 DEF RollbackObject, RB!NewObject, Follows
  <2>3. \/ RB!Store(rcur, o) /\ RB!Return
        \/ RB!Return /\ UNCHANGED <<robj, rcache>>
    BY <1>7 DEF RB!removeFinalizer, RB!stored
  <2> QED
    BY <1>1, <1>2, <2>1, <2>2, <2>3
<1>8. CASE RB!Crash
  BY <1>2, <1>8 DEF RB!Crash, RB!stored
<1>9. CASE RB!WorkerStep /\ ~RB!statusUpdate /\ ~RB!removeFinalizer
  <2>1. rcur \in Rollbacks /\ Follows(rcur, rmem) /\ UNCHANGED <<robj, rcache>>
    BY <1>9
       DEF RB!WorkerStep, RB!handleSuspend, RB!handleStopWorkload, RB!checkStopped,
           RB!handleVolumeRestore, RB!deleteClaim, RB!RestorePVCFromSnapshot, RB!awaitBound,
           RB!handleGitRevert, RB!commitFile, RB!handleReconciling, RB!checkReconciled,
           RB!handleHealthChecking, RB!handleCompleted, RB!At, RB!stored, RollbackTurn
  <2>2. RollbackHandled
    BY <1>9, <2>1, RollbackHandlersFollow
  <2>3. CASE rcur' = rcur /\ RollbackObject(rmem') /\ Follows(rcur, rmem')
    BY <1>0, <2>1, <2>3 DEF RollbackKept, RollbackTurn, Follows, Shapes
  <2> QED
    BY <1>2, <2>1, <2>2, <2>3 DEF RollbackHandled
<1> QED
  BY <1>3, <1>4, <1>5, <1>6, <1>7, <1>8, <1>9 DEF RollbackStep

-----------------------------------------------------------------------------
(* Both controllers *)

\* Time changes the timers only.
LEMMA TickKept ==
  ASSUME Shapes, UpgradeTurn, RollbackTurn, Tick, RB!Tick
  PROVE  Shapes' /\ UpgradeTurn' /\ RollbackTurn'
<1>1. \A o : UpgradeObject(o) => UpgradeObject(Older(o)) /\ Older(o).complete = o.complete
  BY TimerFields
<1>2. \A o : RollbackObject(o) =>
        RollbackObject(RB!Older(o)) /\ RB!Older(o).suspended = o.suspended
  BY RollbackTimerFields
<1>3. Shapes'
  BY <1>1, <1>2 DEF Shapes, Tick, RB!Tick
<1>4. \A r \in Requests : Terminal(obj'[r]) <=> Terminal(obj[r])
  BY <1>1 DEF Shapes, Tick, Terminal
<1>5. UpgradeTurn'
  <2>1. Terminal(mem') <=> Terminal(mem)
    BY <1>1 DEF Shapes, Tick, Terminal
  <2>2. cache' = obj' /\ UNCHANGED <<pc, cur, then>>
    BY DEF UpgradeTurn, Tick
  <2> QED
    BY <1>4, <2>1, <2>2 DEF UpgradeTurn
<1>6. RollbackTurn'
  <2>1. \A b \in Rollbacks : b[1] \in Requests
    BY DEF Rollbacks
  <2>2. /\ \A b \in Rollbacks : /\ robj'[b].suspended = robj[b].suspended
                                /\ rcache'[b].suspended = rcache[b].suspended
        /\ rmem'.suspended = rmem.suspended /\ UNCHANGED <<rpc, rcur>>
    BY <1>2 DEF Shapes, RB!Tick
  <2> QED
    BY <1>4, <2>1, <2>2 DEF RollbackTurn, Follows
<1> QED
  BY <1>3, <1>5, <1>6

\* Every step preserves the invariant.
LEMMA NextTurn ==
  ASSUME CacheCurrent, TurnInv, [AutoNext]_allVars
  PROVE  TurnInv'
<1> USE DEF TurnInv
<1>1. CASE UpgradeStep
  <2>1. UpgradeKept /\ UNCHANGED <<robj, rcache, rpc, rcur, rmem>>
    BY <1>1, UpgradeStepKept DEF UpgradeStep, rollbackVars
  <2>2. Shapes'
    BY <2>1 DEF Shapes, UpgradeKept
  <2>3. RollbackTurn'
    BY <2>1 DEF RollbackTurn, Follows, UpgradeKept, EndsKept, Rollbacks
  <2> QED
    BY <2>1, <2>2, <2>3 DEF UpgradeKept
<1>2. CASE RollbackStep
  <2>1. RollbackKept /\ UNCHANGED <<obj, cache, pc, cur, base, mem, then>>
    BY <1>2, RollbackStepKept DEF RollbackStep, workerVars
  <2> QED
    BY <2>1 DEF RollbackKept, Shapes, UpgradeTurn
<1>3. CASE ClusterStep \/ UNCHANGED allVars
  <2>1. UNCHANGED <<obj, cache, pc, cur, base, mem, then, robj, rcache, rpc, rcur, rmem>>
    BY <1>3 DEF ClusterStep, allVars, vars, workerVars, rollbackVars
  <2> QED
    BY <2>1 DEF Shapes, UpgradeTurn, RollbackTurn, Follows
<1> QED
  BY <1>1, <1>2, <1>3, TickKept DEF AutoNext

\* Initially nothing is under way.
LEMMA InitTurn ==
  ASSUME AutoInit
  PROVE  TurnInv
<1>1. Shapes
  BY DEF AutoInit, Init, Shapes, UpgradeObject, RollbackObject
<1>2. UpgradeTurn
  BY DEF AutoInit, Init, UpgradeTurn
<1>3. RollbackTurn
  BY DEF AutoInit, RollbackTurn, Follows, RB!NewObject
<1> QED
  BY <1>1, <1>2, <1>3 DEF TurnInv

\* A rollback touches the cluster only once its upgrade has ended, and from then
\* on the upgrade controller does nothing for that request but remove its
\* finalizer: though the rollback is created before the upgrade's failure is
\* written, each has its own worker, and either may crash or be deleted at any
\* step (createAutoRollback, isUpgradeTerminal, setFailed).  The hypothesis is a
\* cache that does not lag: a reconcile that reads the upgrade as it was before
\* it ended works on beside the rollback.
THEOREM ControllersTakeTurns ==
  ASSUME CacheCurrent
  PROVE  AutoSpec => []OneControllerAtATime
<1>1. AutoInit => TurnInv
  BY InitTurn
<1>2. TurnInv /\ [AutoNext]_allVars => TurnInv'
  BY NextTurn
<1>3. TurnInv => OneControllerAtATime
  <2> SUFFICES ASSUME TurnInv, NEW b \in Rollbacks, robj[b].suspended # "absent"
               PROVE  Terminal(obj[b[1]]) /\ (cur = b[1] => pc = "finalize")
    BY DEF OneControllerAtATime
  <2>1. b[1] \in Requests /\ Terminal(obj[b[1]])
    BY DEF Rollbacks, TurnInv, RollbackTurn, Follows
  <2> QED
    BY <2>1, UpgradeAssumption DEF TurnInv, UpgradeTurn
<1> QED
  BY <1>1, <1>2, <1>3, PTL DEF AutoSpec

-----------------------------------------------------------------------------
(* A completed rollback has restored.  The rollback's worker does what module *)
(* RollbackSafety proves of it, though the UpgradeRequest it reads is one    *)
(* that the upgrade controller writes: until that has ended no rollback has   *)
(* begun, and then its status does not change any more.                      *)

RS == INSTANCE RollbackSafety
        WITH Upgrades <- {}, upgrade <- [b \in Rollbacks |-> ViewOf(b[1])],
             obj <- robj, cache <- rcache, lagged <- rlagged,
             pc <- rpc, cur <- rcur, base <- rbase, mem <- rmem, then <- rthen

\* The assumptions of module Rollback hold here.
LEMMA RollbackAssumed ==
  /\ None \notin Rollbacks /\ {} \subseteq RS!UpgradeView
  /\ Position \in [PVCs -> Nat] /\ \A p, q \in PVCs : Position[p] = Position[q] => p = q
  /\ MaxAge \in Nat /\ MaxFaults \in Nat
  /\ {TimeoutScaleDown, TimeoutVolumeRestore, TimeoutReconcile, TimeoutHealthCheck}
       \subseteq 0..(MaxAge - 1)
  BY UpgradeAssumption, AutoRollbackAssumption

\* So do those of module Cluster.
LEMMA ClusterAssumed ==
  /\ InitialVersion \in Versions /\ NoVersion \notin Versions
  /\ InitialCurrent \in {InitialVersion, NoVersion}
  /\ PVCs # {} /\ Mounts \in [Workloads -> SUBSET PVCs]
  /\ AppSpecs \subseteq RS!AppSpec
  /\ MaxSnaps \in Nat /\ MaxCount \in Nat
  /\ Disturbances \subseteq RS!DisturbanceKinds
  BY ClusterAssumption DEF AppSpec, RS!AppSpec, DisturbanceKinds, RS!DisturbanceKinds

\* The handlers of the two instances of module Rollback are the same.
LEMMA HandlersSame ==
  ASSUME RB!WorkerStep
  PROVE  RS!WorkerStep
<1> USE DEF RB!At, RS!At, RB!Phase, RS!Phase, RB!Up, RS!Up, RB!Failing, RS!Failing,
            RB!Return, RS!Return, RB!NewObject, RS!NewObject, RB!WriteStatus, RS!WriteStatus,
            RB!setFailed, RS!setFailed, RB!Fail, RS!Fail, RB!NoTimer, RS!NoTimer,
            RB!setPhaseStartIfNeeded, RS!setPhaseStartIfNeeded,
            RB!resetPhaseStart, RS!resetPhaseStart, RB!isPhaseTimedOut, RS!isPhaseTimedOut,
            RB!stored, RS!stored, RB!clusterVars, RS!clusterVars, RB!fluxVars, RS!fluxVars,
            RB!workloadVars, RS!workloadVars, RB!Recorded, RS!Recorded,
            RB!ToRestore, RS!ToRestore, RB!SnapshotUsable, RS!SnapshotUsable,
            RB!VerifyStillSuspended, RS!VerifyStillSuspended, RB!IsSuspended, RS!IsSuspended
<1>1. RB!handleSuspend => RS!handleSuspend
  BY DEF RB!handleSuspend, RS!handleSuspend, RB!isUpgradeTerminal, RS!isUpgradeTerminal,
         RB!runRollbackPreflight, RS!runRollbackPreflight,
         RB!ValidateSuspendTarget, RS!ValidateSuspendTarget,
         RB!SuspendKustomization, RS!SuspendKustomization
<1>2. RB!handleStopWorkload => RS!handleStopWorkload
  BY DEF RB!handleStopWorkload, RS!handleStopWorkload, RB!ScaleDown, RS!ScaleDown,
         RB!DiscoverWorkloadsForPVCs, RS!DiscoverWorkloadsForPVCs, RB!Running, RS!Running
<1>3. RB!checkStopped => RS!checkStopped
  BY DEF RB!checkStopped, RS!checkStopped, RB!IsScaledDown, RS!IsScaledDown
<1>4. RB!handleVolumeRestore => RS!handleVolumeRestore
  BY DEF RB!handleVolumeRestore, RS!handleVolumeRestore
<1>5. RB!deleteClaim => RS!deleteClaim
  BY DEF RB!deleteClaim, RS!deleteClaim, RB!Unrestored, RS!Unrestored, RB!First, RS!First,
         RB!DeletePVC, RS!DeletePVC
<1>6. RB!RestorePVCFromSnapshot => RS!RestorePVCFromSnapshot
  BY DEF RB!RestorePVCFromSnapshot, RS!RestorePVCFromSnapshot, RB!Unrestored, RS!Unrestored,
         RB!First, RS!First, RB!IsPVCDeleted, RS!IsPVCDeleted, RB!NewClaim, RS!NewClaim
<1>7. RB!awaitBound => RS!awaitBound
  BY DEF RB!awaitBound, RS!awaitBound, RB!Unrestored, RS!Unrestored, RB!First, RS!First,
         RB!Unbound, RS!Unbound, RB!Pending, RS!Pending, RB!IsPVCBound, RS!IsPVCBound,
         RB!IsPVCDeleted, RS!IsPVCDeleted
<1>8. RB!handleGitRevert => RS!handleGitRevert
  BY DEF RB!handleGitRevert, RS!handleGitRevert
<1>9. RB!commitFile => RS!commitFile
  BY DEF RB!commitFile, RS!commitFile
<1>10. RB!handleReconciling => RS!handleReconciling
  BY DEF RB!handleReconciling, RS!handleReconciling,
         RB!ResumeKustomization, RS!ResumeKustomization, RB!AfterResume, RS!AfterResume
<1>11. RB!checkReconciled => RS!checkReconciled
  BY DEF RB!checkReconciled, RS!checkReconciled, RB!IsReconciled, RS!IsReconciled
<1>12. RB!handleHealthChecking => RS!handleHealthChecking
  BY DEF RB!handleHealthChecking, RS!handleHealthChecking, RB!CheckHealth, RS!CheckHealth,
         RB!DiscoverWorkloads, RS!DiscoverWorkloads, RB!DiscoverPVCs, RS!DiscoverPVCs,
         RB!Running, RS!Running, RB!checkWorkloadReady, RS!checkWorkloadReady
<1>13. RB!handleCompleted => RS!handleCompleted
  BY DEF RB!handleCompleted, RS!handleCompleted
<1>14. RB!statusUpdate => RS!statusUpdate
  BY DEF RB!statusUpdate, RS!statusUpdate, RB!Store, RS!Store
<1>15. RB!removeFinalizer => RS!removeFinalizer
  BY DEF RB!removeFinalizer, RS!removeFinalizer, RB!Store, RS!Store
<1> HIDE DEF RB!At, RS!At, RB!Phase, RS!Phase, RB!Up, RS!Up, RB!Failing, RS!Failing
<1> QED
  BY <1>1, <1>2, <1>3, <1>4, <1>5, <1>6, <1>7, <1>8, <1>9, <1>10, <1>11, <1>12, <1>13, <1>14,
     <1>15
     DEF RB!WorkerStep, RS!WorkerStep

\* So are the other steps.
LEMMA StepsSame ==
  /\ \A b \in Rollbacks : RB!Reconcile(b) \/ RB!Delete(b) \/ RB!Sync(b) =>
                            RS!Reconcile(b) \/ RS!Delete(b) \/ RS!Sync(b)
  /\ RB!Crash => RS!Crash
  /\ RB!Tick => RS!Tick
  /\ RB!EnvironmentNext => RS!EnvironmentNext
<1> USE DEF RB!Failing, RS!Failing, RB!Return, RS!Return, RB!NewObject, RS!NewObject,
            RB!NoTimer, RS!NoTimer, RB!stored, RS!stored, RB!clusterVars, RS!clusterVars,
            RB!workerVars, RS!workerVars, RB!Terminal, RS!Terminal, RB!Store, RS!Store
<1>1. ASSUME NEW b \in Rollbacks
      PROVE  /\ RB!Reconcile(b) => RS!Reconcile(b)
             /\ RB!Delete(b) => RS!Delete(b)
             /\ RB!Sync(b) => RS!Sync(b)
  BY DEF RB!Reconcile, RS!Reconcile, RB!Delete, RS!Delete, RB!Sync, RS!Sync
<1>2. RB!Crash => RS!Crash
  BY DEF RB!Crash, RS!Crash
<1>3. RB!Tick => RS!Tick
  BY DEF RB!Tick, RS!Tick, RB!Older, RS!Older
<1>4. RB!EnvironmentNext => RS!EnvironmentNext
  BY DEF RB!EnvironmentNext, RS!EnvironmentNext, RB!FluxApplyClaims, RS!FluxApplyClaims,
         RB!FluxApply, RS!FluxApply, RB!AppSuspended, RS!AppSuspended, RB!NewClaim, RS!NewClaim,
         RB!Blank, RS!Blank, RB!Mounted, RS!Mounted, RB!Running, RS!Running,
         RB!PodStartMounting, RS!PodStartMounting, RB!PodStart, RS!PodStart, RB!Open, RS!Open,
         RB!PodReady, RS!PodReady, RB!PodStop, RS!PodStop, RB!SnapshotReady, RS!SnapshotReady,
         RB!ExternalResume, RS!ExternalResume,
         RB!updateManagedAppStatus, RS!updateManagedAppStatus,
         RB!ClaimGone, RS!ClaimGone, RB!ClaimBound, RS!ClaimBound,
         RB!PruneSnapshot, RS!PruneSnapshot, RB!fluxVars, RS!fluxVars,
         RB!workloadVars, RS!workloadVars
<1> QED
  BY <1>1, <1>2, <1>3, <1>4

-----------------------------------------------------------------------------
(* The invariant of both *)

\* At most one rollback is made for each upgrade.
RollbackOnce == MaxRollbacks <= 1

\* With one upgrade there is then one rollback.
LEMMA OneOfEach ==
  ASSUME OneRequest, RollbackOnce
  PROVE  RS!OneRollback
  BY UpgradeAssumption DEF OneRequest, RollbackOnce, RS!OneRollback, Rollbacks

\* Every upgrade has ended.
Ended == \A r \in Requests : Terminal(obj[r])

\* The snapshots that a request with a recorded commit has recorded are
\* consistent, and there are none if it takes none.
Final(r) ==
  obj[r].gitCommitted =>
    QuietRecord(obj[r]) /\ (~SnapshotsEnabled(r) => Recorded(obj[r]) = {})

\* What is kept of the upgrades.  QuietInv, which speaks of Flux and of the
\* workloads, holds until they have ended and a rollback takes over.
UpgradeInv ==
  /\ IInv /\ NoLag /\ SnapInv /\ PrevInv
  /\ Ended \/ QuietInv
  /\ \A r \in Requests : Final(r)

\* What is kept of the rollbacks.
RollbackInv == RS!IInv /\ RS!RevertInv /\ RS!BeganInv /\ ~rlagged

\* A commit that is recorded was made, and then the snapshots are consistent.
LEMMA QuietFinal ==
  ASSUME QuietInv', PrevInv'
  PROVE  \A r \in Requests : Final(r)'
  BY DEF QuietInv, ObjectsSound, PrevInv, Final, Sound

\* Once an upgrade has ended, what it recorded stays consistent.
LEMMA FinalKept ==
  ASSUME IInv, IInv', SnapInv, SnapsKept, app'.spec = app.spec, ask' = ask,
         NEW r \in Requests, Touched(obj[r], obj'[r]), Final(r)
  PROVE  Final(r)'
<1>1. obj[r] \in Object /\ obj'[r] \in Object /\ Ordered(obj[r])
  BY DEF IInv, TypeOK, OneStageAhead
<1>2. obj'[r].gitCommitted = obj[r].gitCommitted /\ obj'[r].pvcSnapshots = obj[r].pvcSnapshots
  BY <1>1 DEF Touched, Object
<1> SUFFICES ASSUME obj'[r].gitCommitted
             PROVE  QuietRecord(obj[r])' /\ (~SnapshotsEnabled(r)' => Recorded(obj[r])' = {})
  BY DEF Final
<1>3. /\ QuietRecord(obj[r]) /\ (~SnapshotsEnabled(r) => Recorded(obj[r]) = {})
      /\ obj[r].snapshotReady /\ SnapsOf(r, obj[r])
  BY <1>1, <1>2 DEF Final, Ordered, SnapInv
<1>4. (SnapshotsEnabled(r)' <=> SnapshotsEnabled(r)) /\ Recorded(obj[r])' = Recorded(obj[r])
  BY <1>2 DEF SnapshotsEnabled, Recorded
<1>5. PICK o \in Object : o = obj[r]
  BY <1>1
<1>6. QuietRecord(o)'
  <2>1. CASE Recorded(o) = {}
    BY <2>1 DEF QuietRecord
  <2>2. CASE Recorded(o) # {}
    BY <1>3, <1>5, <2>2, QuietKept DEF SnapsOf
  <2> QED
    BY <2>1, <2>2
<1> QED
  BY <1>2, <1>3, <1>4, <1>5, <1>6 DEF QuietRecord, Recorded

\* A step of module Upgrade.
LEMMA UpgradeSide ==
  ASSUME KustomizationCurrent, CacheCurrent, OneRequest, ClaimsListed, NoEvictions, OwnKustomization,
         UpgradeInv, [Next]_vars
  PROVE  UpgradeInv' /\ ObjectStep /\ (Ended => Ended')
<1> USE DEF UpgradeInv
<1>1. IInv' /\ ObjectStep
  BY NextStep
<1>2. NoLag' /\ SnapInv'
  BY NoLagStep, SnapStep
<1>3. PrevInv'
  BY <1>1, PrevStep
<1>4. app'.spec = app.spec /\ ask' = ask /\ SnapsKept
  BY SpecsFixed, SnapsMonotone DEF IInv
<1>5. CASE Ended
  <2>1. \A r \in Requests : Touched(obj[r], obj'[r])
    BY <1>1, <1>5 DEF ObjectStep, Ended
  <2>2. \A r \in Requests : Final(r)'
    BY <1>1, <1>4, <2>1, FinalKept
  <2>3. Ended'
    <3> SUFFICES ASSUME NEW r \in Requests PROVE Terminal(obj'[r])
      BY DEF Ended
    <3>1. obj[r] \in Object /\ Terminal(obj[r]) /\ Touched(obj[r], obj'[r])
      BY <1>5, <2>1 DEF IInv, TypeOK, Ended
    <3> QED
      BY <3>1 DEF Touched, Object, Terminal
  <2> QED
    BY <1>1, <1>2, <1>3, <2>2, <2>3
<1>6. CASE ~Ended
  <2>1. QuietInv'
    BY <1>6, QuietStep
  <2> QED
    BY <1>1, <1>2, <1>3, <1>6, <2>1, QuietFinal
<1> QED
  BY <1>5, <1>6

\* A step that leaves the requests and their worker alone.
LEMMA OtherSide ==
  ASSUME NoEvictions, OwnKustomization, UpgradeInv,
         UNCHANGED <<ask, obj, cache, workerVars, rollbacks, commits>>,
         ClusterTypeOK', faults' \in 0..MaxFaults, SnapsKept, app'.spec = app.spec,
         Ended \/ Elsewhere
  PROVE  UpgradeInv'
<1> USE DEF UpgradeInv
<1>1. IInv'
  BY DEF IInv, TypeOK, OneStageAhead, workerVars
<1>2. NoLag' /\ PrevInv'
  BY DEF NoLag, PrevInv, workerVars
<1>3. SnapInv'
  BY StillSnaps, StillWorker, SnapParts DEF IInv, SnapInv, ObjectSnaps, WorkerSnaps
<1>4. CASE Ended
  <2>1. \A r \in Requests : Touched(obj[r], obj'[r])
    BY TouchedSelf DEF IInv, TypeOK
  <2>2. \A r \in Requests : Final(r)'
    BY <1>1, <2>1, FinalKept
  <2> QED
    BY <1>1, <1>2, <1>3, <1>4, <2>2 DEF Ended
<1>5. CASE ~Ended
  <2>1. QuietInv'
    BY <1>5, ClusterQuiet
  <2> QED
    BY <1>1, <1>2, <1>3, <2>1, QuietFinal
<1> QED
  BY <1>4, <1>5

\* The types of the two modules are the same.
LEMMA SameTypes ==
  /\ (RS!ClusterTypeOK <=> ClusterTypeOK) /\ (RS!ClusterTypeOK' <=> ClusterTypeOK')
  /\ RS!NewObject = RB!NewObject
  BY DEF RS!ClusterTypeOK, ClusterTypeOK, RS!PodStates, PodStates, RS!Snapshot, Snapshot,
         RS!NewObject, RB!NewObject, RS!NoTimer, RB!NoTimer

\* What the rollback controller reads of a request.
LEMMA ViewType ==
  ASSUME NEW c \in [Requests -> Object], NEW a \in [Requests -> RequestSpecs], NEW r \in Requests
  PROVE  [gone            |-> c[r].life = "gone",
          terminal        |-> Terminal(c[r]),
          skipSnapshot    |-> a[r].skipSnapshot,
          pvcSnapshots    |-> c[r].pvcSnapshots,
          newVersion      |-> c[r].newVersion,
          previousVersion |-> c[r].previousVersion] \in RS!UpgradeView
<1>1. c[r] \in Object /\ a[r] \in RequestSpec
  BY UpgradeAssumption
<1>2. a[r].skipSnapshot \in BOOLEAN
  BY <1>1 DEF RequestSpec
<1>3. /\ c[r].pvcSnapshots \in [PVCs -> 0..MaxSnaps]
      /\ c[r].newVersion \in Versions \cup {NoVersion}
      /\ c[r].previousVersion \in Versions \cup {NoVersion}
  BY <1>1 DEF Object
<1> QED
  BY <1>2, <1>3 DEF RS!UpgradeView, Terminal

\* The requests as the rollback controller sees them.
LEMMA ViewsType ==
  /\ TypeOK => [b \in Rollbacks |-> ViewOf(b[1])] \in [Rollbacks -> RS!UpgradeView]
  /\ TypeOK' => [b \in Rollbacks |-> ViewOf(b[1])]' \in [Rollbacks -> RS!UpgradeView]
<1>1. \A b \in Rollbacks : b[1] \in Requests
  BY DEF Rollbacks
<1>2. ASSUME TypeOK
      PROVE  [b \in Rollbacks |-> ViewOf(b[1])] \in [Rollbacks -> RS!UpgradeView]
  BY <1>1, <1>2, ViewType DEF TypeOK, ViewOf
<1>3. ASSUME TypeOK'
      PROVE  [b \in Rollbacks |-> ViewOf(b[1])]' \in [Rollbacks -> RS!UpgradeView]
  BY <1>1, <1>3, ViewType DEF TypeOK, ViewOf
<1> QED
  BY <1>2, <1>3

\* Of an upgrade that has ended, the rollback controller sees no change but that
\* it is gone.
LEMMA ViewsKept ==
  ASSUME IInv, IInv', NoLag, NoLag', ask' = ask, Ended, ObjectStep, NEW r \in Requests
  PROVE  /\ ViewOf(r)'.skipSnapshot = ViewOf(r).skipSnapshot
         /\ ViewOf(r)'.pvcSnapshots = ViewOf(r).pvcSnapshots
         /\ ViewOf(r)'.previousVersion = ViewOf(r).previousVersion
<1>1. obj[r] \in Object /\ obj'[r] \in Object /\ Touched(obj[r], obj'[r])
  BY DEF IInv, TypeOK, Ended, ObjectStep
<1>2. /\ obj'[r].pvcSnapshots = obj[r].pvcSnapshots
      /\ obj'[r].previousVersion = obj[r].previousVersion
  BY <1>1 DEF Touched, Object
<1> QED
  BY <1>2 DEF ViewOf, NoLag

\* And the upgrade controller leaves Git alone.
LEMMA EndedLeavesGit ==
  ASSUME CacheCurrent, IInv, NoLag, UpgradeTurn, Ended, [Next]_vars
  PROVE  git' = git
<1>1. pc \in {"idle", "finalize"}
  BY DEF UpgradeTurn, Ended
<1>2. ~Handler
  BY <1>1, BaseSuspended
<1> QED
  BY <1>2, StepKinds DEF Aside, TakeUp, Drop, Written

\* A rollback's object, or a copy of it, that has not begun says nothing of the
\* claims or of Git.
LEMMA NotBegun ==
  ASSUME NEW b, NEW o \in RS!Object, RS!Ordered(o), RS!Began(b, o), o.suspended = "absent"
  PROVE  /\ ~o.gitReverted /\ ~o.volumesRestored /\ \A p \in PVCs : o.restored[p] = "no"
         /\ \A C, u : RS!RestoredIn(o, C, u)
  BY DEF RS!Ordered, RS!Began, RS!RestoredIn, RS!RestoreSet, RS!Object

\* The upgrade controller leaves what is kept of the rollbacks: one that has
\* begun is of an upgrade that has ended.
LEMMA UpgradeLeaves ==
  ASSUME CacheCurrent, OneRequest, TurnInv, IInv, IInv', NoLag, NoLag', RollbackInv,
         ObjectStep, [Next]_vars, UNCHANGED <<claims, rollbackVars>>
  PROVE  RollbackInv'
<1> DEFINE views == [b \in Rollbacks |-> ViewOf(b[1])]
<1>1. IInv /\ IInv' /\ NoLag /\ NoLag' /\ UpgradeTurn /\ RollbackTurn /\ TypeOK'
  BY DEF TurnInv, IInv
<1>2. /\ RS!WorldOK /\ RS!StoredOK /\ RS!WorkerClose /\ RS!RevertInv /\ RS!BeganInv
      /\ ~rlagged
  BY DEF RollbackInv, RS!IInv
<1>3. UNCHANGED <<robj, rcache, rlagged, rpc, rcur, rbase, rmem, rthen, claims>>
  BY DEF rollbackVars
<1>4. \A b \in Rollbacks : b[1] \in Requests /\ views[b] = ViewOf(b[1])
                           /\ views'[b] = ViewOf(b[1])'
  BY DEF Rollbacks
<1>5. ask' = ask
  BY <1>1, SpecsFixed DEF IInv
<1>6. RS!WorldOK'
  <2>1. RS!ClusterTypeOK' /\ faults' \in 0..MaxFaults
    BY <1>1, SameTypes DEF TypeOK
  <2>2. claims' \in [PVCs -> RS!Claim]
    BY <1>2, <1>3 DEF RS!WorldOK
  <2> QED
    BY <1>1, <2>1, <2>2, ViewsType DEF RS!WorldOK
<1>7. RS!StoredOK' /\ ~rlagged'
  BY <1>2, <1>3 DEF RS!StoredOK
<1>8. CASE Ended
  <2>1. git' = git
    BY <1>1, <1>8, EndedLeavesGit
  <2>2. \A b \in Rollbacks : /\ views'[b].skipSnapshot = views[b].skipSnapshot
                             /\ views'[b].pvcSnapshots = views[b].pvcSnapshots
                             /\ views'[b].previousVersion = views[b].previousVersion
    BY <1>1, <1>4, <1>5, <1>8, ViewsKept
  <2>3. rpc # "idle" => rcur \in Rollbacks
    BY <1>1 DEF RollbackTurn
  <2> HIDE DEF views
  <2>4. \A b \in Rollbacks : \A o : RS!RestoredIn(o, claims, views[b]) =>
                                      RS!RestoredIn(o, claims, views'[b])
    BY <2>2, RS!SameUpgrade, RollbackAssumed, ClusterAssumed
  <2> USE DEF views
  <2>5. RS!WorkerClose'
    BY <1>2, <1>3, <2>2, <2>3 DEF RS!WorkerClose
  <2>6. RS!RevertInv'
    BY <1>2, <1>3, <2>3, <2>4 DEF RS!RevertInv, RS!WorkerRestored
  <2>7. RS!BeganInv'
    BY <1>2, <1>3, <2>1, <2>2, <2>3 DEF RS!BeganInv, RS!Began
  <2> QED
    BY <1>6, <1>7, <2>5, <2>6, <2>7 DEF RollbackInv, RS!IInv
<1>9. CASE ~Ended
  <2>1. \A b \in Rollbacks : ~Terminal(obj[b[1]])
    BY <1>4, <1>9 DEF Ended, OneRequest
  <2>2. /\ \A b \in Rollbacks : robj[b].suspended = "absent" /\ rcache[b].suspended = "absent"
        /\ rpc # "idle" => rcur \in Rollbacks /\ rmem.suspended = "absent"
    BY <1>1, <2>1 DEF RollbackTurn, Follows
  <2>3. ASSUME NEW b \in Rollbacks, NEW o \in RS!Object, RS!Ordered(o), RS!Began(b, o),
               o.suspended = "absent"
        PROVE  ~o.gitReverted /\ \A C, u : RS!RestoredIn(o, C, u)
    BY <2>3, NotBegun
  <2>4. \A b \in Rollbacks : /\ ~robj[b].gitReverted /\ ~rcache[b].gitReverted
                             /\ \A C, u : RS!RestoredIn(robj[b], C, u)
    BY <1>2, <2>2, <2>3 DEF RS!StoredOK, RS!BeganInv
  <2>5. rpc # "idle" => ~rmem.gitReverted /\ \A C, u : RS!RestoredIn(rmem, C, u)
    BY <1>2, <2>2, <2>3 DEF RS!WorkerClose, RS!BeganInv
  <2>6. RS!WorkerClose'
    <3>1. rpc # "push"
      BY <1>2, <2>2 DEF RS!WorkerClose, RS!Stage, RS!Phase
    <3> QED
      BY <1>2, <1>3, <3>1 DEF RS!WorkerClose
  <2>7. RS!RevertInv'
    BY <1>2, <1>3, <2>4, <2>5 DEF RS!RevertInv, RS!WorkerRestored
  <2>8. RS!BeganInv'
    BY <1>2, <1>3, <2>2, <2>4, <2>5 DEF RS!BeganInv, RS!Began
  <2> QED
    BY <1>6, <1>7, <2>6, <2>7, <2>8 DEF RollbackInv, RS!IInv
<1> QED
  BY <1>8, <1>9

\* A step of the rollback controller, of the cluster or of time is a step of module
\* Rollback.
LEMMA RollbackNext ==
  ASSUME RollbackStep \/ ClusterStep \/ RB!Tick
  PROVE  RS!Next
<1>1. CASE RollbackStep
  <2>1. ASSUME NEW b \in Rollbacks, RB!Reconcile(b) \/ RB!Delete(b) \/ RB!Sync(b)
        PROVE  RS!Next
    BY <2>1, StepsSame DEF RS!Next
  <2>2. CASE RB!WorkerStep
    BY <2>2, HandlersSame DEF RS!Next
  <2>3. CASE RB!Crash
    BY <2>3, StepsSame DEF RS!Next
  <2> QED
    BY <1>1, <2>1, <2>2, <2>3 DEF RollbackStep
<1>2. CASE ClusterStep
  <2>1. UNCHANGED [b \in Rollbacks |-> ViewOf(b[1])]
    BY <1>2 DEF ClusterStep, ViewOf
  <2>2. RS!EnvironmentNext
    BY <1>2, StepsSame DEF ClusterStep
  <2> QED
    BY <1>2, <2>1, <2>2 DEF ClusterStep, RS!Next, RS!stored, RS!workerVars, rollbackVars
<1>3. CASE RB!Tick
  BY <1>3, StepsSame DEF RS!Next
<1> QED
  BY <1>1, <1>2, <1>3

\* So it preserves what is kept of the rollbacks.
LEMMA RollbackSide ==
  ASSUME CacheCurrent, OneRequest, RollbackOnce, RollbackInv,
         RollbackStep \/ ClusterStep \/ RB!Tick
  PROVE  RollbackInv'
<1>1. RS!Next
  BY RollbackNext
<1>2. RS!IInv'
  BY <1>1, RS!NextStep, RollbackAssumed, ClusterAssumed DEF RollbackInv
<1>3. RS!RevertInv' /\ RS!BeganInv'
  BY <1>1, OneOfEach, RS!NextRevert, RS!NextBegan, RollbackAssumed, ClusterAssumed
     DEF RollbackInv
<1>4. ~rlagged'
  BY <1>1
     DEF CacheCurrent, RollbackInv, RS!Next, RS!Reconcile, RS!Store, RS!stored, RS!WorkerStep,
         RS!handleSuspend, RS!handleStopWorkload, RS!checkStopped, RS!handleVolumeRestore,
         RS!deleteClaim, RS!RestorePVCFromSnapshot, RS!awaitBound, RS!handleGitRevert,
         RS!commitFile, RS!handleReconciling, RS!checkReconciled, RS!handleHealthChecking,
         RS!handleCompleted, RS!statusUpdate, RS!removeFinalizer, RS!Crash, RS!Delete,
         RS!Sync, RS!DeleteUpgrade, RS!Tick
<1> QED
  BY <1>2, <1>3, <1>4 DEF RollbackInv

\* The rollback controller changes the suspension and the replica counts only
\* when the upgrades have ended, and nothing else that the upgrades' invariant
\* speaks of.
LEMMA RollbackWorld ==
  ASSUME OneRequest, TurnInv, RollbackStep
  PROVE  /\ UNCHANGED <<ready, applied, pods, snaps, app>>
         /\ Ended \/ UNCHANGED <<suspended, replicas>>
<1> USE DEF RB!clusterVars, RB!fluxVars, RB!workloadVars
<1>1. ASSUME rpc # "idle", rmem.suspended # "absent" \/ RB!isUpgradeTerminal(RB!Up)
      PROVE  Ended
  <2>1. rcur \in Rollbacks /\ rcur[1] \in Requests
    BY <1>1 DEF TurnInv, RollbackTurn, Rollbacks
  <2>2. Terminal(obj[rcur[1]])
    BY <1>1, <2>1
       DEF TurnInv, RollbackTurn, Follows, UpgradeTurn, RB!isUpgradeTerminal, RB!Up, ViewOf
  <2> QED
    BY <2>1, <2>2 DEF OneRequest, Ended
<1>2. CASE RB!handleSuspend
  BY <1>1, <1>2 DEF RB!handleSuspend, RB!At
<1>3. CASE RB!handleStopWorkload
  <2>1. rpc = "run" /\ RB!Phase(rmem) = "stop" /\ UNCHANGED <<suspended, ready, applied, pods, snaps, app>>
    BY <1>3 DEF RB!handleStopWorkload, RB!At
  <2> QED
    BY <1>1, <2>1 DEF RB!Phase
<1>4. CASE RB!handleReconciling
  <2>1. /\ rpc = "run" /\ RB!Phase(rmem) = "reconcile"
        /\ UNCHANGED <<ready, applied, replicas, pods, snaps, app>>
    BY <1>4 DEF RB!handleReconciling, RB!At
  <2> QED
    BY <1>1, <2>1 DEF RB!Phase
<1>5. CASE RB!commitFile
  BY <1>5 DEF RB!commitFile
<1>6. CASE \/ RB!checkStopped \/ RB!handleVolumeRestore \/ RB!deleteClaim
           \/ RB!RestorePVCFromSnapshot \/ RB!awaitBound \/ RB!handleGitRevert
           \/ RB!checkReconciled \/ RB!handleHealthChecking \/ RB!handleCompleted
           \/ RB!statusUpdate \/ RB!removeFinalizer
  BY <1>6
     DEF RB!checkStopped, RB!handleVolumeRestore, RB!deleteClaim, RB!RestorePVCFromSnapshot,
         RB!awaitBound, RB!handleGitRevert, RB!checkReconciled, RB!handleHealthChecking,
         RB!handleCompleted, RB!statusUpdate, RB!removeFinalizer
<1>7. CASE RB!Crash
  BY <1>7 DEF RB!Crash
<1>8. ASSUME NEW b \in Rollbacks, RB!Reconcile(b) \/ RB!Delete(b) \/ RB!Sync(b)
      PROVE  UNCHANGED <<suspended, ready, applied, replicas, pods, snaps, app>>
  BY <1>8 DEF RB!Reconcile, RB!Delete, RB!Sync
<1> QED
  BY <1>2, <1>3, <1>4, <1>5, <1>6, <1>7, <1>8 DEF RollbackStep, RB!WorkerStep

\* The other actors do what they do in module Upgrade, to the claims too, or prune
\* a snapshot.
LEMMA ClusterWorld ==
  ASSUME UpgradeInv, ClusterStep
  PROVE  SnapsKept /\ app'.spec = app.spec /\ Elsewhere
<1>0. TypeOK
  BY DEF UpgradeInv, IInv
<1>1. CASE ClusterNext
  <2>1. Next
    BY <1>1 DEF Next, ClusterStep
  <2> QED
    BY <1>0, <1>1, <2>1, SnapsMonotone, SpecsFixed DEF Elsewhere
<1>2. ASSUME NEW p \in PVCs, RB!ClaimGone(p) \/ RB!ClaimBound(p)
      PROVE  SnapsKept /\ app'.spec = app.spec /\ Elsewhere
  BY <1>2 DEF RB!ClaimGone, RB!ClaimBound, RB!clusterVars, SnapsKept, Elsewhere
<1>3. ASSUME NEW p \in PVCs, NEW i \in 1..MaxSnaps, RB!PruneSnapshot(p, i)
      PROVE  SnapsKept /\ app'.spec = app.spec /\ Elsewhere
  <2>1. UNCHANGED <<suspended, replicas, pods, app>>
    BY <1>3 DEF RB!PruneSnapshot, RB!fluxVars, RB!workloadVars
  <2>2. snaps \in [PVCs -> Seq(Snapshot)] /\ i \in 1..Len(snaps[p])
    BY <1>0, <1>3 DEF TypeOK, ClusterTypeOK, RB!PruneSnapshot
  <2>3. snaps' = [snaps EXCEPT ![p][i].state = "deleted"]
    BY <1>3 DEF RB!PruneSnapshot
  <2>4. ASSUME NEW q \in PVCs, NEW j \in 1..Len(snaps[q])
        PROVE  /\ j \in 1..Len(snaps'[q])
               /\ snaps[q][j].state # "pending" => snaps'[q][j].state # "pending"
               /\ snaps'[q][j].quiet = snaps[q][j].quiet
    <3>1. snaps[q] \in Seq(Snapshot) /\ snaps[q][j] \in Snapshot
      BY <2>2
    <3>2. CASE q # p
      BY <2>2, <2>3, <3>2
    <3>3. CASE q = p
      <4>1. snaps'[q] = [snaps[q] EXCEPT ![i].state = "deleted"]
        BY <2>2, <2>3, <3>3
      <4>2. Len(snaps'[q]) = Len(snaps[q])
        BY <3>1, <4>1
      <4> QED
        BY <3>1, <4>1, <4>2 DEF Snapshot
    <3> QED
      BY <3>2, <3>3
  <2> QED
    BY <2>1, <2>4 DEF SnapsKept, Elsewhere
<1> QED
  <2> USE DEF RB!fluxVars, fluxVars, RB!workloadVars, workloadVars
  <2>1. \A ok : RB!FluxApply(ok) => FluxApply(ok)
    BY DEF RB!FluxApply, FluxApply, RB!AppSuspended, AppSuspended
  <2>2. \A w : /\ RB!PodStart(w) => PodStart(w)
               /\ RB!PodReady(w) => PodReady(w)
               /\ RB!PodStop(w) => PodStop(w)
    BY DEF RB!PodStart, PodStart, RB!PodReady, PodReady, RB!PodStop, PodStop
  <2>3. /\ \A p, i : RB!SnapshotReady(p, i) => SnapshotReady(p, i)
        /\ RB!ExternalResume => ExternalResume
        /\ \A v : RB!updateManagedAppStatus(v) => updateManagedAppStatus(v)
    BY DEF RB!SnapshotReady, SnapshotReady, RB!ExternalResume, ExternalResume,
           RB!updateManagedAppStatus, updateManagedAppStatus
  <2>4. \/ ClusterNext
        \/ \E p \in PVCs : RB!ClaimGone(p) \/ RB!ClaimBound(p)
        \/ \E p \in PVCs, i \in 1..MaxSnaps : RB!PruneSnapshot(p, i)
    BY <2>1, <2>2, <2>3
       DEF ClusterStep, RB!EnvironmentNext, ClusterNext, RB!FluxApplyClaims,
           RB!PodStartMounting
  <2> QED
    BY <1>1, <1>2, <1>3, <2>4

\* The inductive invariant.
BothInv == TurnInv /\ UpgradeInv /\ RollbackInv

\* Every step preserves it.
LEMMA NextBoth ==
  ASSUME KustomizationCurrent, CacheCurrent, OneRequest, RollbackOnce, ClaimsListed,
         NoEvictions, OwnKustomization, BothInv, [AutoNext]_allVars
  PROVE  BothInv'
<1> USE DEF BothInv
<1>0. TurnInv'
  BY NextTurn
<1>1. CASE UpgradeStep
  <2>1. Next /\ UNCHANGED <<claims, rollbackVars>>
    BY <1>1 DEF UpgradeStep, Next
  <2>2. UpgradeInv' /\ ObjectStep
    BY <2>1, UpgradeSide
  <2> QED
    BY <1>0, <2>1, <2>2, UpgradeLeaves DEF UpgradeInv
<1>2. CASE Tick /\ RB!Tick
  <2>1. UpgradeInv'
    BY <1>2, UpgradeSide DEF Next
  <2>2. RollbackInv'
    BY <1>2, RollbackSide
  <2> QED
    BY <1>0, <2>1, <2>2
<1>3. CASE RollbackStep \/ ClusterStep
  <2>1. RollbackInv'
    BY <1>3, RollbackSide
  <2>2. ClusterTypeOK' /\ faults' \in 0..MaxFaults
    BY <2>1, SameTypes DEF RollbackInv, RS!IInv, RS!WorldOK
  <2>3. UNCHANGED <<ask, obj, cache, workerVars, rollbacks, commits>>
    BY <1>3 DEF RollbackStep, ClusterStep
  <2>4. SnapsKept /\ app'.spec = app.spec /\ (Ended \/ Elsewhere)
    <3>1. CASE RollbackStep
      BY <3>1, RollbackWorld DEF SnapsKept, Elsewhere
    <3> QED
      BY <1>3, <3>1, ClusterWorld
  <2>5. UpgradeInv'
    BY <2>2, <2>3, <2>4, OtherSide
  <2> QED
    BY <1>0, <2>1, <2>5
<1>4. CASE UNCHANGED allVars
  <2>1. UNCHANGED vars /\ UNCHANGED <<claims, rollbackVars>>
    BY <1>4 DEF allVars
  <2>2. UpgradeInv' /\ ObjectStep
    BY <2>1, UpgradeSide
  <2> QED
    BY <1>0, <2>1, <2>2, UpgradeLeaves DEF UpgradeInv
<1> QED
  BY <1>1, <1>2, <1>3, <1>4 DEF AutoNext

\* The invariant holds initially.
LEMMA InitBoth ==
  ASSUME AutoInit
  PROVE  BothInv
<1>0. Init /\ IInv
  BY InitInv DEF AutoInit
<1>1. UpgradeInv
  <2>1. \A r \in Requests : obj[r] = NewObject /\ commits[r] = {}
    BY <1>0, OutcomeInit
  <2>2. NoLag /\ pc = "idle" /\ SnapInv /\ QuietInv
    BY <1>0, OutcomeInit, QuietInit
  <2>3. PrevInv /\ \A r \in Requests : Final(r)
    BY <2>1, <2>2 DEF PrevInv, PrevOf, Final, NewObject
  <2> QED
    BY <1>0, <2>2, <2>3 DEF UpgradeInv
<1>2. RollbackInv
  <2>1. /\ robj = [b \in Rollbacks |-> RS!NewObject] /\ rcache = robj /\ rlagged = FALSE
        /\ rpc = "idle" /\ rcur = None /\ rbase = RS!NewObject /\ rmem = RS!NewObject
        /\ rthen = "return"
    BY SameTypes DEF AutoInit
  <2>2. RS!NewObject \in RS!Object /\ RS!Ordered(RS!NewObject)
    <3>1. RS!NewObject \in RS!Object
      BY RS!NewObjectType, RollbackAssumed, ClusterAssumed
    <3> QED
      BY <3>1 DEF RS!Ordered, RS!NewObject
  <2>3. RS!WorldOK
    <3>1. claims \in [PVCs -> RS!Claim]
      BY ClusterAssumption DEF AutoInit, RS!Claim, RB!Live, RS!Blank
    <3>2. RS!ClusterTypeOK /\ faults \in 0..MaxFaults
      BY <1>0, SameTypes DEF IInv, TypeOK
    <3> QED
      BY <1>0, <3>1, <3>2, ViewsType DEF RS!WorldOK, IInv
  <2>4. RS!StoredOK /\ RS!WorkerClose
    BY <2>1, <2>2 DEF RS!StoredOK, RS!WorkerClose
  <2>5. RS!BeganInv
    BY <2>1, RS!NewBegan, RollbackAssumed, ClusterAssumed DEF RS!BeganInv
  <2>6. RS!RevertInv
    BY <2>1 DEF RS!RevertInv, RS!WorkerRestored, RS!RestoredIn, RS!RestoreSet, RS!NewObject
  <2> QED
    BY <2>1, <2>3, <2>4, <2>5, <2>6 DEF RollbackInv, RS!IInv
<1> QED
  BY <1>1, <1>2, InitTurn DEF BothInv

\* A rollback that completed has put back what its upgrade found: the version the
\* upgrade recorded is in Git, and every claim with a recorded snapshot holds that
\* snapshot's data, cut while no pod had the claim mounted.  The rollback may crash
\* anywhere, calls may fail after they were carried out, requests may be deleted,
\* snapshots pruned and Flux resumed by hand (createAutoRollback,
\* handleVolumeRestore, handleGitRevert).  This is for one upgrade and its one
\* rollback, caches that do not lag, and, as in SnapshotsAreConsistent, an app
\* that lists its claims and is applied by the Kustomization that is suspended,
\* when no pod is evicted.
THEOREM CompletedRollbacksRestore ==
  ASSUME KustomizationCurrent, CacheCurrent, OneRequest, RollbackOnce, ClaimsListed,
         NoEvictions, OwnKustomization
  PROVE  AutoSpec => []CompletedRollbackRestores
<1>1. AutoInit => BothInv
  BY InitBoth
<1>2. BothInv /\ [AutoNext]_allVars => BothInv'
  BY NextBoth
<1>3. BothInv => CompletedRollbackRestores
  <2> SUFFICES ASSUME BothInv, NEW b \in Rollbacks, robj[b].complete = "true", NEW o,
                      o = obj[b[1]]
               PROVE  /\ git = o.previousVersion
                      /\ \A p \in Recorded(o) : /\ claims[p].data = o.pvcSnapshots[p]
                                                /\ snaps[p][o.pvcSnapshots[p]].quiet
    BY DEF CompletedRollbackRestores
  <2>1. b[1] \in Requests
    BY DEF Rollbacks
  <2>2. /\ RS!StoredOK /\ RS!RevertInv /\ RS!BeganInv /\ ~rlagged
        /\ cache = obj /\ PrevInv /\ Final(b[1]) /\ TypeOK
    BY <2>1 DEF BothInv, RollbackInv, UpgradeInv, NoLag, RS!IInv, IInv
  <2>3. robj[b].gitReverted /\ robj[b].volumesRestored
    BY <2>2 DEF RS!StoredOK, RS!Ordered
  <2>4. git = o.previousVersion
    BY <2>2, <2>3 DEF RS!BeganInv, RS!Began, ViewOf
  <2>5. o.gitCommitted
    BY <2>1, <2>2, <2>4, ClusterAssumption DEF PrevInv, PrevOf, TypeOK, ClusterTypeOK
  <2>6. QuietRecord(o) /\ (~SnapshotsEnabled(b[1]) => Recorded(o) = {})
    BY <2>2, <2>5 DEF Final
  <2>7. ASSUME NEW p \in Recorded(o) PROVE claims[p].data = o.pvcSnapshots[p]
    <3>1. ~ask[b[1]].skipSnapshot
      BY <2>6 DEF SnapshotsEnabled
    <3>2. /\ p \in RS!RestoreSet(ViewOf(b[1]))
          /\ ViewOf(b[1]).pvcSnapshots = o.pvcSnapshots
      BY <2>2, <3>1 DEF RS!RestoreSet, ViewOf, Recorded
    <3>3. RS!RestoredIn(robj[b], claims, ViewOf(b[1]))
      BY <2>2 DEF RS!RevertInv
    <3> QED
      BY <2>3, <3>2, <3>3 DEF RS!RestoredIn
  <2> QED
    BY <2>4, <2>6, <2>7 DEF QuietRecord
<1> QED
  BY <1>1, <1>2, <1>3, PTL DEF AutoSpec

-----------------------------------------------------------------------------
(* What a rollback stops it restores cleanly.  Again the rollback's worker    *)
(* keeps its invariant, StopInv, by itself; the upgrade's worker has left the *)
(* cluster when it begins.                                                   *)

\* Once the upgrades have ended, their controller leaves the cluster alone.
LEMMA EndedLeavesCluster ==
  ASSUME UpgradeTurn, Ended, UpgradeStep
  PROVE  UNCHANGED clusterVars
<1>1. pc \in {"idle", "finalize"}
  BY DEF UpgradeTurn, Ended
<1>2. CASE WorkerStep
  <2>1. removeFinalizer
    BY <1>1, <1>2
       DEF WorkerStep, handleSuspend, handleScaleDown, checkScaledDown,
           createSnapshotsForUpgrade, awaitSnapshots, handleCommitting, commitFile,
           handleReconciling, handleHealthChecking, handleCompleted, statusUpdate, At
  <2> QED
    BY <2>1 DEF removeFinalizer
<1> QED
  BY <1>2 DEF UpgradeStep, Reconcile, Delete, Sync, Crash

\* So it leaves StopInv: until then no rollback has begun.
LEMMA UpgradeStops ==
  ASSUME CacheCurrent, OneRequest, TurnInv, IInv, IInv', NoLag, NoLag', RollbackInv,
         RS!StopInv, ObjectStep, [Next]_vars, UNCHANGED <<claims, rollbackVars>>,
         Ended => UNCHANGED clusterVars
  PROVE  RS!StopInv'
<1> DEFINE views == [b \in Rollbacks |-> ViewOf(b[1])]
<1>1. UpgradeTurn /\ RollbackTurn /\ TypeOK' /\ RS!StoredOK /\ RS!WorkerClose /\ RS!IInv
  BY DEF TurnInv, IInv, RollbackInv, RS!IInv
<1>2. UNCHANGED <<robj, rcache, rlagged, rpc, rcur, rbase, rmem, rthen, claims>>
  BY DEF rollbackVars
<1>3. \A b \in Rollbacks : b[1] \in Requests /\ views[b] = ViewOf(b[1])
                           /\ views'[b] = ViewOf(b[1])'
  BY DEF Rollbacks
<1>4. ask' = ask
  BY SpecsFixed DEF IInv
<1>5. CASE Ended
  <2>1. \A b \in Rollbacks : /\ views'[b].skipSnapshot = views[b].skipSnapshot
                             /\ views'[b].pvcSnapshots = views[b].pvcSnapshots
                             /\ views'[b].previousVersion = views[b].previousVersion
    BY <1>3, <1>4, <1>5, ViewsKept
  <2>2. RS!SameUps
    BY <2>1 DEF RS!SameUps, RS!RestoreSet
  <2>3. UNCHANGED <<suspended, applied, replicas, pods, git, app>>
    BY <1>5 DEF clusterVars, fluxVars, workloadVars
  <2>4. /\ RS!HeldStays
        /\ \A p \in PVCs : claims'[p].data > RS!Live => claims[p].data > RS!Live
        /\ \A b \in Rollbacks : \A p \in RS!RestoreSet(views[b]) :
             RS!CleanClaim(b, p) => RS!CleanClaim(b, p)'
    BY <1>2, <2>2, <2>3, RS!CalmHeld, RollbackAssumed, ClusterAssumed
  <2>5. /\ \A b \in Rollbacks : RS!SameStop(robj[b], robj'[b])
        /\ RS!SameStop(rmem, rmem') /\ RS!SameStop(rbase, rbase')
    BY <1>2 DEF RS!SameStop, RS!SameMarks
  <2> QED
    BY <1>1, <1>2, <2>2, <2>4, <2>5, RS!KeepStop, RollbackAssumed, ClusterAssumed
<1>6. CASE ~Ended
  <2>1. \A b \in Rollbacks : ~Terminal(obj[b[1]])
    BY <1>3, <1>6 DEF Ended, OneRequest
  <2>2. /\ \A b \in Rollbacks : robj[b].suspended = "absent"
        /\ rpc # "idle" => rcur \in Rollbacks /\ rmem.suspended = "absent"
    BY <1>1, <2>1 DEF RollbackTurn, Follows
  <2>3. \A b \in Rollbacks : robj[b].scaling = {} /\ ~robj[b].workloadStopped
    BY <1>1, <2>2 DEF RS!StopInv, RS!Stopped, RS!StoredOK, RS!Ordered
  <2>4. rpc # "idle" => /\ rmem.scaling = {}
                        /\ rbase.workloadStopped => /\ rmem.workloadStopped
                                                    /\ rmem.scaling = rbase.scaling
    BY <2>2 DEF RS!StopInv, RS!Stopped
  <2>5. \A o, P, held, R, D :
          o.suspended = "absent" /\ o.scaling = {} => RS!Stopped(o, P, held, R, D)
    BY DEF RS!Stopped
  <2>6. ASSUME NEW b \in Rollbacks PROVE RS!StoppedClean(b)'
    <3>1. \A p \in PVCs : ~(claims'[p].data > RS!Live)
      BY <1>2, <2>3 DEF RS!StopInv, RS!StoppedClean
    <3>2. \A p \in RS!RestoreSet(views'[b]) : p \in PVCs /\ views'[b].pvcSnapshots[p] > RS!Live
      <4>1. views' \in [Rollbacks -> RS!UpgradeView]
        BY <1>1, ViewsType
      <4> HIDE DEF views
      <4> QED
        BY <4>1, ClusterAssumption DEF RS!UpgradeView, RS!RestoreSet, RS!Live
    <3>3. \A p \in RS!RestoreSet(views'[b]) : ~RS!Holds(b, p)'
      BY <3>1, <3>2 DEF RS!Holds
    <3>4. \A p \in RS!RestoreSet(views'[b]) : RS!CleanClaim(b, p)'
      BY <3>3 DEF RS!CleanClaim
    <3> QED
      BY <3>1, <3>4 DEF RS!StoppedClean
  <2> QED
    BY <1>2, <2>2, <2>3, <2>4, <2>5, <2>6 DEF RS!StopInv
<1> QED
  BY <1>5, <1>6

\* The inductive invariant.
CleanInv == TurnInv /\ IInv /\ NoLag /\ RollbackInv /\ RS!StopInv

\* Nobody but the controllers resumes Flux, apart from a parent.
NoHandResume == "resume" \notin Disturbances

\* Every step preserves it.
LEMMA NextClean ==
  ASSUME KustomizationCurrent, CacheCurrent, OneRequest, RollbackOnce, NoHandResume,
         OwnKustomization, CleanInv, [AutoNext]_allVars
  PROVE  CleanInv'
<1> USE DEF CleanInv
<1>0. TurnInv'
  BY NextTurn
<1>1. ASSUME [Next]_vars, UNCHANGED <<claims, rollbackVars>>, Ended => UNCHANGED clusterVars
      PROVE  CleanInv'
  <2>1. IInv' /\ ObjectStep /\ NoLag'
    BY <1>1, NextStep, NoLagStep
  <2> QED
    BY <1>0, <1>1, <2>1, UpgradeLeaves, UpgradeStops
<1>2. CASE UpgradeStep
  <2>1. Next /\ UNCHANGED <<claims, rollbackVars>>
    BY <1>2 DEF UpgradeStep, Next
  <2>2. Ended => UNCHANGED clusterVars
    BY <1>2, EndedLeavesCluster DEF TurnInv
  <2> QED
    BY <1>1, <2>1, <2>2
<1>3. CASE UNCHANGED allVars
  BY <1>1, <1>3 DEF allVars, vars
<1>4. ASSUME RollbackStep \/ ClusterStep \/ RB!Tick PROVE RollbackInv' /\ RS!StopInv'
  <2>1. RollbackInv' /\ RS!Next
    BY <1>4, RollbackSide, RollbackNext
  <2>2. RS!OneRollback /\ RS!NoResume /\ RS!OwnKustomization /\ RS!KustomizationCurrent
    BY OneOfEach
       DEF NoHandResume, RS!NoResume, OwnKustomization, RS!OwnKustomization,
           KustomizationCurrent, RS!KustomizationCurrent
  <2>3. RS!StopInv'
    BY <2>1, <2>2, RS!NextStop, RollbackAssumed, ClusterAssumed DEF RollbackInv
  <2> QED
    BY <2>1, <2>3
<1>5. CASE Tick /\ RB!Tick
  <2>1. IInv' /\ NoLag'
    BY <1>5, NextStep, NoLagStep DEF Next
  <2> QED
    BY <1>0, <1>4, <1>5, <2>1
<1>6. CASE RollbackStep \/ ClusterStep
  <2>1. ClusterTypeOK' /\ faults' \in 0..MaxFaults
    BY <1>4, <1>6, SameTypes DEF RollbackInv, RS!IInv, RS!WorldOK
  <2>2. UNCHANGED <<ask, obj, cache, workerVars, rollbacks, commits>>
    BY <1>6 DEF RollbackStep, ClusterStep
  <2>3. IInv'
    BY <2>1, <2>2 DEF IInv, TypeOK, OneStageAhead, workerVars
  <2>4. NoLag'
    BY <2>2 DEF NoLag, workerVars
  <2> QED
    BY <1>0, <1>4, <1>6, <2>3, <2>4
<1> QED
  BY <1>2, <1>3, <1>5, <1>6 DEF AutoNext

\* A restored claim whose workloads the rollback has stopped is mounted by the
\* version it goes back to only, whatever fails, crashes, is deleted, evicted or
\* pruned meanwhile: what is stopped stays down while Flux is held, the upgrade's
\* worker has left the cluster, and Flux is resumed with the old version in Git
\* (handleStopWorkload before handleVolumeRestore, handleReconciling after
\* handleGitRevert).  For one upgrade and its one rollback, caches that do not
\* lag, an app that is applied by the Kustomization that is suspended, and nobody
\* who resumes that by hand.
THEOREM StoppedStaysClean ==
  ASSUME KustomizationCurrent, CacheCurrent, OneRequest, RollbackOnce, NoHandResume,
         OwnKustomization
  PROVE  AutoSpec => []StoppedDataClean
<1>1. ASSUME AutoInit PROVE CleanInv
  <2>1. BothInv
    BY <1>1, InitBoth
  <2>2. /\ rpc = "idle" /\ \A p \in PVCs : claims[p].data = RS!Live
        /\ \A b \in Rollbacks : robj[b] = RS!NewObject
    BY <1>1, SameTypes DEF AutoInit, RB!Live, RS!Live
  <2>3. \A b \in Rollbacks : \A P, held, R, D : RS!Stopped(robj[b], P, held, R, D)
    BY <2>2 DEF RS!Stopped, RS!NewObject
  <2>4. ASSUME NEW b \in Rollbacks PROVE RS!StoppedClean(b)
    <3>1. /\ [c \in Rollbacks |-> ViewOf(c[1])] \in [Rollbacks -> RS!UpgradeView]
      BY <2>1, ViewsType DEF BothInv, UpgradeInv, IInv
    <3>2. ViewOf(b[1]) \in RS!UpgradeView
      BY <3>1
    <3>3. \A p \in RS!RestoreSet(ViewOf(b[1])) :
            p \in PVCs /\ ViewOf(b[1]).pvcSnapshots[p] # RS!Live
      BY <3>2 DEF RS!RestoreSet, RS!Live
    <3>4. \A p \in RS!RestoreSet(ViewOf(b[1])) : RS!CleanClaim(b, p)
      BY <2>2, <3>3 DEF RS!CleanClaim, RS!Holds
    <3>5. \A p \in PVCs : ~(claims[p].data > RS!Live)
      BY <2>2 DEF RS!Live
    <3> QED
      BY <3>4, <3>5 DEF RS!StoppedClean
  <2> QED
    BY <2>1, <2>2, <2>3, <2>4 DEF BothInv, UpgradeInv, CleanInv, RS!StopInv
<1>2. CleanInv /\ [AutoNext]_allVars => CleanInv'
  BY NextClean
<1>3. CleanInv => StoppedDataClean
  <2> SUFFICES ASSUME CleanInv, NEW b \in Rollbacks, NEW p \in Recorded(obj[b[1]]),
                      \A w \in Workloads : p \in Mounts[w] => w \in robj[b].scaling,
                      claims[p].data = obj[b[1]].pvcSnapshots[p]
               PROVE  claims[p].opened \subseteq {obj[b[1]].previousVersion}
    BY DEF StoppedDataClean
  <2>1. /\ RS!StoppedClean(b) /\ cache = obj /\ RS!Covers(robj[b], p)
        /\ ViewOf(b[1]).pvcSnapshots = obj[b[1]].pvcSnapshots
        /\ ViewOf(b[1]).previousVersion = obj[b[1]].previousVersion
    BY DEF CleanInv, RS!StopInv, RS!Covers, NoLag, ViewOf
  <2>2. p \in PVCs /\ claims[p].data > RS!Live
    <3>1. obj[b[1]] \in Object
      BY DEF CleanInv, IInv, TypeOK, Rollbacks
    <3>2. obj[b[1]].pvcSnapshots \in [PVCs -> 0..MaxSnaps] /\ p \in PVCs
          /\ obj[b[1]].pvcSnapshots[p] # 0
      BY <3>1 DEF Object, Recorded
    <3> QED
      BY <3>2, ClusterAssumption DEF RS!Live
  <2>3. RS!RestoreSet(ViewOf(b[1])) # {}
    BY <2>1, <2>2 DEF RS!StoppedClean
  <2>4. p \in RS!RestoreSet(ViewOf(b[1]))
    BY <2>1, <2>2, <2>3 DEF RS!RestoreSet, Recorded
  <2>5. RS!CleanClaim(b, p)
    BY <2>1, <2>4 DEF RS!StoppedClean
  <2> QED
    BY <2>1, <2>5 DEF RS!CleanClaim, RS!Holds
<1> QED
  BY <1>1, <1>2, <1>3, PTL DEF AutoSpec
=============================================================================
