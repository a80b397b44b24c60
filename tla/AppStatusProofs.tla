-------------------------- MODULE AppStatusProofs ---------------------------
(***************************************************************************)
(* Proofs about module AppStatus, for any number of apps, any reports,     *)
(* upgrades and restarts: no writer of a status undoes another's write.    *)
(***************************************************************************)
EXTENDS AppStatus, TLAPS

-----------------------------------------------------------------------------
(* What each writer may do to a status *)

\* A record with the fields of a status.
Shaped(s) ==
  s = [current |-> s.current, available |-> s.available,
       updateAvailable |-> s.updateAvailable, ready |-> s.ready]

\* The ManagedApp controller writes the Ready condition.
ReadyOnly(s, n) == n = [s EXCEPT !.ready = n.ready]

\* The updates controller publishes an update.
Published(s, n) == n = [s EXCEPT !.available = n.available, !.updateAvailable = "true"]

\* A completed upgrade records its version and clears the update.
Upgraded(s, n) ==
  n = [s EXCEPT !.current = n.current, !.available = NoVersion, !.updateAvailable = "false"]

\* What writer w makes of s.
Change(w, s, n) ==
  \/ w = "managedapp" /\ ReadyOnly(s, n)
  \/ w = "updates" /\ Published(s, n)
  \/ w = "upgrade" /\ Upgraded(s, n)

\* A change of a status is a status.
LEMMA ChangeShaped ==
  ASSUME NEW s, Shaped(s), NEW n, NEW w, Change(w, s, n)
  PROVE  Shaped(n)
  BY DEF Shaped, Change, ReadyOnly, Published, Upgraded

\* A status that does not change is changed in nothing.
LEMMA NoChange ==
  ASSUME NEW s, Shaped(s)
  PROVE  ReadyOnly(s, s)
  BY DEF Shaped, ReadyOnly

-----------------------------------------------------------------------------
(* The inductive invariant: a copy whose write the API server would accept   *)
(* differs from the status that is stored only by its writer's change.       *)

\* A record with the fields of a writer's copy.
Copy(h) == h = [app |-> h.app, stale |-> h.stale, new |-> h.new]

\* A writer's copy is of the status that is stored now, or is marked as stale.
Sound(w, h, s) ==
  h # Idle =>
    /\ Copy(h) /\ h.stale \in BOOLEAN
    /\ ~h.stale /\ h.app \in Apps => Change(w, s[h.app], h.new)

\* Every writer's copy, and the shape of what is stored.
CopiesSound ==
  /\ status = [a \in Apps |-> status[a]] /\ \A a \in Apps : Shaped(status[a])
  /\ hold = [w \in Writers |-> hold[w]]
  /\ \A w \in Writers : Sound(w, hold[w], status)

\* Taking a copy and changing it.
LEMMA HoldSound ==
  ASSUME CopiesSound, NEW w \in Writers, NEW a, NEW n, Hold(w, a, n), UNCHANGED status,
         a \in Apps => Change(w, status[a], n)
  PROVE  CopiesSound'
<1> DEFINE h == [app |-> a, stale |-> FALSE, new |-> n]
<1>1. Sound(w, h, status)
  BY DEF Sound, Copy
<1>2. hold' = [hold EXCEPT ![w] = h]
  BY DEF Hold
<1> HIDE DEF h
<1>3. \A x \in Writers : hold'[x] = IF x = w THEN h ELSE hold[x]
  BY <1>2 DEF CopiesSound
<1>4. hold' = [x \in Writers |-> hold'[x]]
  BY <1>2 DEF CopiesSound
<1>5. \A x \in Writers : Sound(x, hold'[x], status)
  BY <1>1, <1>3 DEF CopiesSound
<1> QED
  BY <1>4, <1>5 DEF CopiesSound

\* What is written is the writer's change to what is stored, and the copies
\* that others hold of it are marked.
LEMMA UpdateSound ==
  ASSUME CopiesSound, NEW w \in Writers, statusUpdate(w)
  PROVE  /\ CopiesSound'
         /\ \A a \in Apps : status'[a] = status[a] \/ Change(w, status[a], status'[a])
<1> DEFINE a == hold[w].app
           changed == \/ status'[a] # status[a]
                      \/ w = "upgrade" /\ ~hold[w].stale
<1>1. hold[w] # Idle /\ hold' = Released(w, a, changed)
  BY DEF statusUpdate
<1>2. status' = IF hold[w].stale THEN status ELSE [status EXCEPT ![a] = hold[w].new]
  BY DEF statusUpdate
<1>3. Sound(w, hold[w], status)
  BY DEF CopiesSound
<1>4. /\ status' = [b \in Apps |-> status'[b]]
      /\ \A b \in Apps : b # a => status'[b] = status[b]
      /\ a \in Apps => \/ status'[a] = status[a]
                       \/ Change(w, status[a], status'[a])
  BY <1>1, <1>2, <1>3 DEF CopiesSound, Sound
<1>5. \A b \in Apps : Shaped(status'[b])
  BY <1>4, ChangeShaped DEF CopiesSound
<1>6. ASSUME NEW x \in Writers PROVE Sound(x, hold'[x], status')
  <2>1. hold'[x] = IF x = w THEN Idle
                   ELSE IF hold[x] # Idle /\ hold[x].app = a /\ changed
                        THEN [hold[x] EXCEPT !.stale = TRUE] ELSE hold[x]
    BY <1>1 DEF Released
  <2>2. CASE x = w
    BY <2>1, <2>2 DEF Sound
  <2>3. CASE x # w /\ hold[x] # Idle /\ hold[x].app = a /\ changed
    <3>1. Copy(hold[x])
      BY <2>3 DEF CopiesSound, Sound
    <3>2. hold'[x] = [app |-> hold[x].app, stale |-> TRUE, new |-> hold[x].new]
      BY <2>1, <2>3, <3>1 DEF Copy
    <3> QED
      BY <3>2 DEF Sound, Copy
  <2>4. CASE x # w /\ ~(hold[x] # Idle /\ hold[x].app = a /\ changed)
    <3>1. hold'[x] = hold[x] /\ Sound(x, hold[x], status)
      BY <2>1, <2>4 DEF CopiesSound
    <3>2. hold[x] # Idle /\ hold[x].app \in Apps => status'[hold[x].app] = status[hold[x].app]
      BY <1>4, <2>4
    <3> QED
      BY <3>1, <3>2 DEF Sound
  <2> QED
    BY <2>2, <2>3, <2>4
<1>7. hold' = [x \in Writers |-> hold'[x]]
  BY <1>1 DEF Released
<1> QED
  BY <1>4, <1>5, <1>6, <1>7 DEF CopiesSound

\* Every step keeps the copies sound, and changes a stored status by one
\* writer's change at most.
LEMMA StepSound ==
  ASSUME CopiesSound, [Next]_vars
  PROVE  /\ CopiesSound'
         /\ \A a \in Apps :
              status'[a] = status[a] \/ \E w \in Writers : Change(w, status[a], status'[a])
<1>1. CASE UNCHANGED <<status, hold>>
  BY <1>1 DEF CopiesSound
<1>2. CASE updateManagedAppStatus
  <2>1. PICK t \in todo :
          /\ Hold("updates", t[1], [status[t[1]] EXCEPT !.available = t[2],
                                                        !.updateAvailable = "true"])
          /\ UNCHANGED status
    BY <1>2 DEF updateManagedAppStatus
  <2> DEFINE n == [status[t[1]] EXCEPT !.available = t[2], !.updateAvailable = "true"]
  <2>2. t[1] \in Apps => Change("updates", status[t[1]], n)
    BY DEF CopiesSound, Shaped, Change, Published
  <2>3. "updates" \in Writers
    BY DEF Writers
  <2> HIDE DEF n
  <2>4. CopiesSound'
    BY <2>1, <2>2, <2>3, HoldSound DEF n
  <2> QED
    BY <2>1, <2>4
<1>3. ASSUME NEW a \in Apps, Reconcile(a)
      PROVE  CopiesSound' /\ UNCHANGED status
  <2> DEFINE n == setReady(status[a], health[a])
  <2>1. Change("managedapp", status[a], n)
    BY DEF CopiesSound, Shaped, Change, ReadyOnly, setReady
  <2>2. "managedapp" \in Writers
    BY DEF Writers
  <2> HIDE DEF n
  <2> QED
    BY <1>3, <2>1, <2>2, HoldSound DEF Reconcile, n
<1>4. ASSUME NEW a \in Apps, NEW v \in Targets, updateManagedAppAfterUpgrade(a, v)
      PROVE  CopiesSound' /\ UNCHANGED status
  <2> DEFINE n == afterUpgrade(status[a], v)
  <2>1. Change("upgrade", status[a], n)
    BY DEF CopiesSound, Shaped, Change, Upgraded, afterUpgrade
  <2>2. "upgrade" \in Writers
    BY DEF Writers
  <2> HIDE DEF n
  <2> QED
    BY <1>4, <2>1, <2>2, HoldSound DEF updateManagedAppAfterUpgrade, n
<1>5. CASE Restart
  BY <1>5 DEF Restart, CopiesSound, Sound
<1> QED
  BY <1>1, <1>2, <1>3, <1>4, <1>5, UpdateSound
     DEF Next, ProcessRenovateOutput, Publish, HealthChange, vars

\* No writer undoes what another has written since it read the app, whatever
\* the order of their reads, writes, refusals and restarts: each write of a
\* status changes only its writer's fields (updateManagedAppStatus, Reconcile
\* of the ManagedApp controller, updateManagedAppAfterUpgrade).
THEOREM NothingIsLost == Spec => NoLostStatus
<1>1. Init => CopiesSound
  BY DEF Init, CopiesSound, Shaped, Sound
<1>2. CopiesSound /\ [Next]_vars => CopiesSound'
  BY StepSound
<1>3. ASSUME CopiesSound, [Next]_vars
      PROVE  \A a \in Apps :
               LET s == status[a]
                   n == status'[a]
               IN  ReadyOnly(s, n) \/ Published(s, n) \/ Upgraded(s, n)
  BY <1>3, StepSound, NoChange DEF CopiesSound, Change
<1>4. CopiesSound /\ [Next]_vars =>
        [\A a \in Apps :
           LET s == status[a]
               n == status'[a]
           IN  \/ n = [s EXCEPT !.ready = n.ready]
               \/ n = [s EXCEPT !.available = n.available, !.updateAvailable = "true"]
               \/ n = [s EXCEPT !.current = n.current, !.available = NoVersion,
                                !.updateAvailable = "false"]]_vars
  BY <1>3 DEF ReadyOnly, Published, Upgraded
<1> QED
  BY <1>1, <1>2, <1>4, PTL DEF Spec, NoLostStatus

-----------------------------------------------------------------------------
(* Types, and the agreement of the condition with the field.  What the loop  *)
(* over the updates of a report computes is by induction on their number,    *)
(* and is a hypothesis here; TLC checks it with MappingExact.                *)

\* An app that a report has updates for is given a version.
MappedVersions ==
  \A r \in Reports \cup {NoUpdates}, f \in PathToApp :
    LET mapped == MapUpdatesToManagedApps(extractUpdates(r), f)
    IN  DOMAIN mapped \subseteq Apps /\ \A a \in DOMAIN mapped : mapped[a] \in VersionInfo

\* TypeOK is not inductive without it: the report is one of Renovate's.
TypeInv ==
  /\ TypeOK /\ CopiesSound
  /\ report \in Reports \cup {NoUpdates}

\* Only a version is published.
VersionsPublished ==
  hold["updates"] # Idle => hold["updates"].new.available # NoVersion

\* The writers' changes keep the type.
LEMMA ChangeType ==
  ASSUME NEW s \in Status
  PROVE  /\ \A v \in VersionInfo :
              [s EXCEPT !.available = v, !.updateAvailable = "true"] \in Status
         /\ \A h : setReady(s, h) \in Status
         /\ \A v \in VersionInfo : afterUpgrade(s, v) \in Status
  BY DEF Status, Conditions, setReady, afterUpgrade

\* A copy of the right type.
LEMMA HoldType ==
  ASSUME TypeInv, NEW w \in Writers, NEW a \in Apps, NEW n \in Status, Hold(w, a, n)
  PROVE  \A x \in Writers : hold'[x] # Idle =>
           hold'[x].app \in Apps /\ hold'[x].stale \in BOOLEAN /\ hold'[x].new \in Status
<1> DEFINE h == [app |-> a, stale |-> FALSE, new |-> n]
<1>1. h.app \in Apps /\ h.stale \in BOOLEAN /\ h.new \in Status
  OBVIOUS
<1>2. hold' = [hold EXCEPT ![w] = h]
  BY DEF Hold
<1> HIDE DEF h
<1>3. \A x \in Writers : hold'[x] = IF x = w THEN h ELSE hold[x]
  BY <1>2 DEF TypeInv, CopiesSound
<1> QED
  BY <1>1, <1>3 DEF TypeInv, TypeOK

\* Status().Update writes a copy of the right type.
LEMMA UpdateType ==
  ASSUME TypeInv, NEW w \in Writers, statusUpdate(w)
  PROVE  TypeOK'
<1> DEFINE a == hold[w].app
           changed == \/ status'[a] # status[a]
                      \/ w = "upgrade" /\ ~hold[w].stale
<1>1. a \in Apps /\ hold[w].new \in Status /\ status \in [Apps -> Status]
  BY DEF statusUpdate, TypeInv, TypeOK
<1>2. status' \in [Apps -> Status]
  BY <1>1 DEF statusUpdate
<1>3. hold' = Released(w, a, changed)
  BY DEF statusUpdate
<1>4. ASSUME NEW x \in Writers, hold'[x] # Idle
      PROVE  hold'[x].app \in Apps /\ hold'[x].stale \in BOOLEAN /\ hold'[x].new \in Status
  <2>1. /\ hold[x] # Idle
        /\ hold'[x] = hold[x] \/ hold'[x] = [hold[x] EXCEPT !.stale = TRUE]
    BY <1>3, <1>4 DEF Released
  <2>2. /\ Copy(hold[x])
        /\ hold[x].app \in Apps /\ hold[x].stale \in BOOLEAN /\ hold[x].new \in Status
    BY <2>1 DEF TypeInv, TypeOK, CopiesSound, Sound
  <2> QED
    BY <2>1, <2>2 DEF Copy
<1> QED
  BY <1>2, <1>4 DEF statusUpdate, TypeInv, TypeOK

\* The updates controller works through versions.
LEMMA ProcessType ==
  ASSUME MappedVersions, TypeInv, ProcessRenovateOutput
  PROVE  TypeOK'
<1>1. PICK f \in PathToApp :
        LET mapped == MapUpdatesToManagedApps(extractUpdates(report), f)
        IN  todo' = {<<a, mapped[a]>> : a \in DOMAIN mapped}
  BY DEF ProcessRenovateOutput
<1> DEFINE mapped == MapUpdatesToManagedApps(extractUpdates(report), f)
<1>2. DOMAIN mapped \subseteq Apps /\ \A a \in DOMAIN mapped : mapped[a] \in VersionInfo
  BY DEF MappedVersions, TypeInv
<1>3. todo' = {<<a, mapped[a]>> : a \in DOMAIN mapped}
  BY <1>1
<1> HIDE DEF mapped
<1>4. \A t \in todo' : t[1] \in Apps /\ t[2] \in VersionInfo
  BY <1>2, <1>3
<1> QED
  BY <1>4 DEF ProcessRenovateOutput, TypeInv, TypeOK

\* Every step keeps the types.
LEMMA StepType ==
  ASSUME MappedVersions, TypeInv, [Next]_vars
  PROVE  TypeInv'
<1> USE AppStatusAssumption
<1>1. CopiesSound' /\ report' \in Reports \cup {NoUpdates}
  <2>1. CopiesSound'
    BY StepSound DEF TypeInv
  <2>2. UNCHANGED report \/ report' \in Reports
    BY DEF Next, vars, ProcessRenovateOutput, updateManagedAppStatus, Reconcile,
           updateManagedAppAfterUpgrade, statusUpdate, Publish, Restart, HealthChange
  <2> QED
    BY <2>1, <2>2 DEF TypeInv
<1>2. \A a \in Apps : status[a] \in Status
  BY DEF TypeInv, TypeOK
<1>3. CASE UNCHANGED vars
  BY <1>1, <1>3 DEF vars, TypeInv, TypeOK
<1>4. CASE updateManagedAppStatus
  <2>1. PICK t \in todo :
          /\ Hold("updates", t[1], [status[t[1]] EXCEPT !.available = t[2],
                                                        !.updateAvailable = "true"])
          /\ todo' = todo \ {t}
          /\ UNCHANGED <<report, queued, reports, status, health, upgrades, restarts>>
    BY <1>4 DEF updateManagedAppStatus
  <2> DEFINE n == [status[t[1]] EXCEPT !.available = t[2], !.updateAvailable = "true"]
  <2>2. t[1] \in Apps /\ n \in Status /\ "updates" \in Writers
    BY <1>2, ChangeType DEF TypeInv, TypeOK, Writers
  <2>3. Hold("updates", t[1], n)
    BY <2>1
  <2> HIDE DEF n
  <2> QED
    BY <2>1, <2>2, <2>3, <1>1, HoldType DEF TypeInv, TypeOK
<1>5. ASSUME NEW a \in Apps, Reconcile(a) PROVE TypeInv'
  <2>1. setReady(status[a], health[a]) \in Status /\ "managedapp" \in Writers
    BY <1>2, ChangeType DEF Writers
  <2> QED
    BY <1>1, <1>5, <2>1, HoldType DEF Reconcile, TypeInv, TypeOK
<1>6. ASSUME NEW a \in Apps, NEW v \in Targets, updateManagedAppAfterUpgrade(a, v)
      PROVE  TypeInv'
  <2>1. afterUpgrade(status[a], v) \in Status /\ "upgrade" \in Writers
    BY <1>2, ChangeType DEF Writers
  <2>2. upgrades' \in 0..MaxUpgrades
    BY <1>6 DEF updateManagedAppAfterUpgrade, TypeInv, TypeOK
  <2> QED
    BY <1>1, <1>6, <2>1, <2>2, HoldType DEF updateManagedAppAfterUpgrade, TypeInv, TypeOK
<1>7. ASSUME NEW r \in Reports, Publish(r) PROVE TypeInv'
  BY <1>1, <1>7 DEF Publish, TypeInv, TypeOK
<1>8. CASE Restart
  BY <1>1, <1>8 DEF Restart, TypeInv, TypeOK
<1>9. ASSUME NEW a \in Apps, HealthChange(a) PROVE TypeInv'
  BY <1>1, <1>9 DEF HealthChange, TypeInv, TypeOK
<1> QED
  BY <1>1, <1>3, <1>4, <1>5, <1>6, <1>7, <1>8, <1>9, UpdateType, ProcessType DEF Next, TypeInv

\* The type invariant holds in every behaviour.
LEMMA TypesKept ==
  ASSUME MappedVersions
  PROVE  Spec => []TypeInv
<1>1. Init => TypeInv
  <2>1. NoUpdates \in Report
    BY DEF NoUpdates, Report
  <2>2. Init => CopiesSound
    BY DEF Init, CopiesSound, Shaped, Sound
  <2> QED
    BY <2>1, <2>2, AppStatusAssumption DEF Init, TypeInv, TypeOK, Status, Conditions
<1>2. TypeInv /\ [Next]_vars => TypeInv'
  BY StepType
<1> QED
  BY <1>1, <1>2, PTL DEF Spec

\* Every variable keeps its type; in particular a status field holds a version
\* or nil, and a condition one of its three values, whichever writer came last.
THEOREM TypeCorrect ==
  ASSUME MappedVersions
  PROVE  Spec => []TypeOK
<1>1. TypeInv => TypeOK
  BY DEF TypeInv
<1> QED
  BY <1>1, TypesKept, PTL

\* Only versions are held to be published.
LEMMA StepPublished ==
  ASSUME TypeInv, VersionsPublished, [Next]_vars
  PROVE  VersionsPublished'
<1>0. "updates" \in Writers
  BY DEF Writers
<1>1. CASE hold'["updates"] = hold["updates"] \/ hold'["updates"] = Idle
  BY <1>1 DEF VersionsPublished
<1>2. CASE updateManagedAppStatus
  <2>1. PICK t \in todo :
          Hold("updates", t[1], [status[t[1]] EXCEPT !.available = t[2],
                                                     !.updateAvailable = "true"])
    BY <1>2 DEF updateManagedAppStatus
  <2> DEFINE n == [status[t[1]] EXCEPT !.available = t[2], !.updateAvailable = "true"]
  <2>2. status[t[1]] \in Status /\ t[2] # NoVersion
    BY AppStatusAssumption DEF TypeInv, TypeOK
  <2>3. n.available = t[2]
    BY <2>2 DEF Status
  <2>4. hold'["updates"] = [app |-> t[1], stale |-> FALSE, new |-> n]
    BY <1>0, <2>1 DEF Hold, TypeInv, CopiesSound
  <2> HIDE DEF n
  <2> QED
    BY <2>2, <2>3, <2>4 DEF VersionsPublished
<1>3. ASSUME NEW w \in Writers, statusUpdate(w) PROVE VersionsPublished'
  <2>1. \/ hold'["updates"] = hold["updates"] \/ hold'["updates"] = Idle
        \/ hold["updates"] # Idle /\ hold'["updates"] = [hold["updates"] EXCEPT !.stale = TRUE]
    BY <1>0, <1>3 DEF statusUpdate, Released
  <2>2. hold["updates"] # Idle => Copy(hold["updates"])
    BY <1>0 DEF TypeInv, CopiesSound, Sound
  <2> QED
    BY <2>1, <2>2 DEF VersionsPublished, Copy
<1>4. ASSUME NEW w \in {"managedapp", "upgrade"}, NEW a, NEW n, Hold(w, a, n)
      PROVE  hold'["updates"] = hold["updates"]
  BY <1>0, <1>4 DEF Hold, TypeInv, CopiesSound
<1> QED
  BY <1>0, <1>1, <1>2, <1>3, <1>4
     DEF Next, vars, ProcessRenovateOutput, Reconcile, updateManagedAppAfterUpgrade, Publish,
         Restart, HealthChange

\* UpdateAvailable is true just when an available version is recorded, whichever
\* writers came in between and however often the manager restarts
\* (updateManagedAppStatus, updateManagedAppAfterUpgrade).
THEOREM ConditionAgrees ==
  ASSUME MappedVersions
  PROVE  Spec => []FlagAgrees
<1>1. Init => VersionsPublished /\ FlagAgrees
  BY DEF Init, VersionsPublished, FlagAgrees, Writers
<1>2. ASSUME TypeInv, VersionsPublished, FlagAgrees, [Next]_vars
      PROVE  VersionsPublished' /\ FlagAgrees'
  <2>1. VersionsPublished'
    BY <1>2, StepPublished
  <2>2. ASSUME NEW a \in Apps
        PROVE  status'[a].available # NoVersion <=> status'[a].updateAvailable = "true"
    <3>1. Shaped(status[a])
          /\ (status[a].available # NoVersion <=> status[a].updateAvailable = "true")
      BY <1>2 DEF TypeInv, CopiesSound, FlagAgrees
    <3>2. CASE status'[a] = status[a]
      BY <3>1, <3>2
    <3>3. ASSUME NEW w \in Writers, statusUpdate(w), status'[a] # status[a]
          PROVE  status'[a].available # NoVersion <=> status'[a].updateAvailable = "true"
      <4>1. Change(w, status[a], status'[a])
        BY <1>2, <3>3, UpdateSound DEF TypeInv
      <4>2. hold[w] # Idle /\ status'[a] = hold[w].new
        BY <1>2, <3>3 DEF statusUpdate, TypeInv, TypeOK
      <4>3. w = "updates" => status'[a].available # NoVersion
        BY <1>2, <4>2 DEF VersionsPublished
      <4> QED
        BY <3>1, <4>1, <4>3 DEF Change, Shaped, ReadyOnly, Published, Upgraded
    <3> QED
      BY <1>2, <3>2, <3>3
         DEF Next, vars, ProcessRenovateOutput, updateManagedAppStatus, Reconcile,
             updateManagedAppAfterUpgrade, Publish, Restart, HealthChange
  <2> QED
    BY <2>1, <2>2 DEF FlagAgrees
<1> QED
  BY <1>1, <1>2, TypesKept, PTL DEF Spec
=============================================================================
