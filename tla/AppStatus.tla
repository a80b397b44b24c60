----------------------------- MODULE AppStatus ------------------------------
(***************************************************************************)
(* The status of ManagedApps and its three writers: the updates controller *)
(* with Renovate's parser, mapper and status updater (internal/renovate),  *)
(* the ManagedApp controller (managedapp_controller.go) and the completion *)
(* of an upgrade (updateManagedAppAfterUpgrade).  Each reads an app,       *)
(* changes its copy and writes the whole status; the API server refuses    *)
(* the write of a copy that is not current.                                *)
(***************************************************************************)
EXTENDS Integers, SequencesExt

CONSTANTS
  Apps,         \* the ManagedApps
  GitPath,      \* spec.gitPath of each
  NoPath,       \* an empty gitPath
  Files,        \* the files that reports and apps name
  Deps,         \* names of dependencies
  Tags,         \* versions of a chart or of an image
  NoTag,        \* the empty string
  Reports,      \* what Renovate may leave in the ConfigMap
  Targets,      \* versions that upgrades may have been made to
  NoVersion,    \* a nil *VersionInfo
  Idle,         \* a writer that holds no copy
  MaxReports,   \* bound: reports Renovate makes
  MaxUpgrades,  \* bound: upgrades that complete
  MaxRestarts   \* bound: restarts of the manager

Datasources == {"helm", "docker", "other"}

\* A dependency in a package file, with the updates found for it, best first.
Dependency == [file : Files, dep : Deps, datasource : Datasources, updates : Seq(Tags)]

Report == [flux : Seq(Dependency), helmValues : Seq(Dependency), regex : Seq(Dependency)]

VersionInfo == [chart : Tags \cup {NoTag}, images : Seq([name : Deps, tag : Tags])]

ASSUME AppStatusAssumption ==
  /\ GitPath \in [Apps -> Files \cup {NoPath}] /\ NoPath \notin Files
  /\ NoTag \notin Tags /\ Reports \subseteq Report
  /\ Targets \subseteq VersionInfo /\ NoVersion \notin VersionInfo
  /\ MaxReports \in Nat /\ MaxUpgrades \in Nat /\ MaxRestarts \in Nat

VARIABLES
  report,     \* the report in the ConfigMap
  queued,     \* the ConfigMap's key is in the work queue
  reports,    \* reports made so far
  status,     \* the status of each app in the API server
  health,     \* what the health check says of each app; an error is "unhealthy"
  todo,       \* what the updates controller has still to write: <<app, version>>
  hold,       \* each writer's copy, and whether its resourceVersion is out of date
  upgrades,   \* upgrades completed so far
  restarts    \* restarts so far

vars == <<report, queued, reports, status, health, todo, hold, upgrades, restarts>>

Writers == {"updates", "managedapp", "upgrade"}

Conditions == {"absent", "true", "false"}

Status == [current         : VersionInfo \cup {NoVersion},
           available       : VersionInfo \cup {NoVersion},
           updateAvailable : Conditions,
           ready           : Conditions]

TypeOK ==
  /\ report \in Report /\ queued \in BOOLEAN
  /\ reports \in 0..MaxReports /\ upgrades \in 0..MaxUpgrades /\ restarts \in 0..MaxRestarts
  /\ status \in [Apps -> Status] /\ health \in [Apps -> {"healthy", "unhealthy"}]
  /\ \A t \in todo : t[1] \in Apps /\ t[2] \in VersionInfo
  /\ \A w \in Writers : hold[w] # Idle =>
       hold[w].app \in Apps /\ hold[w].stale \in BOOLEAN /\ hold[w].new \in Status

NoUpdates == [flux |-> <<>>, helmValues |-> <<>>, regex |-> <<>>]

Init ==
  /\ report = NoUpdates /\ queued = TRUE /\ reports = 0
  /\ status = [a \in Apps |-> [current |-> NoVersion, available |-> NoVersion,
                               updateAvailable |-> "absent", ready |-> "absent"]]
  /\ health = [a \in Apps |-> "healthy"]
  /\ todo = {} /\ hold = [w \in Writers |-> Idle] /\ upgrades = 0 /\ restarts = 0

-----------------------------------------------------------------------------
(* Renovate's parser and mapper *)

\* The first update of each dependency that has any; Flux charts first, then
\* image tags in Helm values, then those that regular expressions find.
extractUpdates(r) ==
  LET found == SelectSeq(r.flux \o r.helmValues \o r.regex,
                         LAMBDA d : Len(d.updates) > 0)
  IN  [i \in 1..Len(found) |->
         [packageFile |-> found[i].file, dependencyName |-> found[i].dep,
          datasource |-> found[i].datasource, newVersion |-> found[i].updates[1]]]

\* Which app a file stands for.  Of several with one gitPath the last in the list
\* wins, and the cache lists them in any order.
PathToApp ==
  {f \in [{GitPath[a] : a \in Apps} \ {NoPath} -> Apps] :
     \A p \in DOMAIN f : GitPath[f[p]] = p}

EmptyInfo == [chart |-> NoTag, images |-> <<>>]

\* Mutant: an image replaces the images before it.
keepLastImage(v, u) ==
  CASE u.datasource = "helm"   -> [v EXCEPT !.chart = u.newVersion]
    [] u.datasource = "docker" -> [v EXCEPT !.images = <<[name |-> u.dependencyName,
                                                          tag  |-> u.newVersion]>>]
    [] OTHER                   -> v

\* An update that is neither a chart nor an image leaves what there is.
applyUpdate(v, u) ==
  CASE u.datasource = "helm"   -> [v EXCEPT !.chart = u.newVersion]
    [] u.datasource = "docker" -> [v EXCEPT !.images = Append(@, [name |-> u.dependencyName,
                                                                  tag  |-> u.newVersion])]
    [] OTHER                   -> v

\* The loop over the updates: the versions of the apps it comes across.
MapUpdatesToManagedApps(updates, pathToApp) ==
  LET Step(m, u) ==
        IF u.packageFile \notin DOMAIN pathToApp THEN m
        ELSE LET a == pathToApp[u.packageFile]
                 v == IF a \in DOMAIN m THEN m[a] ELSE EmptyInfo
             IN  [b \in DOMAIN m \cup {a} |-> IF b = a THEN applyUpdate(v, u) ELSE m[b]]
  IN  FoldLeft(Step, <<>>, updates)

-----------------------------------------------------------------------------
(* The writers *)

\* Get: writer w takes a copy of a's status and changes it to s.
Hold(w, a, s) ==
  /\ hold[w] = Idle
  /\ hold' = [hold EXCEPT ![w] = [app |-> a, stale |-> FALSE, new |-> s]]

\* The copies after writer w is done; a write that changes app a makes the others'
\* copies of it out of date.
Released(w, a, changed) ==
  [x \in Writers |->
     IF x = w THEN Idle
     ELSE IF hold[x] # Idle /\ hold[x].app = a /\ changed
          THEN [hold[x] EXCEPT !.stale = TRUE] ELSE hold[x]]

\* Mutant: the copy is written over whatever is stored.
statusUpdateForced(w) ==
  /\ hold[w] # Idle
  /\ status' = [status EXCEPT ![hold[w].app] = hold[w].new]
  /\ hold' = [hold EXCEPT ![w] = Idle]
  /\ UNCHANGED <<report, queued, reports, health, todo, upgrades, restarts>>

\* Status().Update.  No writer of the three does more about a refusal than log
\* it or, in the ManagedApp controller, return it and be called again.  That of
\* an upgrade always changes the object: it stamps lastUpgrade.
statusUpdate(w) ==
  /\ hold[w] # Idle
  /\ LET a == hold[w].app
     IN  /\ status' = IF hold[w].stale THEN status
                      ELSE [status EXCEPT ![a] = hold[w].new]
         /\ hold' = Released(w, a, \/ status'[a] # status[a]
                                   \/ w = "upgrade" /\ ~hold[w].stale)
  /\ UNCHANGED <<report, queued, reports, health, todo, upgrades, restarts>>

\* The updates controller reads and maps the report.
ProcessRenovateOutput ==
  /\ queued /\ todo = {} /\ hold["updates"] = Idle
  /\ \E f \in PathToApp :
       LET mapped == MapUpdatesToManagedApps(extractUpdates(report), f)
       IN  todo' = {<<a, mapped[a]>> : a \in DOMAIN mapped}
  /\ queued' = FALSE
  /\ UNCHANGED <<report, reports, status, health, hold, upgrades, restarts>>

\* It goes through the apps in any order, and reads each before it writes it.
updateManagedAppStatus ==
  \E t \in todo :
    /\ Hold("updates", t[1], [status[t[1]] EXCEPT !.available = t[2],
                                                  !.updateAvailable = "true"])
    /\ todo' = todo \ {t}
    /\ UNCHANGED <<report, queued, reports, status, health, upgrades, restarts>>

\* Mutant: the result of the check is taken for the condition's status.
setReadyToResult(s, h) == [s EXCEPT !.ready = h]

\* Mutant: a Ready condition that is set is kept.
setReadyOnce(s, h) ==
  IF s.ready # "absent" THEN s
  ELSE [s EXCEPT !.ready = IF h = "healthy" THEN "true" ELSE "false"]

setReady(s, h) == [s EXCEPT !.ready = IF h = "healthy" THEN "true" ELSE "false"]

\* The ManagedApp controller, for each app at least every HealthCheckInterval.
Reconcile(a) ==
  /\ Hold("managedapp", a, setReady(status[a], health[a]))
  /\ UNCHANGED <<report, queued, reports, status, health, todo, upgrades, restarts>>

\* Mutant: the condition is left as it is.
afterUpgradeKeepingCondition(s, v) == [s EXCEPT !.current = v, !.available = NoVersion]

afterUpgrade(s, v) ==
  [s EXCEPT !.current = v, !.available = NoVersion, !.updateAvailable = "false"]

\* An upgrade to what was available once, or to a version that was asked for,
\* completes.
updateManagedAppAfterUpgrade(a, v) ==
  /\ upgrades < MaxUpgrades /\ upgrades' = upgrades + 1
  /\ Hold("upgrade", a, afterUpgrade(status[a], v))
  /\ UNCHANGED <<report, queued, reports, status, health, todo, restarts>>

-----------------------------------------------------------------------------
(* The other actors *)

\* Renovate's job replaces the ConfigMap, which queues it.
Publish(r) ==
  /\ reports < MaxReports /\ reports' = reports + 1
  /\ report' = r /\ queued' = TRUE
  /\ UNCHANGED <<status, health, todo, hold, upgrades, restarts>>

\* The manager restarts: copies are lost and every object is queued again.
Restart ==
  /\ restarts < MaxRestarts /\ restarts' = restarts + 1
  /\ hold' = [w \in Writers |-> Idle] /\ todo' = {} /\ queued' = TRUE
  /\ UNCHANGED <<report, reports, status, health, upgrades>>

HealthChange(a) ==
  /\ health' = [health EXCEPT ![a] = IF @ = "healthy" THEN "unhealthy" ELSE "healthy"]
  /\ UNCHANGED <<report, queued, reports, status, todo, hold, upgrades, restarts>>

Next ==
  \/ ProcessRenovateOutput
  \/ updateManagedAppStatus
  \/ \E a \in Apps : Reconcile(a)
  \/ \E a \in Apps, v \in Targets : updateManagedAppAfterUpgrade(a, v)
  \/ \E w \in Writers : statusUpdate(w)
  \/ \E r \in Reports : Publish(r)
  \/ Restart
  \/ \E a \in Apps : HealthChange(a)

Spec == Init /\ [][Next]_vars

\* The ManagedApp controller comes back to every app, by its interval or by the
\* backoff after an error, and a write that was begun is tried.
FairSpec ==
  /\ Spec
  /\ \A a \in Apps : SF_vars(Reconcile(a))
  /\ \A w \in Writers : WF_vars(statusUpdate(w))

-----------------------------------------------------------------------------
(* Properties *)

\* The mapping, said without the loop: an app that owns a file with updates gets
\* the chart of the last chart update and all the images, in the report's order;
\* an app of no such file gets nothing (extractUpdates, MapUpdatesToManagedApps).
MappingExact ==
  \A f \in PathToApp :
    LET updates == extractUpdates(report)
        mapped  == MapUpdatesToManagedApps(updates, f)
        Of(a)     == SelectSeq(updates, LAMBDA u : u.packageFile = GitPath[a])
        Charts(a) == SelectSeq(Of(a), LAMBDA u : u.datasource = "helm")
        Images(a) == SelectSeq(Of(a), LAMBDA u : u.datasource = "docker")
    IN  /\ DOMAIN mapped = {a \in Apps : Of(a) # <<>> /\ f[GitPath[a]] = a}
        /\ \A a \in DOMAIN mapped :
             /\ mapped[a].chart = IF Charts(a) = <<>> THEN NoTag
                                  ELSE Charts(a)[Len(Charts(a))].newVersion
             /\ Len(mapped[a].images) = Len(Images(a))
             /\ \A i \in 1..Len(Images(a)) :
                  mapped[a].images[i] = [name |-> Images(a)[i].dependencyName,
                                         tag  |-> Images(a)[i].newVersion]

\* What the condition says agrees with the field, whichever writers came in
\* between (updateManagedAppStatus, updateManagedAppAfterUpgrade).
FlagAgrees ==
  \A a \in Apps : status[a].available # NoVersion <=> status[a].updateAvailable = "true"

\* No writer undoes what another has written since it read the app: the Ready
\* condition changes alone, an update is published without touching the rest, and
\* only a completed upgrade changes the current version, with the update cleared.
NoLostStatus ==
  [][\A a \in Apps :
       LET s == status[a]
           n == status'[a]
       IN  \/ n = [s EXCEPT !.ready = n.ready]
           \/ n = [s EXCEPT !.available = n.available, !.updateAvailable = "true"]
           \/ n = [s EXCEPT !.current = n.current, !.available = NoVersion,
                            !.updateAvailable = "false"]]_vars

\* When the health of an app settles, its Ready condition settles on it, in spite
\* of refused writes and of copies made before (Reconcile of the ManagedApp
\* controller).
ReadySettles ==
  \A a \in Apps :
    /\ <>[](health[a] = "healthy") => <>[](status[a].ready = "true")
    /\ <>[](health[a] # "healthy") => <>[](status[a].ready = "false")
=============================================================================
