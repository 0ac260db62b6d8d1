------------------------------ MODULE Resources ------------------------------
(***************************************************************************)
(* How a change of a configuration or a secret reaches the applications    *)
(* that mount it.  An application row records the version of everything it *)
(* mounts, two index tables record who mounts what, and an update of a     *)
(* resource rewrites the applications the index names and deploys them     *)
(* again.  Certificates and image registries are stored as secrets.  As in *)
(* Deployment, one action is one statement that commits on its own; here a *)
(* deployment (UpdateNodeAppVersion, refined by Deployment) is one step.   *)
(***************************************************************************)
EXTENDS Integers, FiniteSets

CONSTANTS
  Res,            \* names of configurations and secrets
  Kind,           \* Res -> {"config", "secret", "registry", "certificate"}
  Data,           \* contents a user may write
  Apps, Handlers, None,
  Tails,          \* bound: values of the random tail of a version
  SpacedWrites,   \* TRUE: no two writes fall into the same second
  NamespaceLock, Requests, Failures, MaxRequests

Operations == {"Create", "Put", "PutQuiet", "Delete",
               "CreateApp", "UpdateApp", "DeleteApp"}

ASSUME ConstantsAssumption ==
  /\ Kind \in [Res -> {"config", "secret", "registry", "certificate"}]
  /\ None \notin Apps \cup Handlers \cup Res
  /\ Tails \in Nat \ {0} /\ SpacedWrites \in BOOLEAN /\ MaxRequests \in Nat
  /\ NamespaceLock \in BOOLEAN /\ Failures \in BOOLEAN
  /\ Requests \subseteq Operations

VARIABLES
  res, data, rver,        \* resource rows: names, content, version
  apps, mver, aver,       \* application rows: names, version of each mount
                          \* (0: not mounted), version
  rindex,                 \* baetyl_index_application_config and _secret
  deployed,               \* version of the application in the desires (0: none)
  now,                    \* wall clock, in seconds
  lock, pc, loc, started,
  broken                  \* history: has a request broken off?

resVars == <<res, data, rver>>
appVars == <<apps, mver, aver>>
vars == <<resVars, appVars, rindex, deployed, now, lock, pc, loc, started, broken>>

NoMounts == [r \in Res |-> 0]

Mounts(m) == {r \in Res : m[r] # 0}

\* op, r, d: operation, resource and content sent; v: resource version in
\* memory; names: applications still to visit; a, m, av: the application at
\* hand, its mounts and its version; rows: index rows still to insert.
Blank == [op |-> "none", r |-> None, d |-> None, v |-> 0, names |-> {},
          a |-> None, m |-> NoMounts, av |-> 0, rows |-> {}]

Init ==
  /\ res = {} /\ data = [r \in Res |-> None] /\ rver = NoMounts
  /\ apps = {} /\ mver = [a \in Apps |-> NoMounts] /\ aver = [a \in Apps |-> 0]
  /\ rindex = {} /\ deployed = [a \in Apps |-> 0] /\ now = 1
  /\ lock = None /\ started = 0 /\ broken = FALSE
  /\ pc = [h \in Handlers |-> "idle"] /\ loc = [h \in Handlers |-> Blank]

\* GenResourceVersion: the second, then random characters, compared as text.
\* Time may have moved on since the last write.
DrawVersion(r, v) ==
  \E t \in IF SpacedWrites THEN {now + 1} ELSE {now, now + 1}, k \in 0 .. Tails - 1 :
    v = t * Tails + k /\ v # rver[r] /\ now' = t

NewVersions == now * Tails .. (now + 2) * Tails

\* Mutants: routes registered without WrapperWithLock.
Locked_NotConfig(l) == l.op \in {"CreateApp", "UpdateApp"}
Locked_NotApps(l) == l.op = "Put"

\* WrapperWithLock on PUT of configurations and certificates and on POST and
\* PUT of applications only.
Locked(l) ==
  \/ l.op = "Put" /\ Kind[l.r] = "config"
  \/ l.op = "PutQuiet" /\ Kind[l.r] = "certificate"
  \/ l.op \in {"CreateApp", "UpdateApp"}

Begin(h, first, l) ==
  /\ pc[h] = "idle" /\ started < MaxRequests /\ l.op \in Requests
  /\ NamespaceLock /\ Locked(l) => lock = None
  /\ lock' = IF NamespaceLock /\ Locked(l) THEN h ELSE lock
  /\ started' = started + 1
  /\ pc' = [pc EXCEPT ![h] = first] /\ loc' = [loc EXCEPT ![h] = l]

Goto(h, next, l) ==
  /\ pc' = [pc EXCEPT ![h] = next] /\ loc' = [loc EXCEPT ![h] = l]
  /\ UNCHANGED <<lock, started>>

Finish(h) ==
  /\ pc' = [pc EXCEPT ![h] = "idle"] /\ loc' = [loc EXCEPT ![h] = Blank]
  /\ lock' = IF lock = h THEN None ELSE lock
  /\ UNCHANGED started

-----------------------------------------------------------------------------
(* Configurations, secrets, registries, certificates.                      *)

\* POST: one INSERT.
CreateResource(h) ==
  \E r \in Res \ res, d \in Data, v \in NewVersions :
    /\ DrawVersion(r, v)
    /\ pc[h] = "idle" /\ started < MaxRequests /\ "Create" \in Requests
    /\ res' = res \cup {r} /\ data' = [data EXCEPT ![r] = d]
    /\ rver' = [rver EXCEPT ![r] = v] /\ started' = started + 1
    /\ UNCHANGED <<appVars, rindex, deployed, lock, pc, loc>>

\* PUT of a configuration or secret, refresh of a registry's password: equal
\* content of the first two returns at once, otherwise the facade updates.
Put(h) ==
  \E r \in res, d \in Data :
    /\ Kind[r] # "certificate" /\ (Kind[r] # "registry" => data[r] # d)
    /\ Begin(h, "update", [Blank EXCEPT !.op = "Put", !.r = r, !.d = d])
    /\ UNCHANGED <<resVars, appVars, rindex, deployed, now>>

\* PUT of a registry or certificate: Secret.Update and nothing else.
PutQuiet(h) ==
  \E r \in res, d \in Data :
    /\ Kind[r] \in {"registry", "certificate"} /\ data[r] # d
    /\ Begin(h, "update", [Blank EXCEPT !.op = "PutQuiet", !.r = r, !.d = d])
    /\ UNCHANGED <<resVars, appVars, rindex, deployed, now>>

\* The row r gets content d and version v, if it is there.
Rewrite(r, d, v) ==
  /\ data' = IF r \in res THEN [data EXCEPT ![r] = d] ELSE data
  /\ rver' = IF r \in res THEN [rver EXCEPT ![r] = v] ELSE rver
  /\ UNCHANGED res

\* UpdateSecret of the database, one Transact: not found is an error, equal
\* content gets a new version like any other.
UpdateSecret(h) ==
  LET l == loc[h] IN
  /\ pc[h] = "update" /\ Kind[l.r] # "config"
  /\ \/ l.r \notin res /\ Finish(h) /\ UNCHANGED <<resVars, now>>
     \/ /\ l.r \in res
        /\ \E v \in NewVersions :
             /\ DrawVersion(l.r, v) /\ Rewrite(l.r, l.d, v)
             /\ IF l.op = "PutQuiet" THEN Finish(h)
                ELSE Goto(h, "listapps", [l EXCEPT !.v = v])
  /\ UNCHANGED <<appVars, rindex, deployed>>

\* UpdateConfig of the database: read the row; not found is an error, equal
\* content keeps its version ...
ReadConfig(h) ==
  LET l == loc[h] IN
  /\ pc[h] = "update" /\ Kind[l.r] = "config"
  /\ IF l.r \notin res THEN Finish(h)
     ELSE IF data[l.r] = l.d THEN Goto(h, "listapps", [l EXCEPT !.v = rver[l.r]])
     ELSE Goto(h, "rewrite", l)
  /\ UNCHANGED <<resVars, appVars, rindex, deployed, now>>

\* ... and UPDATE it, not noticing that it may have gone.
WriteConfig(h) ==
  LET l == loc[h] IN
  /\ pc[h] = "rewrite"
  /\ \E v \in NewVersions :
       /\ DrawVersion(l.r, v) /\ Rewrite(l.r, l.d, v)
       /\ Goto(h, "listapps", [l EXCEPT !.v = v])
  /\ UNCHANGED <<appVars, rindex, deployed>>

\* ListAppIndexByConfig, ListAppIndexBySecret.
ListApps(h) ==
  LET l == loc[h] IN
  /\ pc[h] = "listapps"
  /\ Goto(h, "nextapp", [l EXCEPT !.names = {a \in Apps : <<a, l.r>> \in rindex}])
  /\ UNCHANGED <<resVars, appVars, rindex, deployed, now>>

\* Mutant: the comparison of the versions is the wrong way round.
NeedUpdate_Reversed(l, a) == mver[a][l.r] # 0 /\ l.v < mver[a][l.r]

\* needUpdateApp, needUpdateAppSecret: the row mounts an older version.
NeedUpdate(l, a) == mver[a][l.r] # 0 /\ l.v > mver[a][l.r]

\* updateNodeAndApp, updateAppSecret: the next application of the list.
NextApp(h) ==
  LET l == loc[h] IN
  /\ pc[h] = "nextapp"
  /\ \/ l.names = {} /\ Finish(h)
     \/ \E a \in l.names :
          IF a \in apps /\ NeedUpdate(l, a)
          THEN Goto(h, "versions", [l EXCEPT !.names = @ \ {a}, !.a = a,
                                             !.m = [mver[a] EXCEPT ![l.r] = l.v]])
          ELSE Goto(h, "nextapp", [l EXCEPT !.names = @ \ {a}])
  /\ UNCHANGED <<resVars, appVars, rindex, deployed, now>>

\* Mutant: nobody asks who mounts it.
Delete_Unchecked(h) ==
  \E r \in res :
    /\ Begin(h, "delete", [Blank EXCEPT !.op = "Delete", !.r = r])
    /\ UNCHANGED <<resVars, appVars, rindex, deployed, now>>

\* DeleteConfig, DeleteSecretResource: refuse while the index names a user...
Delete(h) ==
  \E r \in res :
    /\ \A a \in Apps : <<a, r>> \notin rindex
    /\ Begin(h, "delete", [Blank EXCEPT !.op = "Delete", !.r = r])
    /\ UNCHANGED <<resVars, appVars, rindex, deployed, now>>

\* ... then delete the row.
DeleteRow(h) ==
  /\ pc[h] = "delete"
  /\ res' = res \ {loc[h].r} /\ data' = [data EXCEPT ![loc[h].r] = None]
  /\ Finish(h)
  /\ UNCHANGED <<rver, appVars, rindex, deployed, now>>

-----------------------------------------------------------------------------
(* AppServiceImpl.Create, Update, Delete.                                  *)

CreateApp(h) ==
  \E a \in Apps \ apps, ms \in SUBSET Res :
    /\ Begin(h, "versions", [Blank EXCEPT !.op = "CreateApp", !.a = a,
               !.m = [r \in Res |-> IF r \in ms THEN 1 ELSE 0]])
    /\ UNCHANGED <<resVars, appVars, rindex, deployed, now>>

UpdateApp(h) ==
  \E a \in apps, ms \in SUBSET Res :
    /\ Begin(h, "versions", [Blank EXCEPT !.op = "UpdateApp", !.a = a,
               !.m = [r \in Res |-> IF r \in ms THEN 1 ELSE 0]])
    /\ UNCHANGED <<resVars, appVars, rindex, deployed, now>>

\* getConfigsAndSecrets: every mount gets the latest version; a missing
\* resource is an error.
Versions(h) ==
  LET l == loc[h]
      ms == Mounts(l.m) IN
  /\ pc[h] = "versions"
  /\ IF ms \subseteq res
     THEN Goto(h, IF l.op = "CreateApp" THEN "idxdel" ELSE "write",
               [l EXCEPT !.m = [r \in Res |-> IF r \in ms THEN rver[r] ELSE 0],
                         !.rows = {<<l.a, r>> : r \in ms}])
     ELSE Finish(h)
  /\ UNCHANGED <<resVars, appVars, rindex, deployed, now>>

\* UpdateApplication of the database, one Transact: an equal row keeps its
\* version, a deleted one is an error.
WriteApp(h) ==
  LET l == loc[h]
      v == IF mver[l.a] = l.m THEN aver[l.a] ELSE aver[l.a] + 1 IN
  /\ pc[h] = "write"
  /\ IF l.a \in apps
     THEN /\ mver' = [mver EXCEPT ![l.a] = l.m] /\ aver' = [aver EXCEPT ![l.a] = v]
          /\ Goto(h, "idxdel", [l EXCEPT !.av = v])
     ELSE Finish(h) /\ UNCHANGED <<mver, aver>>
  /\ UNCHANGED <<resVars, apps, rindex, deployed, now>>

\* RefreshConfigIndexByApp and RefreshSecretIndexByApp, as one table: delete
\* the rows of the application, insert the new ones one by one, go on.
AfterIndex(l) == CASE l.op = "CreateApp" -> "insert"
                   [] l.op = "DeleteApp" -> "undeploy"
                   [] OTHER -> "deploy"

IndexDelete(h) ==
  LET l == loc[h] IN
  /\ pc[h] = "idxdel"
  /\ rindex' = {p \in rindex : p[1] # l.a}
  /\ Goto(h, IF l.rows = {} THEN AfterIndex(l) ELSE "idxins", l)
  /\ UNCHANGED <<resVars, appVars, deployed, now>>

IndexInsert(h) ==
  LET l == loc[h] IN
  /\ pc[h] = "idxins"
  /\ \E p \in l.rows :
       /\ rindex' = rindex \cup {p}
       /\ Goto(h, IF l.rows = {p} THEN AfterIndex(l) ELSE "idxins",
               [l EXCEPT !.rows = @ \ {p}])
  /\ UNCHANGED <<resVars, appVars, deployed, now>>

\* CreateApplication of the database; the name taken is an error.
InsertApp(h) ==
  LET l == loc[h] IN
  /\ pc[h] = "insert"
  /\ IF l.a \in apps
     THEN Finish(h) /\ UNCHANGED appVars
     ELSE /\ apps' = apps \cup {l.a} /\ mver' = [mver EXCEPT ![l.a] = l.m]
          /\ aver' = [aver EXCEPT ![l.a] = @ + 1]
          /\ Goto(h, "deploy", [l EXCEPT !.av = aver[l.a] + 1])
  /\ UNCHANGED <<resVars, rindex, deployed, now>>

\* UpdateNodeAppVersion, with the version the handler holds.
Deploy(h) ==
  LET l == loc[h] IN
  /\ pc[h] = "deploy"
  /\ deployed' = [deployed EXCEPT ![l.a] = l.av]
  /\ IF l.op = "Put"
     THEN Goto(h, "nextapp", [l EXCEPT !.a = None, !.m = NoMounts, !.av = 0])
     ELSE Finish(h)
  /\ UNCHANGED <<resVars, appVars, rindex, now>>

DeleteApp(h) ==
  \E a \in apps :
    /\ Begin(h, "idxdel", [Blank EXCEPT !.op = "DeleteApp", !.a = a])
    /\ apps' = apps \ {a} /\ mver' = [mver EXCEPT ![a] = NoMounts]
    /\ UNCHANGED <<resVars, aver, rindex, deployed, now>>

\* DeleteNodeAppVersion.
Undeploy(h) ==
  /\ pc[h] = "undeploy"
  /\ deployed' = [deployed EXCEPT ![loc[h].a] = 0]
  /\ Finish(h)
  /\ UNCHANGED <<resVars, appVars, rindex, now>>

-----------------------------------------------------------------------------
Fail(h) ==
  /\ Failures /\ pc[h] # "idle"
  /\ Finish(h) /\ broken' = TRUE
  /\ UNCHANGED <<resVars, appVars, rindex, deployed, now>>

Quiescent == \A h \in Handlers : pc[h] = "idle"

Idle == Quiescent /\ UNCHANGED vars

ResourceStep(h) ==
  \/ CreateResource(h) \/ Put(h) \/ PutQuiet(h)
  \/ UpdateSecret(h) \/ ReadConfig(h) \/ WriteConfig(h)
  \/ ListApps(h) \/ NextApp(h) \/ Delete(h) \/ DeleteRow(h)

AppStep(h) ==
  \/ CreateApp(h) \/ UpdateApp(h) \/ Versions(h) \/ WriteApp(h)
  \/ IndexDelete(h) \/ IndexInsert(h) \/ InsertApp(h) \/ Deploy(h)
  \/ DeleteApp(h) \/ Undeploy(h)

Next ==
  \/ \E h \in Handlers : (ResourceStep(h) \/ AppStep(h)) /\ UNCHANGED broken
  \/ \E h \in Handlers : Fail(h)
  \/ Idle

Spec == Init /\ [][Next]_vars

-----------------------------------------------------------------------------
(* Properties.                                                             *)

\* Unless a request has broken off, then when none is being served an
\* application mounts the latest version
\* of every configuration and secret that is not also written quietly, and
\* its latest version is the one deployed.
MountsLatest ==
  Quiescent /\ ~broken => \A a \in apps :
    /\ deployed[a] = aver[a]
    /\ \A r \in Mounts(mver[a]) : Kind[r] \in {"config", "secret"} => mver[a][r] = rver[r]

\* Unless a request has broken off, everything mounted exists between
\* requests: the check of
\* DeleteConfig and DeleteSecretResource protects what is in use.
NothingDangles ==
  Quiescent /\ ~broken => \A a \in apps : Mounts(mver[a]) \subseteq res

\* Unless a request has broken off, the index lists exactly the mounts between
\* requests.
MountIndexAgrees ==
  Quiescent /\ ~broken => rindex = {p \in Apps \X Res : p[1] \in apps /\ mver[p[1]][p[2]] # 0}

\* A PUT of an application that runs to its end under the lock mends what
\* broken-off requests left: latest versions mounted, index rows right.
UpdateAppHeals ==
  [][\A h \in Handlers : Deploy(h) /\ loc[h].op = "UpdateApp" =>
       LET a == loc[h].a IN
       /\ \A r \in Mounts(mver[a]) : r \in res /\ mver[a][r] = rver[r]
       /\ {r \in Res : <<a, r>> \in rindex} = Mounts(mver[a])
       /\ deployed'[a] = aver[a]]_vars

\* needUpdateApp relies on it ("config's version must increment"): an update
\* of a resource gives it a greater version.
VersionIncrements ==
  [][\A r \in res : r \in res' => rver'[r] >= rver[r]]_vars
=============================================================================
