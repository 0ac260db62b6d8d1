# Verification of baetyl-cloud

baetyl-cloud is the management plane of the Baetyl edge-computing framework. An
administrator describes nodes, applications, configurations and secrets; the
cloud computes for every node which version of which application it is to run
(its *desire*), and the nodes report what they run and fetch what differs. The
modules here model that machinery in TLA+, check it on small instances with
TLC, and prove the central facts for every instance with TLAPS.

Every definition is translated from the Go code; `PROJECT.json` ("map") names the
lines. Paths below are relative to `src/`.

## 1. The system

### Parts

| Part | Code | State | Operations | Module |
|---|---|---|---|---|
| Deployment of applications to nodes | `service/node.go`, `facade/application.go`, `api/node.go`, `api/application.go`, `plugin/database/{shadow,index,node,application}.go` | rows of nodes, applications, shadows (desire, report, `desire_version`), index of applications and nodes | POST, PUT, DELETE of nodes and applications; report of a node | `Deployment`, `DesiredState` |
| Configurations, secrets, registries, certificates | `facade/{config,secret}.go`, `api/{config,secret,registry,certificate}.go`, `service/application.go` | rows of resources and their versions, mounts of applications, index of applications and resources | POST, PUT, DELETE of resources and of the applications that mount them | `Resources` |
| Namespace lock | `common/context.go`, `plugin/default/lock` | the holder | `WrapperWithLock` around six routes | in both |
| Transaction factory | `plugin/default/transaction` | none | `BeginTx`, `Commit`, `Rollback` do nothing | in both |
| Report caches | `triggerfunc/trigger.go`, `service/node.go` | a process-wide map and timer, three kinds of cache keys | set on a report, delete with a node, read by the node list | `ReportCache` |
| Synchronisation with the edge | `service/sync.go`, `api/sync.go` | shadow report and desire | Report (returns a delta), Desire (returns resources) | `EdgeSync` |
| Node properties and mode | `service/node.go`, `api/node.go` | node attributes, `nodeprops` of report and desire | update of properties, update of the mode | `EdgeSync` |
| System applications | `service/system_app.go`, `api/node.go` | applications, configurations, certificates generated for a node | generation, optional applications, accelerator, settings of baetyl-core | `NodeAdmin` |
| Applications by request | `api/application.go`, `facade/application.go`, `service/application.go` | applications, generated configurations, cron rows | POST (also from a base), PUT, DELETE; functions and native programs | `AppApi`, `AppStore` |
| YAML batches | `api/yaml.go` | none of its own | POST, PUT, DELETE of a file of resources | `YamlBatch`, `AppStore` |
| Registries, certificates, secrets by request | `api/{secret,registry,certificate}.go`, `models/{secret,registry,certificate}.go` | rows of one table | POST, PUT, DELETE, new password | `SecretApi` |
| Modules | `api/module.go`, `plugin/database/module.go` | versions, the latest flag | create, update, delete | `Modules` |
| Tasks | `plugin/database/task.go` | task rows with a version and an age | add, acquire (compare-and-swap), update, delete | `Tasks` |
| Devices | `plugin/database/{device,node_device}.go` | rows of devices and of their bindings to nodes | single and batch writes, listings | `Devices`, `Paging` |
| Other tables | `plugin/database/*.go`, `entities`, `models` | rows | create, update, delete, list | `Tables`, `Paging` |
| Kubernetes storage | `plugin/kube` | the same rows as custom resources | same interfaces | `KubeStorage` |
| Namespaces, PKI, quota | `plugin/database/namespace.go`, `service/pki.go`, `service/quota.go` | rows, certificates, counters | as far as other parts use them | in `Tables`, `NodeAdmin` |
| Installation of nodes | `service/init.go`, `api/init.go` | none that changes | activation | not modelled |

Functions, objects, authentication, licences, signatures, CSRF and decryption hold
no state of their own; the tables of devices, batches and records have no caller in
this repository; the Kubernetes client is generated.
`PROJECT.json` ("components") lists all of them with reasons.

### How the parts interact

An administrator's request is one goroutine that runs a chain of SQL statements.
By default (`config/config.go:43`, `:47`) the transaction factory is
`defaulttx`: `BeginTx` returns no transaction, so every statement (or
every `Transact` block of the database plugin) commits on its own and nothing is
rolled back when a later one fails. Six routes (`server/admin_server.go`
112, 131, 153, 155, 173, 175) are wrapped in a lock on the namespace; the shipped
`defaultlocker` does nothing, other deployments plug in one that excludes.
Requests are therefore steps of several statements, interleaved with each other,
that may break off anywhere.

A change flows in one direction: a resource gets a new version → the applications
that mount it are rewritten with that version (`facade/config.go`,
`facade/secret.go`) → the desires of the nodes an application selects get the
application's new version (`service/node.go` `UpdateNodeAppVersion`) → a node's
next report returns the difference between desire and report (`service/sync.go`).
In the other direction a report is stored in the shadow and in the caches the
node list reads.

### What is hard about it

- read-modify-write of a desire by two requests (node against application,
  application against application), guarded by compare-and-swap on one path and by
  nothing on the other;
- requests that fail between two statements, and what the next request repairs;
- rows of a node deleted while another request still writes them;
- versions that double as order (`needUpdateApp`) but are partly random;
- check-then-act on the index (DELETE of a resource in use) and on the cache lock;
- reports that race with the creation and the deletion of their node, that overlap and
  overwrite each other, and whose answers are lost or out of date;
- requests of a dozen calls without a transaction, whose order decides what a failure
  leaves behind and whether repeating the request mends it;
- rows compared with what a request sends before they are written: what the comparison
  overlooks is not stored;
- objects in Kubernetes that several callers edit, and a shadow that is two of them.

`PROJECT.json` ("hazards") gives each with the line where it bites and the
property that would catch it, or why none does.

## 2. Modules

| Module | What it is |
|---|---|
| `Deployment` | Nodes, applications, shadows, index; each action is one statement of one request. |
| `DesiredState` | What deployment promises: after each request every node is asked for exactly the applications whose selector matches it, at their current version. |
| `DeploymentRefinement` | `Deployment` with a history variable, and the claim that it implements `DesiredState`. |
| `DeploymentInvariant` | The inductive invariants of the proofs. |
| `DeploymentProofs` | `TypeCorrect`. |
| `DeploymentVersions` | `NoPhantom`. |
| `DeploymentStages`, `DeploymentIndexStages`, `DeploymentAppStages`, `DeploymentDesireStages`, `DeploymentSerial` | `SerialAgrees`: the lemmas on the points of a request, by the statement they are about, and the theorem. |
| `Resources` | Configurations, secrets, registries and certificates and the applications that mount them. |
| `ReportCache` | The caches behind the node list: which reports reach them. |
| `EdgeSync` | A node, the two programs of its edge, and the administrator, access by access. |
| `Calls` | A request as the sequence of its calls, of which one may fail; transactions. |
| `NodeAdmin` | Nodes with their system applications, request by request. |
| `AppStore` | What services and facade do to applications, resources, cron rows, index and desires: the operators `AppApi` and `YamlBatch` share. |
| `AppApi` | The requests on applications. |
| `YamlBatch` | The requests on YAML files. |
| `SecretApi` | The three families of requests on the table of secrets. |
| `Paging` | How listings are cut into pages, and what it means that pages cover a listing. |
| `Devices`, `Tables` | The tables of the database plugin. |
| `Modules`, `ModulesProofs` | Versions of modules; `ModulesOneLatest`, `ModulesLatestKept`. |
| `Tasks` | Tasks shared by workers. |
| `KubeStorage` | Storage in Kubernetes. |
| `MC...` | Model values, instances and symmetry for TLC; `MCParts` has one instance of each of the last nine components. |

### Deployment

State: `nodes`, `labels` (node rows), `apps`, `sel`, `ver` (application rows: an
application's selector and version), `shadows`, `desire`, `dver`, `torn` (shadow rows:
the desired version of each application, 0 for none; `desire_version`; rows that
lack a report), `index` (rows of the index of applications and nodes), `lock`,
and per handler a point `pc` and local variables `loc`. `clock` numbers the versions
and the values of `desire_version`, `started` counts the requests.

A request starts with an action named after it (`CreateNode`, `UpdateApp`, …: the
checks of its API handler and its first statement) and then takes one action per
statement:

| Request | Points in order | Code |
|---|---|---|
| POST node | `genapps` (each system application) → `listapps` → `newshadow` → `idxdel` → `idxins` | `api/node.go` CreateNode, `service/node.go` Create, InsertOrUpdateNodeAndAppIndex, rematch |
| PUT node | `getshadow` → `clearidx` → `listapps` → `cas` → `idxdel` → `idxins` | `api/node.go` UpdateNode, `service/node.go` Update |
| DELETE node | `delnode` → `delshadow` → `clearidx` → `delsys` / `delsysidx` | `service/node.go` Delete, `api/node.go` deleteSysApps |
| POST application | `listnodes` → `readnew` → `setdesire` → `idxdel` → `idxins` | `facade/application.go` CreateApp, `service/node.go` UpdateNodeAppVersion |
| PUT application | `write` → `listold` → `readold` → `dropdesire` → `clearidx` → `listnodes` → … | `facade/application.go` UpdateApp |
| DELETE application | `delapp` → `listold` → `readold` → `dropdesire` → `clearidx` | `facade/application.go` DeleteApp |
| report without shadow | `newshadow` | `service/node.go` UpdateReport |

`Failures` lets a request break off at any point; its earlier statements stay.
`NamespaceLock` says whether the Locker plugin excludes. `Requests` is the set of
operations the instance offers, `MaxRequests` their number.

Abstractions: the version of an application is a number drawn from a clock (the
code draws it from time and random characters; the order of versions is the
subject of `Resources`, here only equality and age are used); a selector is a set of
labels, or a node name for the selector of a system application; the listing and
deletion of superfluous rows in `RefreshIndex` is one step. A PUT of a node
changes its labels here; changes of its optional system applications, accelerator,
mode and properties are other requests and not part of this module.

### DesiredState and DeploymentRefinement

`DesiredState` has the rows of nodes and applications, the desires and the index; its
actions change nodes or applications and recompute desires and index at once. The refinement maps
the state before the current request until the request ends, and the rows after it:
`base` is the history variable that remembers them. The routes that take no lock
(DELETE, reports) are served alone there (`Alone`); the others only have the lock.

### Resources

State: `res` (which resources exist), their contents, versions, the applications'
mounts (resource → version), the application versions, the index of applications and
resources, and `deployed`, the version of an application last handed to the
deployment, which is one step here. A version is a number made of a second and a
tail below `Tails`: `GenResourceVersion` is a time in seconds followed by random
characters. `SpacedWrites` says that no two writes fall into one second.
`NeedUpdate` is the code's comparison of versions as text (`facade/config.go`
needUpdateApp). A registry is a secret whose PUT handler has the same shape; a
certificate too. `Kind` tells them apart where routes differ (which take the lock,
which check for equality first). `broken` is a history variable: has a request broken
off? What holds between requests is stated for the time before.

### ReportCache

State: the node and shadow rows (`nodes`, `row`), `save` (the process-wide
`reportSaveMap`, keyed by name), `timer` (the one-second timer: armed, tick waiting,
tick taken), the cache (`timeKeys`, `times`, `data`), the two locks kept in the cache, and a
point and local variables per goroutine. A report is identified by its time.
Reporters are the goroutines serving reports of one node (`Overlap` at once), admins
those serving POST, DELETE and GET of nodes. Points `store`, `load`,
`read`, `range`, `rangedel`, `setdata` are `ShadowCreateOrUpdateCacheSet` and `saveCache`
(`triggerfunc/trigger.go`); `delload`, `delsave`, `delset`, `deldata` are `ShadowDeleteCache`; the
`list…`, `set…` and `putdata` points are `List` and the functions it calls in
`service/node.go`. The goroutine that `setShadowReportCacheByNames` starts is the
continuation of the list that starts it, whose answer is fixed by then.

Abstractions: the cache is freecache, a map in the process, so a restart empties it
(`Installed` nodes with an empty cache); `CacheErrors` lets it refuse a map or a
report. Filters, order and pages of the list are left
out, and the cached reports one list looks up are read in one step. A lock older than two
(thirty) minutes is removed by the code; locks get that old only if their holder dies,
which ends the process and its cache, so the branch is not taken here.

### EdgeSync

State: the row of the node as far as the mode goes, the shadow (`row`: report, desire,
`desire_version`), the versions of the applications, what the edge runs (`edge`), what
each of its programs is doing (`link`), and a point and local variables for each
goroutine that serves a report, a deployment or an update. A version of the node's
application, one of baetyl-core and one of the properties stand for all applications
and properties. The edge is external: `Send`, `Timeout` and `Receive` follow from how
`api/sync.go` and `service/sync.go` are used. A program that timed out reports again while its
old report is served; its answer may come late or never.

| Action | Code |
|---|---|
| `KeepCoreStateOnly` | `api/sync.go` Report: a report of baetyl-core, which does not list itself, gets the entry that is stored |
| `GetShadow`, `CreateShadow`, `UpdateReport` | `service/node.go` UpdateInitReport, UpdateReport, createShadow |
| `GetNode`, `UpdateNode` | updateReportNodeProperties: reads and writes the row of the node |
| `Answer` | `service/sync.go` Report: the difference (`DiffWithNil`), none in local mode |
| `Desire`, `DesireFails` | `service/sync.go` Desire: the *current* application, whatever version was asked for |
| `Create`, `Deploy`, `DeployRead`, `UpdateDesires` | creation of the shadow; deployment of a new version |
| `Start`, `UpdateNodeMode`, `GetPropsShadow`, `UpdateProps`, `UpdatePropsNode` | `service/node.go` UpdateNodeProperties, UpdateNodeMode |

Left out: `ReportMeta` and the times of properties, on which nothing here depends; reports of
devices; `updateAndroidInfo`.

### Requests as sequences of calls

`NodeAdmin`, `AppApi`, `YamlBatch`, `Devices` and `Tables` take a request as one step: the
interleaving of requests is the subject of `Deployment`, `Resources` and `EdgeSync`. What
they add is the whole handler and its failures. The state is a record `db`; a handler
is a function of it, a chain of calls in the order of the code, each of which ends the
request when it fails (`Do`), is only logged (`Try`) or is a check (`Refuse`); `Transact`
undoes what failed. A behaviour chooses which call of which request fails; since the
default transaction factory does nothing, what was done before stays. Most properties
speak of behaviours without such a failure (`failed`), those about the order of calls
of all. A request that is refused after it changed something counts as a failure
(`End`), except in `AppApi`: there it is an answer like others and more requests
follow it (`Refused`).

`NodeAdmin`: rows of nodes, desires, index, applications and configurations by node,
alias and number of creation, secrets, certificates, used quota. An application's random
name is the number of the creation; port, frequency, GPU flag and version stand for its
contents.

`AppStore`, `AppApi`, `YamlBatch`: resources with versions, applications with services,
volumes, labels, port, cron flag and selector, cron rows, two index tables, desires. The
nodes an application selects are one. A client that edits an application sends back what
it was shown. A service of a native application mounts its program from a volume with
a random name (`progs`), which is in neither the application as it was nor its base;
`TranslateNativeApp` puts each service's volume where the first program volume was, so only
the last one's remains, and `ValidName` refuses what mounts a volume that is not there.
This comes after configurations and cron rows were written, as in the code: `late` are
the applications whose cron row a refused request created or deleted, `lost` the
configurations it generated. In `AppApi`, `odd` marks two requests after which a generated configuration
is shared or deleted while mounted (section 5); such a behaviour is not followed further.
Failures inside a PUT are the matter of `Resources`. A YAML document is a record of what the
handlers look at.

`Devices` and `Tables`: a device table row has a node, labels, a body and a version; in
`Tables` each of fourteen tables is described by its columns, those its UPDATE sets, those
its comparison looks at, whether it runs in a transaction and reads the row back, and how
its listing is cut. The schema of the device tables is not in `scripts/sql`; their unique keys
are assumed to be the columns the statements select by. Listings are ordered by time of
creation, which is any order here.

`SecretApi`: rows with a label for the family, data and a description; a key and its
certificate are the same value.

### Modules, Tasks, KubeStorage

`Modules` has the rows, the marks and what each administrator has read; `CreateModule`
and `UpdateModule` are transactions, the read of the API's update is outside. `Tasks` has
a version, status and age per row and what each worker knows; workers crash and are
slow. `KubeStorage` models the API server (external) by objects with a resource
version and a set of edits; callers get, create, update and delete nodes, applications,
configurations and secrets, whose conversions hand the version on and drop fields, and create,
update and delete shadows, object by object, with processes that die in between.

## 3. What the runs check

| Run | Instance | Result |
|---|---|---|
| `deploy_serial` | 2 nodes, 1 user application, 2 names of system applications, 2 handlers, 5 requests of all kinds, lock that excludes; the routes without the lock are served alone | passes: `SerialInv`, `DesireAgrees`, `IndexAgrees`, and every request as a whole is one step of `DesiredState` |
| `deploy_failures` | 2 nodes, 2 handlers, lock, requests break off anywhere | passes: `NoRollback`, `UpdateNodeRepairs`, `AppReachesNodes` |
| `deploy_open` | 1 node, 1 user application, 2 handlers, no lock, 4 requests of all kinds | passes: `TypeOK`, `NoPhantomVersion`, `CasOverwritesWhatItRead` |
| `deploy_default_locker` | 1 node, 2 applications, no lock | violated: see findings |
| `resources_serial` | a configuration, a secret and a registry, 2 contents, 2 applications, 2 handlers, lock, 5 requests that may break off; the routes without the lock are served alone | passes: `MountsLatest`, `NothingDangles`, `MountIndexAgrees`, `UpdateAppHeals` |
| `resources_same_second` | one handler, several writes in a second | violated: see findings |
| `cache_open` | 1 node whose reports overlap, 2 administrators, 2 requests, failing cache writes | passes: `OneFlusher`, `SetLockOwned` |
| `cache_live` | 2 installed nodes that go on reporting, one list or deletion, fairness | passes: `ReportReachesList` |
| `cache_namespaces` | a node in each of 2 namespaces | violated: see findings |
| `edge_sync` | 2 goroutines for baetyl-core and 1 for baetyl-init with a deployment; or 1 and 1 with a deployment and an update; fairness | passes: `DeploymentKept`, `EdgeCatchesUp` |
| `node_properties` | 2 updates of properties that overlap | violated: see findings |
| `parts` | nine components, each on its own | passes: see below |

`parts` is one run because the components share nothing: `which` says which one a behaviour
is about, and the state space is the sum of theirs.

| Component in `parts` | Instance | Properties |
|---|---|---|
| `NodeAdmin` | 1 node that is created twice, 2 versions, 4 settings of baetyl-core, any call fails | `SysAppsExact`: one application per alias wanted; `NothingLeft`: deletion leaves nothing; `CoreAgrees`: row, application and configuration of baetyl-core agree; `KeepsCertificate`: a node never loses what it connects with, whatever fails |
| `AppApi` | 2 applications, functions and containers in native mode, 4 shapes, 1 configuration of the user, any call of a POST or DELETE fails, or a request is refused late | `GeneratedExact`: the generated configurations are those of the services there are, and what a late refusal left is mounted by none; `NothingDangles`: what is mounted exists and is indexed, whatever fails; `MountsLatest`: waiting applications have a cron row (unless a late refusal changed it) and are on no node, the others are deployed in their latest version with the latest of what they mount |
| `YamlBatch` | 7 files over 2 applications, a configuration, a secret and services, versions up to 3, any call of a POST or DELETE fails | `FitSucceeds`: the order of the documents does not matter; `FileDone`: a file that succeeds is done, also after others broke off; `MountsLatest`: what is mounted is the latest version (not that it is deployed: a Service writes applications without deploying them) |
| `Devices` | 2 devices, 2 models, 5 batches, 4 bindings, any call of an unbinding fails | `WritesWhole`: unbinding a batch changes devices and bindings or neither; `PagesCover` |
| `Tables` | 14 tables, 3 rows, 4 writes, any call fails | `WritesWhole`: what a successful update changed is stored, a failed transaction stored nothing; `PagesCover`: pages show each row once |
| `SecretApi` | 2 rows, 2 values, 2 descriptions | `CredentialsWhole`: registries and certificates have all their parts, and a client that sends back what it saw changes none |
| `Tasks` | 1 task, 3 workers, version up to 5 | `FinishedStep`: a finished task stays finished |
| `KubeStorage` | 2 callers, 5 writes | `NoEditLost`: no caller undoes an accepted edit; `CreatedWhole`: a created shadow has both objects, whatever died before |
| `Modules` | 2 modules, 3 versions, 2 administrators | `OneLatest`, `LatestKept` |

No run switches a definition; a `.cfg` only gives constants their values. Deadlock
checking is on: `Idle` (`Done` in `ReportCache`) stutters only while every handler is
idle, so a handler stuck at a point would be reported. `parts` alone does without:
numbers of requests and versions are bounded in its components, which then stop.

**Bounds.** Two nodes are needed for an application to match one node and not the
other, and two applications for a read-modify-write of one desire to lose one of
them; one label gives selectors that match all, some and one node. Three to five
requests create node and application, change both, and delete.
In `Resources` two contents, three resources and two applications let a
change reach one application and miss another; `Tails = 2` gives two versions
in one second (writes of different seconds are ordered whatever their tail, so one
tail serves `resources_serial`). In `ReportCache` two nodes are needed for one to
flush the other's time; times stop at `MaxTime`, after which nodes go on reporting that time, and the limit
of ten missing reports is one (`ResetLimit`). Handlers and administrators are
symmetric, and so are the names of system applications and, in `Resources`, the
applications and contents; symmetry is used only in runs that check invariants,
action properties and the safety refinement.

In `EdgeSync` a program needs two goroutines to overtake itself, one deployment and one
update to meet; versions are compared for equality, so one new version is as good as
many. In `NodeAdmin` the second creation reuses the name of a deleted node. The bound `MaxCalls`
of each component is the length of its longest request (26 calls for the deletion of a
node): larger bounds reach no further state. `AppApi` needs two applications for a base, and for a configuration
both mount; the shapes add and remove services, functions, mounts and cron jobs, and one
with two services is what native mode refuses. A base has fewer than two program
volumes (`MaxPrograms`), one request of a behaviour is
refused late (`MaxRefused`), and after one that left configurations there is no further
POST (`MaxLost`); the names of these applications are symmetric. In `Tasks` three
workers let one be late while a second works and a third waits; in `KubeStorage` two
callers suffice for a lost edit.

**Fairness.** Only `ReportCache` and `EdgeSync` assume any. In `ReportCache`, goroutines and the timer run (weak
fairness), nodes that exist go on reporting (weak fairness: the edge reports
periodically and retries for ever), and no node stores a report in the middle of every
flush (an entry that is pending at infinitely many flushes is copied by infinitely many: one
stored after a flush began is skipped by it, but a flush takes microseconds and a node
reports every few seconds). In `EdgeSync`, requests that were started end (weak fairness of
their goroutines), both programs go on reporting, answers are received again and again, and
so are fetches while there are any: the edge, which is not in this repository, repeats
both, and a network that never delivers cannot synchronise anything. Nothing is
assumed of the administrator. Everything else is an invariant, an action property or a safety refinement.

## 4. What is proved

| Theorem | Statement | Assumptions |
|---|---|---|
| `TypeCorrect` (`DeploymentProofs`) | `Spec => []TypeOK` | the constants' assumptions in `Deployment` |
| `NoPhantom` (`DeploymentVersions`) | `Spec => []NoPhantomVersion` | the same |
| `ModulesOneLatest` (`ModulesProofs`) | `Spec => []OneLatest` | `None` is not a row read |
| `ModulesLatestKept` (`ModulesProofs`) | `Spec => LatestKept` | the same |
| `SerialAgrees` (`DeploymentSerial`) | `Spec => [](DesireAgrees /\ IndexAgrees)` | and `Serialised`: no request breaks off, and either all requests take a lock that excludes or there is one handler |

Nodes, applications, labels, selectors, handlers and the number of requests are
arbitrary in the three theorems on `Deployment`; `TypeCorrect` and `NoPhantom` also hold with any interleaving
and any failures.

`TypeCorrect` rests on `TypeInv`, which adds to the type invariant which operation
can be at which point and that its arguments are set (`Role`); without it the actions that
index `desire` by a local variable could leave the types.

`NoPhantom` rests on `VersionInv`: the desires are not ahead of the application rows,
no version held in a handler's memory is either (`Bound`), and no application is
ahead of the clock. The middle conjunct is why the invariant is not inductive by itself:
desires are written from memory, and memory is filled from rows read long before.

`SerialAgrees` rests on `SerialInv`. `DesireAgrees` speaks of the moments between
requests, so it says nothing while a request runs; the invariant has to say, for each
point of each request, how far the database has come (`PutNodeStage`,
`DeleteNodeStage`, `AppStage`): what does not concern the node or the application of the
request agrees throughout (`ExceptNode`, `ExceptApp`), what was read is still what
the rows say, the desires and index rows that have not been written yet are at most those of the
old selector, and those that have been written are right. Mutual exclusion
(`Exclusive`) makes the local facts stable. `SerialInv` is also checked by TLC in
`deploy_serial`.

`ModulesOneLatest` and `ModulesLatestKept` hold for any modules, versions and number of
administrators. Their invariant is `OneLatest` with the types: a version is marked only
in the transaction that clears the other marks of its module, so that it does not matter
what an administrator read before; `LatestKept` follows step by step.

Only model-checked: the refinement of `DesiredState`, the action properties of the
runs with failures and of the compare-and-swap, everything about `Resources`,
`ReportCache`, `EdgeSync` and the other components of `parts`. Liveness under fairness is out of the prover's reach and stays with TLC.

## 5. Findings

- **Deployments lost without a real lock** (`deploy_default_locker`).
  `UpdateDesires` writes without comparing `desire_version`
  (`plugin/database/shadow.go:186`), although the column is documented as being for
  compare-and-swap (`scripts/sql/tables.sql:104`). With the default Locker two
  application requests on one node lose one of the applications.
- **Versions do not always increase** (`resources_same_second`).
  `facade/config.go:91` says "config's version must increment"; within one second the
  random tail decides, and when it decides the wrong way no application is updated.
- **Report times in the wrong namespace** (`cache_namespaces`). `reportSaveMap` is
  keyed by the node's name; a flush writes all entries into the map of the namespace
  whose report triggered it.
- **Updates of properties that are not written** (`node_properties`). `service/node.go:963`
  says "UpdateNodeProperties update desire of node properties"; if another update has
  written the shadow in between, the compare-and-swap changes no row, and the
  request answers with properties nobody desires.

Three more things seen while modelling, which the properties allow for. A new shadow
starts with `desire_version` empty like a deleted one of the same name, so a PUT that
read the old row overwrites the new one; `CasOverwritesWhatItRead` excepts shadows not
written since their INSERT. `ShadowDeleteCache` returns when no map of times is cached
and leaves the node's report and its pending time behind. `CacheReportSetLock` is
tested and set in two steps and deleted by whoever ends first, so that it may be absent
while a goroutine still fills the cache; it never stays behind (`SetLockOwned`).

Seen in the components of `parts`, modelled and excepted by the properties named:

- POST of a node keeps its quota when no version of baetyl is the latest, and gives it
  back when a later step fails although the row stays (`NothingLeft`); PUT of a node saves
  the row before the optional applications, so that repeating a PUT that broke off does
  nothing (`SysAppsExact`); a changed agent port is refused after baetyl-core was
  updated (`CoreAgrees`).
- A PUT that removes a service of a function and sends its volume back leaves the volume
  without its configuration, and a function made from a base shares the base's
  configurations (`GeneratedExact`).
- `validName` refuses an application after its cron row and its generated configurations
  were written (`facade/application.go:55`, `:102`). A refused PUT that gives up a cron job
  deletes the row and leaves the application waiting without one; a refused POST leaves
  a row that makes the next POST with a cron job of that name fail, or configurations
  nothing mounts (`MountsLatest`, `GeneratedExact`). Native applications with two services
  meet this always, since `translateNativeApp` keeps the volume of the last one only;
  they exist all the same, made of one service and a base, and no PUT of both services succeeds.
- A YAML file's Service changes applications without deploying them; a DELETE that broke off
  between the row of an application and its desire is not completed by repeating it
  (`FileDone`); a PUT of a missing application panics (`api/yaml.go`, updateApplication).
- `EqualNode` does not compare cluster, link and core id, so a change of these alone is
  dropped (`WritesWhole`, `Overlooked`); statements of drivers, models and access templates
  do not set the protocol although the comparison looks at it (`WritesWhole` is about the
  columns a statement sets); `EqualNodeDevice` overlooks the driver instance.
- Listings of devices with a label selector ignore the page, as do those of batches in
  any case; that of nodes is cut by its caller (`service/node.go:228`). `PagesCover` is
  about the others. Rows created in the same second come in no fixed order, so that with
  `LIMIT` two pages may repeat one and miss another; a listing has one order here.
- An update of a module that does not mention `isLatest` writes back the mark it read
  before its transaction (`LatestKept`).
- In Kubernetes `UpdateDesire` and `UpdateReport` of a shadow read the version again just
  before they write, so two writers overwrite each other (`NoEditLost` is about the other
  kinds); `Create` of a shadow ignores an error of its Get; applications lose the fields that
  `ApplicationSpec` lacks.

## 6. What is not modelled

- Deletion of a namespace: the request adds a task whose handler is not in this
  repository. Of the five statements of `DeleteNamespace` only the first is in `Tables`.
- The loop that deploys applications whose cron time has come: not in this repository.
- Installation of nodes: templates of text behind a signed token, no state that changes.
- PKI beyond the signing and deletion of certificates of nodes: the root certificate is
  made once; certificates are opaque.
- Random names (`RandString`) are new: that two requests draw the same is left out.
- Reports of devices and of Android nodes, configurations that refer to objects.
- Lists, namespaces and `UpdateDesires` of the Kubernetes plugin.
- The expiry of locks: the statements of `plugin/database/lock.go` have no caller, and the
  default locker does nothing.

Open for proof: the refinement of `DesiredState` from `SerialInv`,
`CasOverwritesWhatItRead`, `OneFlusher`, invariants of `Resources`, `FinishedStep`.

Left out for good: templates, shell commands and YAML text, JWT and certificate
contents, HTTP routing, logging, the generated client, and functions and objects,
which forward to external services.
