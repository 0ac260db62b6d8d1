------------------------------ MODULE EdgeSync ------------------------------
(***************************************************************************)
(* One node and its edge.  The two programs of the edge, baetyl-core and   *)
(* baetyl-init, report what they run to POST v1/sync/report; the answer is *)
(* the difference between what the shadow of the node desires and what it  *)
(* reports; what differs they fetch from POST v1/sync/desire.  Meanwhile   *)
(* the administrator deploys applications and updates the properties and   *)
(* the synchronisation mode of the node.                                   *)
(*                                                                         *)
(* Every request is a goroutine and nothing serialises them: an action is  *)
(* one access to the tables.  A report may be delayed, its answer may get  *)
(* lost, and a program that timed out reports again while the old request  *)
(* is still served.                                                        *)
(*                                                                         *)
(* The desire of a node is a version of its application, of the system     *)
(* application baetyl-core (0: no system applications yet) and of its      *)
(* properties.  A report has these and whether it lists the other system   *)
(* applications.  Of the row of the node only the mode is kept: the times  *)
(* of its properties (desireMeta, reportMeta) influence nothing.           *)
(***************************************************************************)
EXTENDS Integers

CONSTANTS
  CoreSlots, InitSlots,  \* goroutines that may serve reports of each program
  Admins,       \* goroutines serving properties and mode
  Scopes,       \* bounds: the slots used, the deployments, and the updates of
                \* properties and mode, in records of which a behaviour has one
  None

Slots == CoreSlots \cup InitSlots
Sources == {"core", "init"}
SlotsOf(s) == IF s = "core" THEN CoreSlots ELSE InitSlots
SourceOf(h) == IF h \in CoreSlots THEN "core" ELSE "init"
Part(s) == IF s = "core" THEN "apps" ELSE "core"  \* the application a program installs

VARIABLES
  creation,   \* POST of the node: "pending" before it inserts the shadow
  app,        \* baetyl_application: the version of each row
  mode,       \* the syncMode attribute in baetyl_node
  row,        \* baetyl_node_shadow, None without row
  edge,       \* what the edge runs
  link,       \* what each program does: "idle", "fetch", or the slot it waits on
  pc, loc,    \* the goroutines serving reports
  deploy,     \* the goroutine deploying, and the desire it read
  admin,      \* the goroutines serving properties and mode
  updates,    \* updates of properties and mode so far
  scope

vars == <<creation, app, mode, row, edge, link, pc, loc, deploy, admin, updates, scope>>
admins == <<creation, app, deploy, admin, updates, scope>>

NoReport == [apps |-> 0, core |-> 0, other |-> FALSE, props |-> 0]
NoDesire == [apps |-> 0, core |-> 0, props |-> 0]
Blank == [report |-> NoReport, mode |-> None, delta |-> None]
NoDeploy == [at |-> "idle", app |-> "apps", desire |-> NoDesire]
NoUpdate == [at |-> "idle", mode |-> None, props |-> 0, desire |-> NoDesire, version |-> 0,
             written |-> FALSE]

Init ==
  /\ creation = "pending" /\ app = [apps |-> 0, core |-> 1]
  /\ mode = "cloud" /\ row = None
  /\ edge = [apps |-> 0, core |-> 0, props |-> 0]
  /\ link = [s \in Sources |-> "idle"]
  /\ pc = [h \in Slots |-> "idle"] /\ loc = [h \in Slots |-> Blank]
  /\ deploy = NoDeploy
  /\ admin = [a \in Admins |-> NoUpdate] /\ updates = 0
  /\ scope \in Scopes

Goto(h, point) == pc' = [pc EXCEPT ![h] = point]
Done(h) == Goto(h, "idle") /\ loc' = [loc EXCEPT ![h] = Blank]

\* A request ends with an error: the program that still waits is idle again.
Fail(h) ==
  /\ Done(h)
  /\ link' = [s \in Sources |-> IF link[s] = h THEN "idle" ELSE link[s]]

-----------------------------------------------------------------------------
(* The edge.                                                               *)

\* What a program reports: baetyl-core all it manages, which is everything but
\* itself; baetyl-init the system application baetyl-core.
ReportOf(s) ==
  IF s = "core" THEN [apps |-> edge.apps, core |-> 0, other |-> TRUE, props |-> edge.props]
                ELSE [NoReport EXCEPT !.core = edge.core]

Send(s) == \E h \in SlotsOf(s) \cap scope.slots :
  /\ link[s] = "idle" /\ pc[h] = "idle"
  /\ link' = [link EXCEPT ![s] = h]
  /\ Goto(h, IF s = "core" THEN "keep" ELSE "shadow")
  /\ loc' = [loc EXCEPT ![h].report = ReportOf(s)]
  /\ UNCHANGED <<mode, row, edge, admins>>

\* The program gives up on its request.  The server goes on serving it as long as
\* that changes anything.
Timeout(s) == \E h \in SlotsOf(s) :
  /\ link[s] = h
  /\ IF pc[h] \in {"delta", "answered"} THEN Fail(h)
     ELSE link' = [link EXCEPT ![s] = "idle"] /\ UNCHANGED <<pc, loc>>
  /\ UNCHANGED <<mode, row, edge, admins>>

-----------------------------------------------------------------------------
(* POST v1/sync/report.                                                    *)

\* SyncAPI.Report: a report of baetyl-core, which does not list itself, gets the
\* entry of baetyl-core of the report stored now.
KeepCoreStateOnly(h) ==
  /\ pc[h] = "keep"
  /\ loc' = [loc EXCEPT ![h].report.core =
               IF @ = 0 /\ row # None THEN row.report.core ELSE @]
  /\ Goto(h, "shadow")
  /\ UNCHANGED <<mode, row, edge, link, admins>>

\* UpdateReport and UpdateInitReport read the shadow.  A report of baetyl-init
\* only replaces the system applications of the report read.
GetShadow(h) ==
  /\ pc[h] = "shadow"
  /\ IF row = None THEN Goto(h, "create") /\ UNCHANGED loc
     ELSE IF SourceOf(h) = "core" THEN Goto(h, "node") /\ UNCHANGED loc
     ELSE /\ Goto(h, "write")
          /\ loc' = [loc EXCEPT ![h].report =
                       [row.report EXCEPT !.core = loc[h].report.core, !.other = FALSE]]
  /\ UNCHANGED <<mode, row, edge, link, admins>>

\* createShadow: without a shadow the report makes one that desires nothing, so
\* that checkSysapp fails; Create fails if the row was inserted since it was read.
CreateShadow(h) ==
  /\ pc[h] = "create"
  /\ IF row = None
     THEN row' = [desire |-> NoDesire, version |-> 0, report |-> loc[h].report]
     ELSE UNCHANGED row
  /\ Fail(h)
  /\ UNCHANGED <<mode, edge, admins>>

\* updateReportNodeProperties reads the row of the node ...
GetNode(h) ==
  /\ pc[h] = "node"
  /\ loc' = [loc EXCEPT ![h].mode = mode]
  /\ Goto(h, "nodewrite")
  /\ UNCHANGED <<mode, row, edge, link, admins>>

\* ... and writes it back, the mode read included.
UpdateNode(h) ==
  /\ pc[h] = "nodewrite"
  /\ mode' = loc[h].mode
  /\ loc' = [loc EXCEPT ![h].mode = None]
  /\ Goto(h, "write")
  /\ UNCHANGED <<row, edge, link, admins>>

SysAppsDiffer(desire, report) == desire.core # report.core \/ ~report.other

\* Mutant: the system applications are not compared.
DiffWithNil_NoSysApps(s, desire, report) ==
  [app |-> IF s = "core" /\ desire.apps # report.apps THEN desire.apps ELSE None,
   props |-> desire.props]

\* The desire compared with what extractComparingReport leaves of the report, as
\* far as program s uses it; the properties are always sent.
DiffWithNil(s, desire, report) ==
  [app |-> IF s = "core" /\ desire.apps # report.apps THEN desire.apps
           ELSE IF s = "init" /\ SysAppsDiffer(desire, report) THEN desire.core
           ELSE None,
   props |-> desire.props]

\* Shadow.UpdateReport replaces the report and reads the shadow back, and
\* checkSysapp refuses to answer before the node has system applications.  The
\* difference to answer, if the node turns out not to be in local mode, is of the
\* shadow read back.  For a program that gave up nothing is left to do.
UpdateReport(h) ==
  /\ pc[h] = "write"
  /\ row' = [row EXCEPT !.report = loc[h].report]
  /\ IF link[SourceOf(h)] # h \/ row.desire.core = 0 THEN Fail(h)
     ELSE /\ Goto(h, "delta") /\ UNCHANGED link
          /\ loc' = [loc EXCEPT ![h] = [Blank EXCEPT !.delta =
                       DiffWithNil(SourceOf(h), row.desire, loc[h].report)]]
  /\ UNCHANGED <<mode, edge, admins>>

\* The rest of SyncService.Report: the node is read, and in local mode there is
\* nothing to do.
Answer(h) ==
  /\ pc[h] = "delta"
  /\ loc' = [loc EXCEPT ![h].delta = IF mode = "local" THEN None ELSE @]
  /\ Goto(h, "answered")
  /\ UNCHANGED <<mode, row, edge, link, admins>>

\* The program takes the properties from the answer and fetches its application
\* if that differs.
Receive(s) == \E h \in SlotsOf(s) :
  LET delta == loc[h].delta IN
  /\ link[s] = h /\ pc[h] = "answered"
  /\ link' = [link EXCEPT ![s] =
                IF delta # None /\ delta.app # None THEN "fetch" ELSE "idle"]
  /\ edge' = IF delta # None /\ s = "core" THEN [edge EXCEPT !.props = delta.props] ELSE edge
  /\ Done(h)
  /\ UNCHANGED <<mode, row, admins>>

-----------------------------------------------------------------------------
(* POST v1/sync/desire.                                                    *)

\* GetApplication ignores the version asked for: the program gets and installs
\* the current application.
Desire(s) ==
  /\ link[s] = "fetch"
  /\ link' = [link EXCEPT ![s] = "idle"]
  /\ edge' = [edge EXCEPT ![Part(s)] = app[Part(s)]]
  /\ UNCHANGED <<mode, row, pc, loc, admins>>

\* An object of a configuration cannot be addressed, or the answer is lost.
DesireFails(s) ==
  /\ link[s] = "fetch"
  /\ link' = [link EXCEPT ![s] = "idle"]
  /\ UNCHANGED <<mode, row, edge, pc, loc, admins>>

-----------------------------------------------------------------------------
(* The administrator.                                                      *)

edges == <<edge, link, pc, loc>>

\* The end of NodeService.Create: the shadow desires the system applications.
\* If a report made the shadow first, the creation fails and leaves it as it is.
Create ==
  /\ creation = "pending"
  /\ creation' = IF row = None THEN "done" ELSE "failed"
  /\ row' = IF row # None THEN row
            ELSE [desire |-> [NoDesire EXCEPT !.apps = app.apps, !.core = app.core],
                  version |-> 0, report |-> NoReport]
  /\ UNCHANGED <<app, mode, edges, deploy, admin, updates, scope>>

\* An application is updated: its row ...
Deploy(k) ==
  /\ creation # "pending" /\ deploy.at = "idle"
  /\ app.apps + app.core <= scope.deploys
  /\ k = "core" => creation = "done"
  /\ app' = [app EXCEPT ![k] = @ + 1]
  /\ deploy' = [at |-> "read", app |-> k, desire |-> NoDesire]
  /\ UNCHANGED <<creation, mode, row, edges, admin, updates, scope>>

\* ... then UpdateDesire reads the shadow ...
DeployRead ==
  /\ deploy.at = "read"
  /\ deploy' = [deploy EXCEPT !.at = "write",
                              !.desire = [row.desire EXCEPT ![deploy.app] = app[deploy.app]]]
  /\ UNCHANGED <<creation, app, mode, row, edges, admin, updates, scope>>

\* ... and UpdateDesires writes it, whatever the version of the desire is now.
UpdateDesires ==
  /\ deploy.at = "write"
  /\ row' = [row EXCEPT !.desire = deploy.desire, !.version = @ + 1]
  /\ deploy' = NoDeploy
  /\ UNCHANGED <<creation, app, mode, edges, admin, updates, scope>>

\* UpdateNodeMode and UpdateNodeProperties read the row of the node first.
Start(a) ==
  /\ admin[a].at = "idle" /\ updates < scope.updates
  /\ updates' = updates + 1
  /\ \E op \in {"cloud", "local", "props"} :
       admin' = [admin EXCEPT ![a] = [NoUpdate EXCEPT
         !.at = IF op = "props" THEN "shadow" ELSE "mode",
         !.mode = IF op = "props" THEN mode ELSE op, !.props = updates + 1]]
  /\ UNCHANGED <<creation, app, mode, row, edges, deploy, scope>>

\* UpdateNodeMode writes the row with the new mode.
UpdateNodeMode(a) ==
  /\ admin[a].at = "mode"
  /\ mode' = admin[a].mode
  /\ admin' = [admin EXCEPT ![a] = NoUpdate]
  /\ UNCHANGED <<creation, app, row, edges, deploy, updates, scope>>

\* UpdateNodeProperties reads the shadow; without one the request panics.
GetPropsShadow(a) ==
  /\ admin[a].at = "shadow"
  /\ admin' = [admin EXCEPT ![a] =
       IF row = None THEN NoUpdate
       ELSE [@ EXCEPT !.at = "desire", !.version = row.version,
                      !.desire = [row.desire EXCEPT !.props = admin[a].props]]]
  /\ UNCHANGED <<creation, app, mode, row, edges, deploy, updates, scope>>

\* Mutant: the version of the desire is not compared.
UpdateShadowDesire_NoCas(desire, version) ==
  row' = [row EXCEPT !.desire = desire, !.version = @ + 1]

\* UpdateShadowDesireTx: the desire is written if its version is still the one read.
UpdateShadowDesire(desire, version) ==
  row' = IF row.version # version THEN row
         ELSE [row EXCEPT !.desire = desire, !.version = @ + 1]

\* UpdateNodeProperties writes the desire read, with the new properties, and
\* ignores whether a row was written ...
UpdateProps(a) ==
  /\ admin[a].at = "desire"
  /\ UpdateShadowDesire(admin[a].desire, admin[a].version)
  /\ admin' = [admin EXCEPT ![a].at = "node", ![a].desire = NoDesire, ![a].version = 0,
                            ![a].written = row.version = admin[a].version]
  /\ UNCHANGED <<creation, app, mode, edges, deploy, updates, scope>>

\* ... and then the row of the node with the mode read at first, and succeeds.
UpdatePropsNode(a) ==
  /\ admin[a].at = "node"
  /\ mode' = admin[a].mode
  /\ admin' = [admin EXCEPT ![a] = NoUpdate]
  /\ UNCHANGED <<creation, app, row, edges, deploy, updates, scope>>

-----------------------------------------------------------------------------
Serve(h) ==
  \/ KeepCoreStateOnly(h) \/ GetShadow(h) \/ CreateShadow(h) \/ GetNode(h)
  \/ UpdateNode(h) \/ UpdateReport(h) \/ Answer(h)
Update(a) == UpdateNodeMode(a) \/ GetPropsShadow(a) \/ UpdateProps(a) \/ UpdatePropsNode(a)
Edge(s) == Send(s) \/ Timeout(s) \/ Receive(s) \/ Desire(s) \/ DesireFails(s)

Next ==
  \/ \E h \in Slots : Serve(h)
  \/ \E s \in Sources : Edge(s)
  \/ Create \/ DeployRead \/ UpdateDesires
  \/ \E k \in {"apps", "core"} : Deploy(k)
  \/ \E a \in Admins : Start(a) \/ Update(a)

Spec == Init /\ [][Next]_vars

\* The server ends what it started.  The programs report again and again, and it
\* does not happen for ever that they give up on every answer or that every
\* fetch fails.
Fairness ==
  /\ \A h \in Slots : WF_vars(Serve(h))
  /\ WF_vars(Create) /\ WF_vars(DeployRead \/ UpdateDesires)
  /\ \A a \in Admins : WF_vars(Update(a))
  /\ \A s \in Sources : /\ WF_vars(Send(s))
                        /\ []<>(link[s] = "fetch") => []<><<Desire(s)>>_vars
                        /\ []<><<Receive(s)>>_vars
FairSpec == Spec /\ Fairness

-----------------------------------------------------------------------------
\* Updates of the properties write the desire as a whole, while deployments change
\* the applications in it; a deployment is never undone that way.
DeploymentKept ==
  [][row # None => /\ row'.desire.apps >= row.desire.apps
                   /\ row'.desire.core >= row.desire.core]_vars

InSync ==
  /\ edge.apps = app.apps /\ edge.core = app.core
  /\ edge.props = row.desire.props

\* Once the administrator lets the node synchronise, the edge comes to run the
\* current applications and to have the desired properties, for good: although
\* reports overwrite each other and answers are lost, late or outdated, the next
\* report shows what is missing.
EdgeCatchesUp ==
  <>[](mode = "cloud" /\ creation = "done") => <>[]InSync

\* "UpdateNodeProperties update desire of node properties" (the comment above
\* it): an update about to succeed has written the desire.
PropertiesWritten == \A a \in Admins : admin[a].at = "node" => admin[a].written
=============================================================================
