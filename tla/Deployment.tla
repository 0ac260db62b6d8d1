----------------------------- MODULE Deployment -----------------------------
(***************************************************************************)
(* How applications reach nodes.  An application carries a label selector; *)
(* a node carries labels.  The cloud keeps, in four database tables, the   *)
(* nodes, the applications, one shadow per node (whose "desire" lists the  *)
(* versions of the applications the node has to run) and an index of the   *)
(* application/node pairs.  Six HTTP handlers change them (service/node.go, *)
(* facade/application.go) and each runs as a series of SQL statements: the *)
(* only transaction factory of the repository is "defaulttx", whose        *)
(* transaction is nil, so every statement (every Transact block) commits   *)
(* on its own and nothing is rolled back.  One action below is one such    *)
(* statement; pc and loc hold the position and the local variables of the  *)
(* goroutine that serves a request.                                        *)
(***************************************************************************)
EXTENDS Integers, FiniteSets

CONSTANTS
  Nodes,          \* node names of one namespace
  UserApps,       \* names a user gives to applications
  SysApps,        \* the random names GenApps draws (one per node creation)
  Labels,         \* labels a user may put on a node
  UserSelectors,  \* selectors a user may put on an application
  Handlers,       \* goroutines serving requests
  None,           \* no handler, no node, no application
  NamespaceLock,  \* TRUE: the Locker plugin excludes; FALSE: "defaultlocker"
  Requests,       \* the operations requested in this instance
  Failures,       \* may a statement fail, or the server die, in mid-handler
  MaxRequests     \* bound: requests served

Apps == UserApps \cup SysApps

\* A selector is the set of labels it requires.  Every node has the label
\* baetyl-node-name, for which its own name stands here.
Selectors == SUBSET (Labels \cup Nodes)

\* Mutants: a route registered without WrapperWithLock.
LockedOps_NoNodePut == {"CreateNode", "CreateApp", "UpdateApp"}
LockedOps_NoAppPut == {"CreateNode", "UpdateNode", "CreateApp"}

\* The routes registered with WrapperWithLock: POST and PUT, not DELETE, and
\* not the edge's reports.
LockedOps == {"CreateNode", "UpdateNode", "CreateApp", "UpdateApp"}

NodeOps == {"CreateNode", "UpdateNode", "DeleteNode", "Report"}
AppOps == {"CreateApp", "UpdateApp", "DeleteApp"}
Operations == NodeOps \cup AppOps

ASSUME ConstantsAssumption ==
  /\ UserSelectors \subseteq Selectors
  /\ UserApps \cap SysApps = {} /\ Labels \cap Nodes = {}
  /\ None \notin Nodes \cup Apps \cup Handlers
  /\ NamespaceLock \in BOOLEAN /\ Failures \in BOOLEAN
  /\ Requests \subseteq Operations
  /\ MaxRequests \in Nat

VARIABLES
  nodes, labels,                 \* baetyl_node: names present, their labels
  apps, sel, ver,                \* baetyl_application: names, selector, version
  shadows, torn, desire, dver,   \* baetyl_node_shadow: names, rows whose report
                                 \* is NULL, desire (0: absent), desire_version
  index,                         \* baetyl_index_application_node, as pairs
  clock,                         \* source of fresh resource versions
  lock,                          \* holder of "namespace_<ns>"
  pc, loc,                       \* of each handler
  started                        \* requests begun so far

nodeVars == <<nodes, labels>>
appVars == <<apps, sel, ver>>
shadowVars == <<shadows, torn, desire, dver>>
vars == <<nodeVars, appVars, shadowVars, index, clock, lock, pc, loc, started>>

\* An empty selector matches nothing: rematchApplicationsForNode skips it and
\* UpdateNodeAppVersion returns early; otherwise utils.IsLabelMatch decides.
Match(s, n, ls) == s # {} /\ s \subseteq ls \cup {n}

NoDesire == [a \in Apps |-> 0]

\* op: the operation; n, a: its node and application; ls: node labels sent;
\* sel, chg: selector sent, and whether anything else in the application
\* changed; old: selector read before; v: version held in memory; names:
\* nodes listed; got, shad, dv: shadows read (which, desire, desire_version);
\* want: desire computed; rows: index rows still to insert; sys, todo: the
\* system applications to delete, and those still to delete.
Blank == [op |-> "none", n |-> None, a |-> None, ls |-> {}, sel |-> {},
          chg |-> FALSE, old |-> {}, v |-> 0, names |-> {}, got |-> {},
          shad |-> [n \in Nodes |-> NoDesire], dv |-> [n \in Nodes |-> 0],
          want |-> NoDesire, rows |-> {}, sys |-> {}, todo |-> {}]

Init ==
  /\ nodes = {} /\ labels = [n \in Nodes |-> {}]
  /\ apps = {} /\ sel = [a \in Apps |-> {}] /\ ver = [a \in Apps |-> 0]
  /\ shadows = {} /\ torn = {} /\ desire = [n \in Nodes |-> NoDesire]
  /\ dver = [n \in Nodes |-> 0]
  /\ index = {} /\ clock = 0 /\ lock = None /\ started = 0
  /\ pc = [h \in Handlers |-> "idle"] /\ loc = [h \in Handlers |-> Blank]

-----------------------------------------------------------------------------
(* Control of a handler.                                                   *)

\* WrapperWithLock takes the lock of the namespace before a locked handler.
Begin(h, first, l) ==
  /\ pc[h] = "idle" /\ started < MaxRequests /\ l.op \in Requests
  /\ NamespaceLock /\ l.op \in LockedOps => lock = None
  /\ lock' = IF NamespaceLock /\ l.op \in LockedOps THEN h ELSE lock
  /\ started' = started + 1
  /\ pc' = [pc EXCEPT ![h] = first] /\ loc' = [loc EXCEPT ![h] = l]

Goto(h, next, l) ==
  /\ pc' = [pc EXCEPT ![h] = next] /\ loc' = [loc EXCEPT ![h] = l]
  /\ UNCHANGED <<lock, started>>

\* The handler returns, with or without an error; the deferred Unlock runs.
Finish(h) ==
  /\ pc' = [pc EXCEPT ![h] = "idle"] /\ loc' = [loc EXCEPT ![h] = Blank]
  /\ lock' = IF lock = h THEN None ELSE lock
  /\ UNCHANGED started

-----------------------------------------------------------------------------
(* NodeServiceImpl.Create, Update, Delete and the report of a node whose   *)
(* shadow is missing.                                                      *)

\* The INSERT of the node; its unique key makes the earlier existence check
\* redundant.  a is the random name GenApps will use.
CreateNode(h) ==
  \E n \in Nodes \ nodes, ls \in SUBSET Labels, a \in SysApps :
    /\ ver[a] = 0 /\ \A g \in Handlers : loc[g].a # a
    /\ Begin(h, "genapps", [Blank EXCEPT !.op = "CreateNode", !.n = n,
                                         !.ls = ls, !.a = a])
    /\ nodes' = nodes \cup {n} /\ labels' = [labels EXCEPT ![n] = ls]
    /\ UNCHANGED <<appVars, shadowVars, index, clock>>

\* GenApps: the system applications of the node, one standing for all of
\* them; their template selects the node by its name.
GenApps(h) ==
  LET l == loc[h] IN
  /\ pc[h] = "genapps"
  /\ apps' = apps \cup {l.a}
  /\ sel' = [sel EXCEPT ![l.a] = {l.n}]
  /\ ver' = [ver EXCEPT ![l.a] = clock + 1] /\ clock' = clock + 1
  /\ Goto(h, "listapps", l)
  /\ UNCHANGED <<nodeVars, shadowVars, index>>

\* Node.UpdateNode of the database, in one Transact; unknown node: an error.
UpdateNode(h) ==
  \E n \in nodes, ls \in SUBSET Labels :
    /\ Begin(h, "getshadow", [Blank EXCEPT !.op = "UpdateNode", !.n = n,
                                           !.ls = ls])
    /\ labels' = [labels EXCEPT ![n] = ls]
    /\ UNCHANGED <<nodes, appVars, shadowVars, index, clock>>

\* Mutant: the desire_version is not kept with the shadow read.
GetShadow_NoVersion(h) ==
  LET l == loc[h] IN
  /\ pc[h] = "getshadow"
  /\ IF l.n \in torn THEN Finish(h)
     ELSE Goto(h, "clearidx", [l EXCEPT !.got = shadows \cap {l.n},
                                        !.shad = desire])
  /\ UNCHANGED <<nodeVars, appVars, shadowVars, index, clock>>

\* Shadow.Get; scanning a NULL report into a string is an error.
GetShadow(h) ==
  LET l == loc[h] IN
  /\ pc[h] = "getshadow"
  /\ IF l.n \in torn THEN Finish(h)
     ELSE Goto(h, "clearidx", [l EXCEPT !.got = shadows \cap {l.n},
                                        !.shad = desire, !.dv = dver])
  /\ UNCHANGED <<nodeVars, appVars, shadowVars, index, clock>>

\* ListApplication and rematchApplicationsForNode.
ListApps(h) ==
  LET l == loc[h]
      want == [a \in Apps |-> IF a \in apps /\ Match(sel[a], l.n, l.ls)
                              THEN ver[a] ELSE 0] IN
  /\ pc[h] = "listapps"
  /\ Goto(h, IF l.op = "CreateNode" THEN "newshadow" ELSE "cas",
          [l EXCEPT !.want = want,
                    !.rows = {a \in Apps : want[a] # 0} \X {l.n}])
  /\ UNCHANGED <<nodeVars, appVars, shadowVars, index, clock>>

\* Shadow.Create: desire_version keeps its default ''.  The name taken: the
\* INSERT fails and the handler ends in a panic that gin's wrapper recovers.
NewShadow(h) ==
  LET l == loc[h] IN
  /\ pc[h] = "newshadow"
  /\ IF l.n \in shadows
     THEN Finish(h) /\ UNCHANGED shadowVars
     ELSE /\ shadows' = shadows \cup {l.n}
          /\ desire' = [desire EXCEPT ![l.n] = l.want]
          /\ dver' = [dver EXCEPT ![l.n] = 0]
          /\ UNCHANGED torn
          /\ IF l.op = "Report" THEN Finish(h) ELSE Goto(h, "idxdel", l)
  /\ UNCHANGED <<nodeVars, appVars, index, clock>>

\* Mutant: the UPDATE has no "AND desire_version=?".
Cas_NoVersionCheck(h) ==
  LET l == loc[h] IN
  /\ pc[h] = "cas"
  /\ IF l.got = {} \/ l.n \notin shadows
     THEN Finish(h) /\ UNCHANGED <<desire, dver, clock>>
     ELSE /\ desire' = [desire EXCEPT ![l.n] = l.want]
          /\ dver' = [dver EXCEPT ![l.n] = clock + 1] /\ clock' = clock + 1
          /\ Goto(h, "idxdel", l)
  /\ UNCHANGED <<nodeVars, appVars, shadows, torn, index>>

\* updateDesire: Merge replaces both application lists; the UPDATE demands
\* the desire_version read, and that it changed no row goes unnoticed.  With
\* no shadow read, shadow.Desire is a nil dereference.
Cas(h) ==
  LET l == loc[h] IN
  /\ pc[h] = "cas"
  /\ IF l.got = {}
     THEN Finish(h) /\ UNCHANGED <<desire, dver, clock>>
     ELSE /\ IF l.n \in shadows /\ dver[l.n] = l.dv[l.n]
             THEN /\ desire' = [desire EXCEPT ![l.n] = l.want]
                  /\ dver' = [dver EXCEPT ![l.n] = clock + 1]
                  /\ clock' = clock + 1
             ELSE UNCHANGED <<desire, dver, clock>>
          /\ Goto(h, "idxdel", l)
  /\ UNCHANGED <<nodeVars, appVars, shadows, torn, index>>

\* Mutant: the system applications of the node are forgotten.
SysAppsOf_None(d) == {}

SysAppsOf(d) == {a \in SysApps : d[a] # 0}

\* api.DeleteNode reads the node with its shadow first; a torn shadow is an
\* error, a missing one leaves node.Desire empty.
DeleteNode(h) ==
  \E n \in nodes \ torn :
    /\ Begin(h, "delnode", [Blank EXCEPT !.op = "DeleteNode", !.n = n,
                                         !.sys = SysAppsOf(desire[n]),
                                         !.todo = SysAppsOf(desire[n])])
    /\ UNCHANGED <<nodeVars, appVars, shadowVars, index, clock>>

DelNodeRow(h) ==
  /\ pc[h] = "delnode"
  /\ nodes' = nodes \ {loc[h].n} /\ labels' = [labels EXCEPT ![loc[h].n] = {}]
  /\ Goto(h, "delshadow", loc[h])
  /\ UNCHANGED <<appVars, shadowVars, index, clock>>

DelShadowRow(h) ==
  LET n == loc[h].n IN
  /\ pc[h] = "delshadow"
  /\ shadows' = shadows \ {n} /\ torn' = torn \ {n}
  /\ desire' = [desire EXCEPT ![n] = NoDesire]
  /\ dver' = [dver EXCEPT ![n] = 0]
  /\ Goto(h, "clearidx", loc[h])
  /\ UNCHANGED <<nodeVars, appVars, index, clock>>

\* deleteAllSysAppsOfNode, for the system applications of the desire read
\* first: delete every application, then the index rows of every one.
DelSysApp(h) ==
  LET l == loc[h] IN
  /\ pc[h] = "delsys"
  /\ \E a \in l.todo :
       /\ apps' = apps \ {a} /\ sel' = [sel EXCEPT ![a] = {}]
       /\ IF l.todo = {a} THEN Goto(h, "delsysidx", [l EXCEPT !.todo = l.sys])
          ELSE Goto(h, "delsys", [l EXCEPT !.todo = @ \ {a}])
  /\ UNCHANGED <<nodeVars, ver, shadowVars, index, clock>>

DelSysIndex(h) ==
  LET l == loc[h] IN
  /\ pc[h] = "delsysidx"
  /\ \E a \in l.todo :
       /\ index' = {r \in index : r[1] # a}
       /\ IF l.todo = {a} THEN Finish(h)
          ELSE Goto(h, "delsysidx", [l EXCEPT !.todo = @ \ {a}])
  /\ UNCHANGED <<nodeVars, appVars, shadowVars, clock>>

\* UpdateReport or UpdateInitReport of a node whose shadow is missing:
\* Shadow.Get found none, GetNode found the node; createShadow follows.
ReportNoShadow(h) ==
  \E n \in nodes \ shadows :
    /\ Begin(h, "newshadow", [Blank EXCEPT !.op = "Report", !.n = n])
    /\ UNCHANGED <<nodeVars, appVars, shadowVars, index, clock>>

-----------------------------------------------------------------------------
(* facade.CreateApp, UpdateApp, DeleteApp.                                 *)

CreateApp(h) ==
  \E a \in UserApps \ apps, s \in UserSelectors :
    /\ Begin(h, "listnodes", [Blank EXCEPT !.op = "CreateApp", !.a = a,
                                           !.sel = s, !.v = clock + 1])
    /\ apps' = apps \cup {a} /\ sel' = [sel EXCEPT ![a] = s]
    /\ ver' = [ver EXCEPT ![a] = clock + 1] /\ clock' = clock + 1
    /\ UNCHANGED <<nodeVars, shadowVars, index>>

\* api.UpdateApplication reads the old application.
UpdateApp(h) ==
  \E a \in UserApps \cap apps, s \in UserSelectors, c \in BOOLEAN :
    /\ Begin(h, "write", [Blank EXCEPT !.op = "UpdateApp", !.a = a,
                                       !.sel = s, !.chg = c, !.old = sel[a]])
    /\ UNCHANGED <<nodeVars, appVars, shadowVars, index, clock>>

\* Mutant: an equal application keeps its row but a fresh version is returned.
WriteApp_FreshVersion(h) ==
  LET l == loc[h]
      same == sel[l.a] = l.sel /\ ~l.chg IN
  /\ pc[h] = "write"
  /\ IF l.a \notin apps
     THEN Finish(h) /\ UNCHANGED <<sel, ver, clock>>
     ELSE /\ sel' = [sel EXCEPT ![l.a] = l.sel] /\ clock' = clock + 1
          /\ ver' = IF same THEN ver ELSE [ver EXCEPT ![l.a] = clock + 1]
          /\ Goto(h, IF l.old # l.sel THEN "listold" ELSE "listnodes",
                  [l EXCEPT !.v = clock + 1])
  /\ UNCHANGED <<nodeVars, apps, shadowVars, index>>

\* Application.UpdateApplication of the database, in one Transact: an equal
\* application keeps its version, a deleted one is an error.
WriteApp(h) ==
  LET l == loc[h]
      same == sel[l.a] = l.sel /\ ~l.chg
      v == IF same THEN ver[l.a] ELSE clock + 1 IN
  /\ pc[h] = "write"
  /\ IF l.a \notin apps
     THEN Finish(h) /\ UNCHANGED <<sel, ver, clock>>
     ELSE /\ sel' = [sel EXCEPT ![l.a] = l.sel]
          /\ ver' = [ver EXCEPT ![l.a] = v]
          /\ clock' = IF same THEN clock ELSE clock + 1
          /\ Goto(h, IF l.old # l.sel THEN "listold" ELSE "listnodes",
                  [l EXCEPT !.v = v])
  /\ UNCHANGED <<nodeVars, apps, shadowVars, index>>

DeleteApp(h) ==
  \E a \in UserApps \cap apps :
    /\ Begin(h, "delapp", [Blank EXCEPT !.op = "DeleteApp", !.a = a,
                                        !.old = sel[a]])
    /\ UNCHANGED <<nodeVars, appVars, shadowVars, index, clock>>

DelAppRow(h) ==
  LET l == loc[h] IN
  /\ pc[h] = "delapp"
  /\ apps' = apps \ {l.a} /\ sel' = [sel EXCEPT ![l.a] = {}]
  /\ Goto(h, "listold", l)
  /\ UNCHANGED <<nodeVars, ver, shadowVars, index, clock>>

\* DeleteNodeAppVersion ("listold", the old selector) and
\* UpdateNodeAppVersion ("listnodes", the new one): list the nodes.
ListNodes(h) ==
  LET l == loc[h]
      old == pc[h] = "listold"
      s == IF old THEN l.old ELSE l.sel IN
  /\ pc[h] \in {"listold", "listnodes"}
  /\ Goto(h, IF old THEN "readold" ELSE "readnew",
          [l EXCEPT !.names = {n \in nodes : Match(s, n, labels[n])}])
  /\ UNCHANGED <<nodeVars, appVars, shadowVars, index, clock>>

\* ListShadowByNames; one NULL report among the rows fails the query.
ReadShadows(h) ==
  LET l == loc[h] IN
  /\ pc[h] \in {"readold", "readnew"}
  /\ IF l.names \cap torn # {} THEN Finish(h)
     ELSE Goto(h, IF pc[h] = "readold" THEN "dropdesire" ELSE "setdesire",
               [l EXCEPT !.got = l.names \cap shadows,
                         !.shad = desire, !.dv = dver])
  /\ UNCHANGED <<nodeVars, appVars, shadowVars, index, clock>>

\* RefreshNodeDesireByApp or DeleteNodeDesireByApp on every shadow read, then
\* UpdateDesires: one INSERT ... ON DUPLICATE KEY UPDATE of all of them, which
\* looks at no desire_version, and inserts a shadow deleted meanwhile with a
\* NULL report.
UpdateDesires(h) ==
  LET l == loc[h]
      drop == pc[h] = "dropdesire"
      v == IF drop THEN 0 ELSE l.v IN
  /\ pc[h] \in {"dropdesire", "setdesire"}
  /\ desire' = [n \in Nodes |-> IF n \in l.got
                                THEN [l.shad[n] EXCEPT ![l.a] = v]
                                ELSE desire[n]]
  /\ dver' = [n \in Nodes |-> IF n \in l.got THEN clock + 1 ELSE dver[n]]
  /\ clock' = IF l.got = {} THEN clock ELSE clock + 1
  /\ shadows' = shadows \cup l.got /\ torn' = torn \cup (l.got \ shadows)
  /\ Goto(h, IF drop THEN "clearidx" ELSE "idxdel",
          [l EXCEPT !.rows = IF drop THEN {} ELSE {l.a} \X l.names])
  /\ UNCHANGED <<nodeVars, appVars, index>>

-----------------------------------------------------------------------------
(* RefreshIndex: delete the rows of the node (of the application), then    *)
(* insert the given ones, each statement on its own.                       *)

\* Mutant: the old rows stay.
Others_Kept(l) == index

Others(l) == IF l.op \in NodeOps THEN {r \in index : r[2] # l.n}
                                 ELSE {r \in index : r[1] # l.a}

\* RefreshIndex with no rows, in the middle of Update and Delete.
ClearIndex(h) ==
  LET l == loc[h] IN
  /\ pc[h] = "clearidx"
  /\ index' = Others(l)
  /\ CASE l.op = "UpdateNode" -> Goto(h, "listapps", l)
       [] l.op = "UpdateApp" -> Goto(h, "listnodes", l)
       [] l.op = "DeleteNode" /\ l.todo # {} -> Goto(h, "delsys", l)
       [] OTHER -> Finish(h)
  /\ UNCHANGED <<nodeVars, appVars, shadowVars, clock>>

IndexDelete(h) ==
  LET l == loc[h] IN
  /\ pc[h] = "idxdel"
  /\ index' = Others(l)
  /\ IF l.rows = {} THEN Finish(h) ELSE Goto(h, "idxins", l)
  /\ UNCHANGED <<nodeVars, appVars, shadowVars, clock>>

\* Mutant: the two key columns are exchanged.
IndexInsert_Swapped(h) ==
  LET l == loc[h] IN
  /\ pc[h] = "idxins"
  /\ \E r \in l.rows :
       /\ index' = index \cup {<<r[2], r[1]>>}
       /\ IF l.rows = {r} THEN Finish(h)
          ELSE Goto(h, "idxins", [l EXCEPT !.rows = @ \ {r}])
  /\ UNCHANGED <<nodeVars, appVars, shadowVars, clock>>

IndexInsert(h) ==
  LET l == loc[h] IN
  /\ pc[h] = "idxins"
  /\ \E r \in l.rows :
       /\ index' = index \cup {r}
       /\ IF l.rows = {r} THEN Finish(h)
          ELSE Goto(h, "idxins", [l EXCEPT !.rows = @ \ {r}])
  /\ UNCHANGED <<nodeVars, appVars, shadowVars, clock>>

-----------------------------------------------------------------------------
\* A statement returns an error, or the process dies and the lock expires:
\* the handler stops where it is, and Rollback of a nil transaction does
\* nothing.
Fail(h) ==
  /\ Failures /\ pc[h] # "idle"
  /\ Finish(h)
  /\ UNCHANGED <<nodeVars, appVars, shadowVars, index, clock>>

NodeStep(h) ==
  \/ CreateNode(h) \/ GenApps(h) \/ UpdateNode(h) \/ GetShadow(h)
  \/ ListApps(h) \/ NewShadow(h) \/ Cas(h) \/ DeleteNode(h) \/ DelNodeRow(h)
  \/ DelShadowRow(h) \/ DelSysApp(h) \/ DelSysIndex(h) \/ ReportNoShadow(h)

AppStep(h) ==
  \/ CreateApp(h) \/ UpdateApp(h) \/ WriteApp(h) \/ DeleteApp(h)
  \/ DelAppRow(h) \/ ListNodes(h) \/ ReadShadows(h) \/ UpdateDesires(h)

IndexStep(h) == ClearIndex(h) \/ IndexDelete(h) \/ IndexInsert(h)

Quiescent == \A h \in Handlers : pc[h] = "idle"

\* Between requests the server waits.
Idle == Quiescent /\ UNCHANGED vars

Next ==
  \/ \E h \in Handlers : NodeStep(h) \/ AppStep(h) \/ IndexStep(h) \/ Fail(h)
  \/ Idle

Spec == Init /\ [][Next]_vars
-----------------------------------------------------------------------------
(* Properties.                                                             *)

Local ==
  [op : Operations \cup {"none"}, n : Nodes \cup {None}, a : Apps \cup {None},
   ls : SUBSET Labels, sel : Selectors, chg : BOOLEAN, old : Selectors,
   v : Nat, names : SUBSET Nodes, got : SUBSET Nodes,
   shad : [Nodes -> [Apps -> Nat]], dv : [Nodes -> Nat], want : [Apps -> Nat],
   rows : SUBSET (Apps \X Nodes), sys : SUBSET SysApps, todo : SUBSET SysApps]

Points == {"idle", "genapps", "getshadow", "listapps", "newshadow", "cas",
           "delnode", "delshadow", "delsys", "delsysidx", "write", "delapp",
           "listold", "listnodes", "readold", "readnew", "dropdesire",
           "setdesire", "clearidx", "idxdel", "idxins"}

\* The variables have their types: rows refer to names of the namespace, the
\* lock to a handler, and an idle handler holds nothing.
TypeOK ==
  /\ nodes \subseteq Nodes /\ labels \in [Nodes -> SUBSET Labels]
  /\ apps \subseteq Apps /\ sel \in [Apps -> Selectors] /\ ver \in [Apps -> Nat]
  /\ shadows \subseteq Nodes /\ torn \subseteq shadows
  /\ desire \in [Nodes -> [Apps -> Nat]] /\ dver \in [Nodes -> Nat]
  /\ index \subseteq Apps \X Nodes /\ clock \in Nat
  /\ lock \in Handlers \cup {None} /\ started \in Nat
  /\ pc \in [Handlers -> Points] /\ loc \in [Handlers -> Local]

\* What the desire of node n should say of application a.
Wanted(n, a) ==
  IF n \in nodes /\ a \in apps /\ Match(sel[a], n, labels[n]) THEN ver[a] ELSE 0

\* When no request is being served, the desire of every node lists exactly the
\* current versions of the applications whose selector its labels match, and
\* no deleted node has left a shadow.
DesireAgrees ==
  Quiescent => /\ shadows = nodes
               /\ \A n \in Nodes, a \in Apps : desire[n][a] = Wanted(n, a)

\* When no request is being served, the index lists exactly the matching pairs.
IndexAgrees ==
  Quiescent => index = {r \in Apps \X Nodes : Wanted(r[2], r[1]) # 0}

\* No desire is ahead of the application it names, even for a moment and with
\* requests interleaved: versions reach a desire only from application rows.
NoPhantomVersion ==
  \A n \in Nodes, a \in Apps : desire[n][a] <= ver[a]

\* Under the lock, no step moves a node back to an older version of an
\* application it is told to run, whatever requests broke off before.
NoRollback ==
  [][\A n \in Nodes, a \in Apps :
       desire[n][a] # 0 /\ desire'[n][a] # 0 => desire'[n][a] >= desire[n][a]]_vars

\* Does the next step end the request of h by its last index statement?
Completes(h) == pc[h] \in {"idxdel", "idxins"} /\ pc'[h] = "idle" /\ ~Fail(h)

\* A PUT of a node that runs to its end repairs whatever requests that broke
\* off earlier had left: the node then agrees with the applications.
UpdateNodeRepairs ==
  [][\A h \in Handlers : loc[h].op = "UpdateNode" /\ Completes(h) =>
       LET n == loc[h].n IN
       /\ \A a \in Apps : desire[n][a] = Wanted(n, a)
       /\ \A a \in Apps : <<a, n>> \in index' <=> Wanted(n, a) # 0]_vars

\* A POST or PUT of an application that runs to its end has deployed the
\* version it wrote on every matching node that has a shadow.
AppReachesNodes ==
  [][\A h \in Handlers : loc[h].op \in {"CreateApp", "UpdateApp"} /\ Completes(h) =>
       LET a == loc[h].a IN
       \A n \in nodes : Match(sel[a], n, labels[n]) =>
         /\ n \in shadows => desire[n][a] = ver[a]
         /\ <<a, n>> \in index']_vars

\* However requests interleave, updateDesire overwrites a desire only if it is
\* the one it read. A shadow not written since its INSERT is excepted: its
\* version is '' like that of any new shadow, so one deleted and created again
\* is taken for the one read.
CasOverwritesWhatItRead ==
  [][\A h \in Handlers : Cas(h) /\ desire' # desire /\ dver[loc[h].n] # 0 =>
       desire[loc[h].n] = loc[h].shad[loc[h].n]]_vars

\* desire_version is there "for CAS" (scripts/sql/tables.sql): a desire is
\* written only over the version that was read with it.
DesireWrittenByCas ==
  [][\A h \in Handlers, n \in Nodes :
       UpdateDesires(h) /\ n \in loc[h].got => dver[n] = loc[h].dv[n]]_vars
=============================================================================
