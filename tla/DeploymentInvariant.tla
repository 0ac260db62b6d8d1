------------------------- MODULE DeploymentInvariant -------------------------
(***************************************************************************)
(* The inductive invariants behind the theorems of DeploymentProofs and    *)
(* DeploymentSerial.  They say what is true of the database and of the     *)
(* local variables of a handler at each of its points.                     *)
(***************************************************************************)
EXTENDS Deployment

\* Which operation can be at point p, and what its arguments are.
Role(p, l) ==
  /\ p = "idle" => l = Blank
  /\ p = "genapps" => l.op = "CreateNode"
  /\ p \in {"getshadow", "cas"} => l.op = "UpdateNode"
  /\ p = "listapps" => l.op \in {"CreateNode", "UpdateNode"}
  /\ p = "newshadow" => l.op \in {"CreateNode", "Report"}
  /\ p \in {"delnode", "delshadow", "delsys", "delsysidx"} => l.op = "DeleteNode"
  /\ p = "write" => l.op = "UpdateApp"
  /\ p = "delapp" => l.op = "DeleteApp"
  /\ p \in {"listold", "readold", "dropdesire"} => l.op \in {"UpdateApp", "DeleteApp"}
  /\ p \in {"listnodes", "readnew", "setdesire"} => l.op \in {"CreateApp", "UpdateApp"}
  /\ p = "clearidx" => l.op \in {"UpdateNode", "DeleteNode", "UpdateApp", "DeleteApp"}
  /\ p \in {"idxdel", "idxins"} => l.op \in LockedOps
  /\ p # "idle" => l.op # "none"
  /\ l.op \in NodeOps => l.n \in Nodes
  /\ l.op \in AppOps => l.a \in UserApps
  /\ l.op = "CreateNode" => l.a \in SysApps

TypeInv == TypeOK /\ \A h \in Handlers : Role(pc[h], loc[h])

\* No version held in memory is ahead of the application rows.
Bound(l) ==
  /\ \A n \in Nodes, a \in Apps : l.shad[n][a] <= ver[a]
  /\ \A a \in Apps : l.want[a] <= ver[a]
  /\ l.op \in AppOps => l.v <= ver[l.a]

VersionInv ==
  /\ \A a \in Apps : ver[a] <= clock
  /\ NoPhantomVersion
  /\ \A h \in Handlers : Bound(loc[h])

-----------------------------------------------------------------------------
\* Requests are served one at a time (every requested operation takes a lock
\* that excludes, or there is one handler) and none breaks off.
Serialised ==
  /\ ~Failures
  /\ \/ NamespaceLock /\ Requests \subseteq LockedOps
     \/ \A g, h \in Handlers : g = h

Right(n, a) == desire[n][a] = Wanted(n, a)

Listed(n, a) == <<a, n>> \in index <=> Wanted(n, a) # 0

\* Everything agrees, but for what concerns node n (application a).
ExceptNode(n) ==
  /\ shadows \ {n} = nodes \ {n}
  /\ \A m \in Nodes \ {n}, a \in Apps : Right(m, a) /\ Listed(m, a)

ExceptApp(a) ==
  /\ shadows = nodes
  /\ \A m \in Nodes, b \in Apps \ {a} : Right(m, b) /\ Listed(m, b)

\* CreateNode and UpdateNode at point p.
PutNodeStage(p, l) ==
  /\ ExceptNode(l.n) /\ l.n \in nodes /\ labels[l.n] = l.ls
  /\ l.n \in shadows <=> p \notin {"genapps", "newshadow"} /\ ~(p = "listapps" /\ l.op = "CreateNode")
  /\ p = "genapps" => l.a \notin apps
  /\ l.op = "UpdateNode" /\ p \in {"clearidx", "listapps", "cas"} =>
       l.got = {l.n} /\ l.dv[l.n] = dver[l.n]
  /\ p \in {"newshadow", "cas"} => \A a \in Apps : l.want[a] = Wanted(l.n, a)
  /\ p \in {"idxdel", "idxins"} => \A a \in Apps : Right(l.n, a)
  /\ p \in {"newshadow", "cas", "idxdel"} =>
       l.rows = {a \in Apps : Wanted(l.n, a) # 0} \X {l.n}
  /\ p = "idxins" =>
       /\ l.rows \subseteq Apps \X {l.n}
       /\ \A a \in Apps : <<a, l.n>> \in index \cup l.rows <=> Wanted(l.n, a) # 0

DeleteNodeStage(p, l) ==
  /\ ExceptNode(l.n) /\ l.todo \subseteq l.sys
  /\ l.n \in nodes <=> p = "delnode"
  /\ l.n \in shadows <=> p \in {"delnode", "delshadow"}
  /\ \A a \in l.sys, m \in Nodes \ {l.n} : Wanted(m, a) = 0
  /\ p # "delshadow" => \A a \in Apps : Right(l.n, a)
  /\ p \notin {"delshadow", "clearidx"} => \A a \in Apps : Listed(l.n, a)

\* CreateApp, UpdateApp and DeleteApp at point p: the application row,
AppRow(p, l) ==
  /\ l.a \in apps <=> l.op # "DeleteApp" \/ p = "delapp"
  /\ p \in {"write", "delapp"} => l.old = sel[l.a]
  /\ p # "write" /\ l.op # "DeleteApp" => sel[l.a] = l.sel /\ ver[l.a] = l.v

\* the nodes that were listed and their desires,
AppDesire(p, l) ==
  /\ p \in {"write", "delapp", "idxdel", "idxins"} => \A m \in Nodes : Right(m, l.a)
  /\ p \in {"listold", "readold", "dropdesire"} =>
       \A m \in Nodes : desire[m][l.a] # 0 => m \in nodes /\ Match(l.old, m, labels[m])
  /\ p \in {"listnodes", "readnew", "setdesire"} =>
       \A m \in Nodes : desire[m][l.a] # 0 => m \in nodes /\ Match(l.sel, m, labels[m])
  /\ p \in {"readold", "dropdesire"} =>
       l.names = {m \in nodes : Match(l.old, m, labels[m])}
  /\ p \in {"readnew", "setdesire"} =>
       l.names = {m \in nodes : Match(l.sel, m, labels[m])}
  /\ p \in {"dropdesire", "setdesire"} => l.got = l.names /\ l.shad = desire
  /\ p = "clearidx" => \A m \in Nodes : desire[m][l.a] = 0

\* and the index.
AppIndex(p, l) ==
  /\ p \in {"write", "delapp"} => \A m \in Nodes : Listed(m, l.a)
  /\ p = "idxdel" => l.rows = {l.a} \X {m \in Nodes : Wanted(m, l.a) # 0}
  /\ p = "idxins" =>
       /\ l.rows \subseteq {l.a} \X Nodes
       /\ \A m \in Nodes : <<l.a, m>> \in index \cup l.rows <=> Wanted(m, l.a) # 0

AppStage(p, l) == ExceptApp(l.a) /\ AppRow(p, l) /\ AppDesire(p, l) /\ AppIndex(p, l)

Stage(p, l) ==
  /\ l.op # "Report"
  /\ l.op \in {"CreateNode", "UpdateNode"} => PutNodeStage(p, l)
  /\ l.op = "DeleteNode" => DeleteNodeStage(p, l)
  /\ l.op \in AppOps => AppStage(p, l)

\* What the rows always satisfy when requests are served one at a time.
RowsInv ==
  /\ torn = {}
  /\ \A a \in apps : ver[a] > 0
  /\ \A a \in SysApps \cap apps : \E m \in Nodes : sel[a] = {m}

Exclusive ==
  /\ \A g, h \in Handlers : pc[g] # "idle" /\ pc[h] # "idle" => g = h
  /\ NamespaceLock /\ Requests \subseteq LockedOps =>
       \A h \in Handlers : pc[h] # "idle" => lock = h

Consistent ==
  /\ shadows = nodes
  /\ \A n \in Nodes, a \in Apps : Right(n, a) /\ Listed(n, a)

\* One request at a time, and the database as far as its handler has come:
\* the invariant from which DesireAgrees and IndexAgrees follow.
SerialInv ==
  /\ Exclusive /\ RowsInv
  /\ Quiescent => Consistent
  /\ \A h \in Handlers : pc[h] # "idle" => Stage(pc[h], loc[h])
=============================================================================
