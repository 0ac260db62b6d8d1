-------------------------- MODULE DeploymentSerial --------------------------
(***************************************************************************)
(* Requests served one at a time leave every desire and the index right.   *)
(* SerialInv (DeploymentInvariant) says, for each point of each handler,   *)
(* which rows are already right and which one the handler has still to     *)
(* write; each action takes one stage to the next.                         *)
(***************************************************************************)
EXTENDS DeploymentIndexStages, DeploymentAppStages, DeploymentDesireStages

LEMMA CreateNodeSerial ==
  ASSUME TypeInv, SerialInv, Serialised, NEW h \in Handlers, CreateNode(h)
  PROVE  SerialInv'
<1>1. PICK n \in Nodes \ nodes, ls \in SUBSET Labels, a \in SysApps :
        /\ ver[a] = 0
        /\ Begin(h, "genapps", [Blank EXCEPT !.op = "CreateNode", !.n = n, !.ls = ls, !.a = a])
        /\ nodes' = nodes \cup {n} /\ labels' = [labels EXCEPT ![n] = ls]
        /\ UNCHANGED <<appVars, shadowVars, index, clock>>
  BY Zenon DEF CreateNode
<1>. DEFINE m == [Blank EXCEPT !.op = "CreateNode", !.n = n, !.ls = ls, !.a = a]
<1>2. m.op = "CreateNode" /\ m.n = n /\ m.ls = ls /\ m.a = a
  BY DEF Blank
<1>. HIDE DEF m
<1>3. /\ Consistent /\ Exclusive' /\ pc'[h] = "genapps" /\ loc'[h] = m
      /\ \A g \in Handlers \ {h} : pc'[g] = "idle"
  BY <1>1, BeginAlone DEF m
<1>4. ExceptNode(n)
  BY <1>3 DEF Consistent, ExceptNode
<1>5. ExceptNode(n)'
  BY <1>1, <1>4, ExceptNodeKept DEF TypeInv, TypeOK, shadowVars
<1>6. n \notin shadows' /\ a \notin apps'
  BY <1>1, <1>3 DEF Consistent, shadowVars, appVars, SerialInv, RowsInv
<1>7. PutNodeStage(pc[h], loc[h])'
  BY <1>1, <1>2, <1>3, <1>5, <1>6 DEF PutNodeStage, TypeInv, TypeOK
<1>8. RowsInv'
  BY <1>1, RowsKept DEF SerialInv, shadowVars
<1>. QED  BY <1>2, <1>3, <1>7, <1>8, PutNodeReached

LEMMA GenAppsSerial ==
  ASSUME TypeInv, SerialInv, Serialised, NEW h \in Handlers, GenApps(h)
  PROVE  SerialInv'
<1>0. PICK l : l = loc[h]
  BY Zenon
<1>1. /\ l \in Local /\ l.op = "CreateNode" /\ l.n \in Nodes /\ l.a \in SysApps /\ l.a \in Apps
      /\ PutNodeStage("genapps", l) /\ RowsInv
  BY <1>0, HandlerFacts DEF GenApps, Role, NodeOps, Apps
<1>2. /\ apps' = apps \cup {l.a} /\ sel' = [sel EXCEPT ![l.a] = {l.n}]
      /\ ver' = [ver EXCEPT ![l.a] = clock + 1]
      /\ UNCHANGED <<nodes, labels, shadows, torn, desire, dver, index>>
      /\ pc[h] = "genapps" /\ Goto(h, "listapps", l)
  BY <1>0 DEF GenApps, nodeVars, shadowVars
<1>3. /\ Exclusive' /\ pc'[h] = "listapps" /\ loc'[h] = l
      /\ \A g \in Handlers \ {h} : pc'[g] = "idle"
  BY <1>2, GotoAlone
<1>4. /\ ExceptNode(l.n) /\ l.n \in nodes /\ l.n \notin shadows /\ labels[l.n] = l.ls
      /\ l.a \notin apps
  BY <1>1 DEF PutNodeStage
<1>5. RowsInv'
  <2>1. \A a \in apps' : ver'[a] > 0
    BY <1>1, <1>2 DEF RowsInv, TypeInv, TypeOK
  <2>2. \A a \in SysApps \cap apps' : \E m \in Nodes : sel'[a] = {m}
    BY <1>1, <1>2, Zenon DEF RowsInv, TypeInv, TypeOK
  <2>. QED  BY <1>1, <1>2, <2>1, <2>2 DEF RowsInv
<1>6. ASSUME NEW m \in Nodes \ {l.n}, NEW a \in Apps
      PROVE  Right(m, a)' /\ Listed(m, a)'
  <2>1. Right(m, a) /\ Listed(m, a)
    BY <1>4 DEF ExceptNode
  <2>2. Wanted(m, a)' = Wanted(m, a)
    <3>1. CASE a = l.a
      <4>1. l.n \notin labels[m] \cup {m}
        BY <1>1, ConstantsAssumption DEF TypeInv, TypeOK
      <4>2. sel'[a] = {l.n}
        BY <1>1, <1>2, <3>1 DEF TypeInv, TypeOK
      <4>. QED  BY <1>2, <1>4, <3>1, <4>1, <4>2 DEF Wanted, Match
    <3>2. CASE a # l.a
      BY <1>2, <3>2 DEF Wanted, TypeInv, TypeOK
    <3>. QED  BY <3>1, <3>2
  <2>. QED  BY <1>2, <2>1, <2>2 DEF Right, Listed
<1>7. ExceptNode(l.n)'
  BY <1>2, <1>4, <1>6 DEF ExceptNode
<1>8. PutNodeStage(pc[h], loc[h])'
  BY <1>1, <1>2, <1>3, <1>4, <1>7 DEF PutNodeStage
<1>. QED  BY <1>1, <1>3, <1>5, <1>8, PutNodeReached

LEMMA UpdateNodeSerial ==
  ASSUME TypeInv, SerialInv, Serialised, NEW h \in Handlers, UpdateNode(h)
  PROVE  SerialInv'
<1>1. PICK n \in nodes, ls \in SUBSET Labels :
        /\ Begin(h, "getshadow", [Blank EXCEPT !.op = "UpdateNode", !.n = n, !.ls = ls])
        /\ labels' = [labels EXCEPT ![n] = ls]
        /\ UNCHANGED <<nodes, appVars, shadowVars, index, clock>>
  BY Zenon DEF UpdateNode
<1>. DEFINE m == [Blank EXCEPT !.op = "UpdateNode", !.n = n, !.ls = ls]
<1>2. m.op = "UpdateNode" /\ m.n = n /\ m.ls = ls /\ n \in Nodes
  BY DEF Blank, TypeInv, TypeOK
<1>. HIDE DEF m
<1>3. /\ Consistent /\ Exclusive' /\ pc'[h] = "getshadow" /\ loc'[h] = m
      /\ \A g \in Handlers \ {h} : pc'[g] = "idle"
  BY <1>1, BeginAlone DEF m
<1>4. ExceptNode(n)
  BY <1>3 DEF Consistent, ExceptNode
<1>5. ExceptNode(n)'
  BY <1>1, <1>2, <1>4, ExceptNodeKept DEF TypeInv, TypeOK, shadowVars
<1>6. n \in shadows' /\ n \in nodes' /\ labels'[n] = ls
  BY <1>1, <1>2, <1>3 DEF Consistent, shadowVars, TypeInv, TypeOK
<1>7. PutNodeStage(pc[h], loc[h])'
  BY <1>2, <1>3, <1>5, <1>6 DEF PutNodeStage
<1>8. RowsInv'
  BY <1>1, RowsKept DEF SerialInv, shadowVars
<1>. QED  BY <1>2, <1>3, <1>7, <1>8, PutNodeReached

LEMMA GetShadowSerial ==
  ASSUME TypeInv, SerialInv, Serialised, NEW h \in Handlers, GetShadow(h)
  PROVE  SerialInv'
<1>0. PICK l : l = loc[h]
  BY Zenon
<1>1. /\ l \in Local /\ l.op = "UpdateNode" /\ l.n \in Nodes
      /\ PutNodeStage("getshadow", l) /\ RowsInv
  BY <1>0, HandlerFacts DEF GetShadow, Role, NodeOps
<1>2. PICK m : m = [l EXCEPT !.got = shadows \cap {l.n}, !.shad = desire, !.dv = dver]
  BY Zenon
<1>3. /\ pc[h] = "getshadow" /\ Goto(h, "clearidx", m)
      /\ UNCHANGED <<nodes, labels, appVars, shadows, torn, desire, dver, index>>
  BY <1>0, <1>1, <1>2 DEF GetShadow, RowsInv, nodeVars, shadowVars
<1>4. /\ m.op = l.op /\ m.n = l.n /\ m.ls = l.ls /\ m.dv = dver
      /\ m.got = shadows \cap {l.n}
  BY <1>1, <1>2 DEF Local
<1>5. /\ Exclusive' /\ pc'[h] = "clearidx" /\ loc'[h] = m
      /\ \A g \in Handlers \ {h} : pc'[g] = "idle"
  BY <1>3, GotoAlone
<1>6. ExceptNode(l.n) /\ l.n \in nodes /\ l.n \in shadows /\ labels[l.n] = l.ls
  BY <1>1 DEF PutNodeStage
<1>7. ExceptNode(l.n)'
  BY <1>1, <1>3, <1>6, ExceptNodeKept
<1>8. m.got = {l.n}
  BY <1>4, <1>6
<1>9. PutNodeStage(pc[h], loc[h])'
  BY <1>1, <1>3, <1>4, <1>5, <1>6, <1>7, <1>8 DEF PutNodeStage
<1>10. RowsInv'
  BY <1>1, <1>3, RowsKept
<1>. QED  BY <1>1, <1>4, <1>5, <1>9, <1>10, PutNodeReached

LEMMA ListAppsSerial ==
  ASSUME TypeInv, SerialInv, Serialised, NEW h \in Handlers, ListApps(h)
  PROVE  SerialInv'
<1>0. PICK l : l = loc[h]
  BY Zenon
<1>1. /\ l \in Local /\ l.op \in {"CreateNode", "UpdateNode"} /\ l.n \in Nodes
      /\ PutNodeStage("listapps", l) /\ RowsInv
  BY <1>0, HandlerFacts DEF ListApps, Role, NodeOps
<1>2. PICK want : want = [a \in Apps |-> IF a \in apps /\ Match(sel[a], l.n, l.ls)
                                         THEN ver[a] ELSE 0]
  BY Zenon
<1>3. PICK m : m = [l EXCEPT !.want = want,
                             !.rows = {a \in Apps : want[a] # 0} \X {l.n}]
  BY Zenon
<1>. DEFINE next == IF l.op = "CreateNode" THEN "newshadow" ELSE "cas"
<1>4. /\ pc[h] = "listapps" /\ Goto(h, next, m)
      /\ UNCHANGED <<nodes, labels, appVars, shadows, torn, desire, dver, index>>
  BY <1>0, <1>2, <1>3, Zenon DEF ListApps, nodeVars, shadowVars
<1>5. /\ ExceptNode(l.n) /\ l.n \in nodes /\ labels[l.n] = l.ls
      /\ l.n \in shadows <=> l.op # "CreateNode"
      /\ l.op = "UpdateNode" => l.got = {l.n} /\ l.dv[l.n] = dver[l.n]
  BY <1>1 DEF PutNodeStage
<1>6. \A a \in Apps : want[a] = Wanted(l.n, a) /\ Wanted(l.n, a)' = Wanted(l.n, a)
  BY <1>2, <1>4, <1>5 DEF Wanted, appVars
<1>7. /\ m.op = l.op /\ m.n = l.n /\ m.ls = l.ls /\ m.dv = l.dv /\ m.got = l.got
      /\ m.want = want /\ m.rows = {a \in Apps : want[a] # 0} \X {l.n}
  BY <1>1, <1>3 DEF Local
<1>8. /\ Exclusive' /\ pc'[h] = next /\ loc'[h] = m
      /\ \A g \in Handlers \ {h} : pc'[g] = "idle"
  BY <1>4, GotoAlone
<1>9. ExceptNode(l.n)'
  BY <1>1, <1>4, <1>5, ExceptNodeKept
<1>10. PutNodeStage(pc[h], loc[h])'
  <2>1. /\ m.rows = {a \in Apps : Wanted(l.n, a)' # 0} \X {l.n}
        /\ \A a \in Apps : m.want[a] = Wanted(l.n, a)'
    BY <1>6, <1>7
  <2>2. /\ l.n \in nodes' /\ labels'[l.n] = l.ls /\ (l.n \in shadows' <=> l.op # "CreateNode")
        /\ dver' = dver
    BY <1>4, <1>5
  <2>3. CASE l.op = "CreateNode"
    BY <1>7, <1>8, <1>9, <2>1, <2>2, <2>3 DEF PutNodeStage
  <2>4. CASE l.op = "UpdateNode"
    BY <1>5, <1>7, <1>8, <1>9, <2>1, <2>2, <2>4 DEF PutNodeStage
  <2>. QED  BY <1>1, <2>3, <2>4
<1>11. RowsInv'
  BY <1>1, <1>4, RowsKept
<1>. QED  BY <1>1, <1>7, <1>8, <1>10, <1>11, PutNodeReached

LEMMA CasSerial ==
  ASSUME TypeInv, SerialInv, Serialised, NEW h \in Handlers, Cas(h)
  PROVE  SerialInv'
<1>0. PICK l : l = loc[h]
  BY Zenon
<1>1. /\ l \in Local /\ l.op = "UpdateNode" /\ l.n \in Nodes
      /\ PutNodeStage("cas", l) /\ RowsInv
  BY <1>0, HandlerFacts DEF Cas, Role, NodeOps
<1>2. /\ ExceptNode(l.n) /\ l.n \in nodes /\ labels[l.n] = l.ls /\ l.n \in shadows
      /\ l.got = {l.n} /\ l.dv[l.n] = dver[l.n]
      /\ \A a \in Apps : l.want[a] = Wanted(l.n, a)
      /\ l.rows = {a \in Apps : Wanted(l.n, a) # 0} \X {l.n}
  BY <1>1 DEF PutNodeStage
<1>a. l.n \in shadows /\ dver[l.n] = l.dv[l.n] /\ l.got # {}
  BY <1>2
<1>3. /\ pc[h] = "cas" /\ Goto(h, "idxdel", l)
      /\ desire' = [desire EXCEPT ![l.n] = l.want]
      /\ UNCHANGED <<nodes, labels, appVars, shadows, torn, index>>
  BY <1>0, <1>a DEF Cas, nodeVars
<1>4. /\ Exclusive' /\ pc'[h] = "idxdel" /\ loc'[h] = l
      /\ \A g \in Handlers \ {h} : pc'[g] = "idle"
  BY <1>3, GotoAlone
<1>5. ExceptNode(l.n)'
  BY <1>1, <1>2, <1>3, ExceptNodeKept DEF TypeInv, TypeOK
<1>6. \A a \in Apps : Wanted(l.n, a)' = Wanted(l.n, a)
  BY <1>3 DEF Wanted, appVars
<1>7. \A a \in Apps : Right(l.n, a)'
  BY <1>1, <1>2, <1>3, <1>6 DEF Right, TypeInv, TypeOK
<1>8. /\ l.rows = {a \in Apps : Wanted(l.n, a)' # 0} \X {l.n}
      /\ l.n \in nodes' /\ labels'[l.n] = l.ls /\ l.n \in shadows'
  BY <1>2, <1>3, <1>6
<1>9. PutNodeStage(pc[h], loc[h])'
  BY <1>1, <1>4, <1>5, <1>7, <1>8 DEF PutNodeStage
<1>10. RowsInv'
  BY <1>1, <1>3, RowsKept
<1>. QED  BY <1>1, <1>4, <1>9, <1>10, PutNodeReached

LEMMA SerialStep ==
  ASSUME Serialised
  PROVE  TypeInv /\ SerialInv /\ [Next]_vars => SerialInv'
<1>. SUFFICES ASSUME TypeInv, SerialInv, [Next]_vars PROVE SerialInv'
  OBVIOUS
<1>0. TypeInv'
  BY TypeStep
<1>1. CASE UNCHANGED vars
  <2>1. UNCHANGED <<nodes, labels, apps, sel, ver, clock, shadows, torn, desire, dver, index, pc, loc, lock>>
    BY <1>1 DEF vars, nodeVars, appVars, shadowVars
  <2>2. Exclusive' /\ RowsInv'
    BY <2>1 DEF SerialInv, Exclusive, RowsInv
  <2>3. \A n \in Nodes, a \in Apps : /\ Wanted(n, a)' = Wanted(n, a)
                                    /\ Right(n, a)' = Right(n, a) /\ Listed(n, a)' = Listed(n, a)
    BY <2>1 DEF Wanted, Right, Listed
  <2>4. Quiescent' => Consistent'
    BY <2>1, <2>3 DEF SerialInv, Quiescent, Consistent
  <2>5. ASSUME NEW h \in Handlers, pc[h] # "idle" PROVE Stage(pc[h], loc[h])'
    <3>1. PICK p, l : p = pc[h] /\ l = loc[h]
      BY Zenon
    <3>2. Stage(p, l)
      BY <2>5, <3>1 DEF SerialInv
    <3>3. PutNodeStage(p, l) => PutNodeStage(p, l)'
      <4>1. ExceptNode(l.n) => ExceptNode(l.n)'
        BY <2>1 DEF ExceptNode, Right, Listed, Wanted
      <4>. QED  BY <2>1, <4>1 DEF PutNodeStage, Right, Wanted
    <3>4. DeleteNodeStage(p, l) => DeleteNodeStage(p, l)'
      <4>1. ExceptNode(l.n) => ExceptNode(l.n)'
        BY <2>1 DEF ExceptNode, Right, Listed, Wanted
      <4>. QED  BY <2>1, <4>1 DEF DeleteNodeStage, Right, Listed, Wanted
    <3>5. AppStage(p, l) => AppStage(p, l)'
      <4>1. ExceptApp(l.a) => ExceptApp(l.a)'
        BY <2>1 DEF ExceptApp, Right, Listed, Wanted
      <4>2. AppRow(p, l) => AppRow(p, l)'
        BY <2>1 DEF AppRow
      <4>3. AppDesire(p, l) => AppDesire(p, l)'
        BY <2>1 DEF AppDesire, Right, Wanted
      <4>4. AppIndex(p, l) => AppIndex(p, l)'
        BY <2>1 DEF AppIndex, Listed, Wanted
      <4>. QED  BY <4>1, <4>2, <4>3, <4>4, Zenon DEF AppStage
    <3>6. Stage(p, l)'
      BY <3>2, <3>3, <3>4, <3>5, Zenon DEF Stage
    <3>. QED  BY <2>1, <3>1, <3>6
  <2>. QED  BY <2>1, <2>2, <2>4, <2>5 DEF SerialInv
<1>2. ASSUME NEW h \in Handlers, NodeStep(h) PROVE SerialInv'
  BY <1>0, <1>2, CreateNodeSerial, GenAppsSerial, UpdateNodeSerial, GetShadowSerial,
     ListAppsSerial, NewShadowSerial, CasSerial, DeleteNodeSerial, DelNodeRowSerial,
     DelShadowRowSerial, DelSysAppSerial, DelSysIndexSerial, ReportNoShadowSerial DEF NodeStep
<1>3. ASSUME NEW h \in Handlers, AppStep(h) PROVE SerialInv'
  BY <1>3, CreateAppSerial, UpdateAppSerial, WriteAppSerial, DeleteAppSerial,
     DelAppRowSerial, ListNodesSerial, ReadShadowsSerial, UpdateDesiresSerial DEF AppStep
<1>4. ASSUME NEW h \in Handlers, IndexStep(h) PROVE SerialInv'
  BY <1>4, ClearIndexSerial, IndexDeleteSerial, IndexInsertSerial DEF IndexStep
<1>5. ASSUME NEW h \in Handlers PROVE ~Fail(h)
  BY DEF Fail, Serialised
<1>. QED  BY <1>1, <1>2, <1>3, <1>4, <1>5 DEF Next, Idle

\* If requests are served one at a time and none breaks off, then whenever none
\* is being served every desire lists exactly the applications whose selector
\* matches the labels of the node, in their current version, and the index
\* lists exactly these pairs: for any set of nodes, labels, applications,
\* selectors, and any number of requests.
THEOREM SerialAgrees ==
  ASSUME Serialised
  PROVE  Spec => [](DesireAgrees /\ IndexAgrees)
<1>1. Init => SerialInv
  <2>. SUFFICES ASSUME Init PROVE SerialInv
    OBVIOUS
  <2>1. Exclusive /\ RowsInv
    BY SMTT(30) DEF Init, Exclusive, RowsInv
  <2>2. Consistent
    BY DEF Init, Consistent, Right, Listed, Wanted, NoDesire
  <2>. QED  BY <2>1, <2>2 DEF Init, SerialInv
<1>2. TypeInv /\ SerialInv => DesireAgrees /\ IndexAgrees
  <2>. SUFFICES ASSUME TypeInv, SerialInv, Quiescent
                PROVE  /\ shadows = nodes
                       /\ \A n \in Nodes, a \in Apps : desire[n][a] = Wanted(n, a)
                       /\ index = {r \in Apps \X Nodes : Wanted(r[2], r[1]) # 0}
    BY DEF DesireAgrees, IndexAgrees
  <2>1. Consistent
    BY DEF SerialInv
  <2>2. index \subseteq Apps \X Nodes
    BY DEF TypeInv, TypeOK
  <2>3. \A r \in Apps \X Nodes : r \in index <=> Wanted(r[2], r[1]) # 0
    BY <2>1 DEF Consistent, Listed
  <2>. QED  BY <2>1, <2>2, <2>3 DEF Consistent, Right
<1>3. TypeInv /\ SerialInv /\ [Next]_vars => SerialInv'
  BY SerialStep
<1>. QED  BY <1>1, <1>2, <1>3, TypeInit, TypeStep, PTL DEF Spec
=============================================================================
