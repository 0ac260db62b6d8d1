-------------------------- MODULE DeploymentProofs --------------------------
(***************************************************************************)
(* What holds of Deployment however requests interleave and break off:     *)
(* type correctness, and that no desire is ahead of its application.       *)
(***************************************************************************)
EXTENDS DeploymentInvariant, TLAPS

\* The part of TypeInv about handlers.
Control == /\ pc \in [Handlers -> Points] /\ loc \in [Handlers -> Local]
           /\ lock \in Handlers \cup {None} /\ started \in Nat
           /\ \A h \in Handlers : Role(pc[h], loc[h])

LEMMA BlankType == Blank \in Local /\ Role("idle", Blank)
  BY ConstantsAssumption, Zenon DEF Blank, Local, NoDesire, Selectors, Apps, Role, NodeOps, AppOps

LEMMA BeginType ==
  ASSUME TypeInv, NEW h \in Handlers, NEW first \in Points, NEW l \in Local,
         Role(first, l), Begin(h, first, l)
  PROVE  Control'
  BY DEF TypeInv, TypeOK, Begin, Control

LEMMA GotoType ==
  ASSUME TypeInv, NEW h \in Handlers, NEW next \in Points, NEW l \in Local,
         Role(next, l), Goto(h, next, l)
  PROVE  Control'
  BY DEF TypeInv, TypeOK, Goto, Control

LEMMA FinishType ==
  ASSUME TypeInv, NEW h \in Handlers, Finish(h)
  PROVE  Control'
<1>1. "idle" \in Points
  BY DEF Points
<1>. QED  BY <1>1, BlankType DEF TypeInv, TypeOK, Finish, Control

LEMMA CreateNodeType ==
  ASSUME TypeInv, NEW h \in Handlers, CreateNode(h)
  PROVE  TypeInv'
<1>1. PICK n \in Nodes \ nodes, ls \in SUBSET Labels, a \in SysApps :
        /\ Begin(h, "genapps", [Blank EXCEPT !.op = "CreateNode", !.n = n, !.ls = ls, !.a = a])
        /\ nodes' = nodes \cup {n} /\ labels' = [labels EXCEPT ![n] = ls]
        /\ UNCHANGED <<appVars, shadowVars, index, clock>>
  BY Zenon DEF CreateNode
<1>. DEFINE l == [Blank EXCEPT !.op = "CreateNode", !.n = n, !.ls = ls, !.a = a]
<1>2. l \in Local
  BY BlankType, Zenon DEF Local, Operations, NodeOps, Apps
<1>3. l.op = "CreateNode" /\ l.n = n /\ l.a = a
  BY BlankType DEF Local, TypeInv, TypeOK
<1>4. "genapps" \in Points /\ Role("genapps", l)
  BY <1>3 DEF Role, Points, NodeOps, AppOps, LockedOps
<1>. HIDE DEF l
<1>5. Control'
  BY <1>1, <1>2, <1>4, BeginType DEF l
<1>. QED  BY <1>1, <1>5 DEF TypeInv, TypeOK, Control, nodeVars, appVars, shadowVars

LEMMA UpdateNodeType ==
  ASSUME TypeInv, NEW h \in Handlers, UpdateNode(h)
  PROVE  TypeInv'
<1>1. PICK n \in nodes, ls \in SUBSET Labels :
        /\ Begin(h, "getshadow", [Blank EXCEPT !.op = "UpdateNode", !.n = n, !.ls = ls])
        /\ labels' = [labels EXCEPT ![n] = ls]
        /\ UNCHANGED <<nodes, appVars, shadowVars, index, clock>>
  BY Zenon DEF UpdateNode
<1>. DEFINE l == [Blank EXCEPT !.op = "UpdateNode", !.n = n, !.ls = ls]
<1>2. l \in Local
  BY BlankType, Zenon DEF Local, Operations, NodeOps, TypeInv, TypeOK
<1>3. l.op = "UpdateNode" /\ l.n = n /\ n \in Nodes
  BY BlankType DEF Local, TypeInv, TypeOK
<1>4. "getshadow" \in Points /\ Role("getshadow", l)
  BY <1>3 DEF Role, Points, NodeOps, AppOps, LockedOps
<1>. HIDE DEF l
<1>5. Control'
  BY <1>1, <1>2, <1>4, BeginType DEF l
<1>. QED  BY <1>1, <1>5 DEF TypeInv, TypeOK, Control, nodeVars, appVars, shadowVars

LEMMA DeleteNodeType ==
  ASSUME TypeInv, NEW h \in Handlers, DeleteNode(h)
  PROVE  TypeInv'
<1>1. PICK n \in nodes \ torn :
        /\ Begin(h, "delnode", [Blank EXCEPT !.op = "DeleteNode", !.n = n, !.sys = SysAppsOf(desire[n]), !.todo = SysAppsOf(desire[n])])
        /\ UNCHANGED <<nodeVars, appVars, shadowVars, index, clock>>
  BY Zenon DEF DeleteNode
<1>. DEFINE l == [Blank EXCEPT !.op = "DeleteNode", !.n = n, !.sys = SysAppsOf(desire[n]), !.todo = SysAppsOf(desire[n])]
<1>2. l \in Local
  BY BlankType, Zenon DEF Local, Operations, NodeOps, SysAppsOf, TypeInv, TypeOK
<1>3. l.op = "DeleteNode" /\ l.n = n /\ n \in Nodes
  BY BlankType DEF Local, TypeInv, TypeOK
<1>4. "delnode" \in Points /\ Role("delnode", l)
  BY <1>3 DEF Role, Points, NodeOps, AppOps, LockedOps
<1>. HIDE DEF l
<1>5. Control'
  BY <1>1, <1>2, <1>4, BeginType DEF l
<1>. QED  BY <1>1, <1>5 DEF TypeInv, TypeOK, Control, nodeVars, appVars, shadowVars

LEMMA ReportNoShadowType ==
  ASSUME TypeInv, NEW h \in Handlers, ReportNoShadow(h)
  PROVE  TypeInv'
<1>1. PICK n \in nodes \ shadows :
        /\ Begin(h, "newshadow", [Blank EXCEPT !.op = "Report", !.n = n])
        /\ UNCHANGED <<nodeVars, appVars, shadowVars, index, clock>>
  BY Zenon DEF ReportNoShadow
<1>. DEFINE l == [Blank EXCEPT !.op = "Report", !.n = n]
<1>2. l \in Local
  BY BlankType, Zenon DEF Local, Operations, NodeOps, TypeInv, TypeOK
<1>3. l.op = "Report" /\ l.n = n /\ n \in Nodes
  BY BlankType DEF Local, TypeInv, TypeOK
<1>4. "newshadow" \in Points /\ Role("newshadow", l)
  BY <1>3 DEF Role, Points, NodeOps, AppOps, LockedOps
<1>. HIDE DEF l
<1>5. Control'
  BY <1>1, <1>2, <1>4, BeginType DEF l
<1>. QED  BY <1>1, <1>5 DEF TypeInv, TypeOK, Control, nodeVars, appVars, shadowVars

LEMMA CreateAppType ==
  ASSUME TypeInv, NEW h \in Handlers, CreateApp(h)
  PROVE  TypeInv'
<1>1. PICK a \in UserApps \ apps, s \in UserSelectors :
        /\ Begin(h, "listnodes", [Blank EXCEPT !.op = "CreateApp", !.a = a, !.sel = s, !.v = clock + 1])
        /\ apps' = apps \cup {a} /\ sel' = [sel EXCEPT ![a] = s]
        /\ ver' = [ver EXCEPT ![a] = clock + 1] /\ clock' = clock + 1
        /\ UNCHANGED <<nodeVars, shadowVars, index>>
  BY Zenon DEF CreateApp
<1>. DEFINE l == [Blank EXCEPT !.op = "CreateApp", !.a = a, !.sel = s, !.v = clock + 1]
<1>a. s \in Selectors /\ clock + 1 \in Nat /\ a \in Apps
  BY ConstantsAssumption DEF Apps, TypeInv, TypeOK
<1>2. l \in Local
  BY BlankType, <1>a, Zenon DEF Local, Operations, AppOps
<1>3. l.op = "CreateApp" /\ l.a = a
  BY BlankType DEF Local, TypeInv, TypeOK
<1>4. "listnodes" \in Points /\ Role("listnodes", l)
  BY <1>3 DEF Role, Points, NodeOps, AppOps, LockedOps
<1>. HIDE DEF l
<1>5. Control'
  BY <1>1, <1>2, <1>4, BeginType DEF l
<1>. QED  BY <1>1, <1>5, <1>a DEF TypeInv, TypeOK, Control, nodeVars, appVars, shadowVars

LEMMA UpdateAppType ==
  ASSUME TypeInv, NEW h \in Handlers, UpdateApp(h)
  PROVE  TypeInv'
<1>1. PICK a \in UserApps \cap apps, s \in UserSelectors, c \in BOOLEAN :
        /\ Begin(h, "write", [Blank EXCEPT !.op = "UpdateApp", !.a = a, !.sel = s, !.chg = c, !.old = sel[a]])
        /\ UNCHANGED <<nodeVars, appVars, shadowVars, index, clock>>
  BY Zenon DEF UpdateApp
<1>. DEFINE l == [Blank EXCEPT !.op = "UpdateApp", !.a = a, !.sel = s, !.chg = c, !.old = sel[a]]
<1>a. s \in Selectors /\ sel[a] \in Selectors /\ a \in Apps
  BY ConstantsAssumption DEF Apps, TypeInv, TypeOK
<1>2. l \in Local
  BY BlankType, <1>a, Zenon DEF Local, Operations, AppOps
<1>3. l.op = "UpdateApp" /\ l.a = a
  BY BlankType DEF Local, TypeInv, TypeOK
<1>4. "write" \in Points /\ Role("write", l)
  BY <1>3 DEF Role, Points, NodeOps, AppOps, LockedOps
<1>. HIDE DEF l
<1>5. Control'
  BY <1>1, <1>2, <1>4, BeginType DEF l
<1>. QED  BY <1>1, <1>5 DEF TypeInv, TypeOK, Control, nodeVars, appVars, shadowVars

LEMMA DeleteAppType ==
  ASSUME TypeInv, NEW h \in Handlers, DeleteApp(h)
  PROVE  TypeInv'
<1>1. PICK a \in UserApps \cap apps :
        /\ Begin(h, "delapp", [Blank EXCEPT !.op = "DeleteApp", !.a = a, !.old = sel[a]])
        /\ UNCHANGED <<nodeVars, appVars, shadowVars, index, clock>>
  BY Zenon DEF DeleteApp
<1>. DEFINE l == [Blank EXCEPT !.op = "DeleteApp", !.a = a, !.old = sel[a]]
<1>2. l \in Local
  BY BlankType, Zenon DEF Local, Operations, AppOps, Apps, TypeInv, TypeOK
<1>3. l.op = "DeleteApp" /\ l.a = a
  BY BlankType DEF Local, TypeInv, TypeOK
<1>4. "delapp" \in Points /\ Role("delapp", l)
  BY <1>3 DEF Role, Points, NodeOps, AppOps, LockedOps
<1>. HIDE DEF l
<1>5. Control'
  BY <1>1, <1>2, <1>4, BeginType DEF l
<1>. QED  BY <1>1, <1>5 DEF TypeInv, TypeOK, Control, nodeVars, appVars, shadowVars

LEMMA LocalType ==
  ASSUME TypeInv, NEW h \in Handlers
  PROVE  loc[h] \in Local /\ Role(pc[h], loc[h])
  BY DEF TypeInv, TypeOK

LEMMA GenAppsType ==
  ASSUME TypeInv, NEW h \in Handlers, GenApps(h)
  PROVE  TypeInv'
<1>. DEFINE l == loc[h]
<1>1. l \in Local /\ l.op = "CreateNode" /\ l.n \in Nodes /\ l.a \in Apps
  BY LocalType DEF GenApps, Role, NodeOps, Apps
<1>2. {l.n} \in Selectors /\ clock + 1 \in Nat
  BY <1>1 DEF Selectors, TypeInv, TypeOK
<1>3. "listapps" \in Points /\ Role("listapps", l)
  BY <1>1, LocalType DEF Role, Points, LockedOps
<1>4. Control'
  BY <1>1, <1>3, GotoType DEF GenApps
<1>. QED  BY <1>1, <1>2, <1>4 DEF GenApps, TypeInv, TypeOK, Control, nodeVars, shadowVars

LEMMA GetShadowType ==
  ASSUME TypeInv, NEW h \in Handlers, GetShadow(h)
  PROVE  TypeInv'
<1>. DEFINE l == loc[h]
            m == [l EXCEPT !.got = shadows \cap {l.n}, !.shad = desire, !.dv = dver]
<1>1. l \in Local /\ l.op = "UpdateNode" /\ l.n \in Nodes
  BY LocalType DEF GetShadow, Role, NodeOps
<1>2. m \in Local /\ m.op = l.op /\ m.n = l.n
  BY <1>1, Zenon DEF Local, TypeInv, TypeOK
<1>3. "clearidx" \in Points /\ Role("clearidx", m)
  BY <1>1, <1>2 DEF Role, Points, NodeOps, AppOps
<1>4. Finish(h) \/ Goto(h, "clearidx", m)
  BY DEF GetShadow
<1>. HIDE DEF m
<1>5. Control'
  BY <1>2, <1>3, <1>4, GotoType, FinishType
<1>. QED  BY <1>5 DEF GetShadow, TypeInv, TypeOK, Control, nodeVars, appVars, shadowVars

LEMMA ListAppsType ==
  ASSUME TypeInv, NEW h \in Handlers, ListApps(h)
  PROVE  TypeInv'
<1>. DEFINE l == loc[h]
            want == [a \in Apps |-> IF a \in apps /\ Match(sel[a], l.n, l.ls)
                                    THEN ver[a] ELSE 0]
            rows == {a \in Apps : want[a] # 0} \X {l.n}
            m == [l EXCEPT !.want = want, !.rows = rows]
            next == IF l.op = "CreateNode" THEN "newshadow" ELSE "cas"
<1>1. l \in Local /\ Role("listapps", l) /\ l.n \in Nodes
  BY LocalType DEF ListApps, Role, NodeOps
<1>2. want \in [Apps -> Nat] /\ rows \subseteq Apps \X Nodes
  BY <1>1 DEF TypeInv, TypeOK
<1>3. Goto(h, next, m)
  BY DEF ListApps
<1>. HIDE DEF want, rows
<1>4. m \in Local /\ m.op = l.op /\ m.n = l.n /\ m.a = l.a
  BY <1>1, <1>2, Zenon DEF Local
<1>5. next \in Points /\ Role(next, m)
  BY <1>1, <1>4 DEF Role, Points, NodeOps, AppOps
<1>. HIDE DEF m, next
<1>6. Control'
  BY <1>3, <1>4, <1>5, GotoType
<1>. QED  BY <1>6 DEF ListApps, TypeInv, TypeOK, Control, nodeVars, appVars, shadowVars

LEMMA NewShadowType ==
  ASSUME TypeInv, NEW h \in Handlers, NewShadow(h)
  PROVE  TypeInv'
<1>. DEFINE l == loc[h]
<1>1. l \in Local /\ Role("newshadow", l) /\ l.n \in Nodes /\ l.want \in [Apps -> Nat]
  BY LocalType DEF NewShadow, Role, NodeOps, Local
<1>2. Finish(h) \/ (l.op = "CreateNode" /\ Goto(h, "idxdel", l))
  BY <1>1 DEF NewShadow, Role
<1>3. "idxdel" \in Points
  BY DEF Points
<1>4. l.op = "CreateNode" => Role("idxdel", l)
  BY <1>1 DEF Role, LockedOps
<1>5. Control'
  BY <1>1, <1>2, <1>3, <1>4, GotoType, FinishType
<1>6. /\ shadows' = shadows \/ shadows' = shadows \cup {l.n}
      /\ torn' = torn
      /\ desire' = desire \/ desire' = [desire EXCEPT ![l.n] = l.want]
      /\ dver' = dver \/ dver' = [dver EXCEPT ![l.n] = 0]
  BY DEF NewShadow, shadowVars
<1>. HIDE DEF l
<1>7. desire' \in [Nodes -> [Apps -> Nat]]
  BY <1>1, <1>6 DEF TypeInv, TypeOK
<1>8. dver' \in [Nodes -> Nat]
  BY <1>1, <1>6 DEF TypeInv, TypeOK
<1>9. shadows' \subseteq Nodes /\ torn' \subseteq shadows'
  BY <1>1, <1>6 DEF TypeInv, TypeOK
<1>. QED  BY <1>5, <1>7, <1>8, <1>9 DEF NewShadow, TypeInv, TypeOK, Control, nodeVars, appVars

LEMMA CasType ==
  ASSUME TypeInv, NEW h \in Handlers, Cas(h)
  PROVE  TypeInv'
<1>. DEFINE l == loc[h]
<1>1. l \in Local /\ Role("cas", l) /\ l.n \in Nodes /\ l.want \in [Apps -> Nat]
  BY LocalType DEF Cas, Role, NodeOps, Local
<1>2. "idxdel" \in Points /\ Role("idxdel", l)
  BY <1>1 DEF Role, LockedOps, Points
<1>3. Control'
  BY <1>1, <1>2, GotoType, FinishType DEF Cas
<1>4. /\ desire' = desire \/ desire' = [desire EXCEPT ![l.n] = l.want]
      /\ dver' = dver \/ dver' = [dver EXCEPT ![l.n] = clock + 1]
      /\ clock' = clock \/ clock' = clock + 1
  BY DEF Cas
<1>. HIDE DEF l
<1>5. desire' \in [Nodes -> [Apps -> Nat]]
  BY <1>1, <1>4 DEF TypeInv, TypeOK
<1>6. clock \in Nat /\ dver \in [Nodes -> Nat]
  BY DEF TypeInv, TypeOK
<1>7. clock' \in Nat
  BY <1>4, <1>6
<1>8. dver' \in [Nodes -> Nat]
  BY <1>4, <1>6
<1>. QED  BY <1>3, <1>5, <1>7, <1>8 DEF Cas, TypeInv, TypeOK, Control, nodeVars, appVars

LEMMA DelNodeRowType ==
  ASSUME TypeInv, NEW h \in Handlers, DelNodeRow(h)
  PROVE  TypeInv'
<1>1. loc[h] \in Local /\ Role("delnode", loc[h]) /\ loc[h].n \in Nodes
  BY LocalType DEF DelNodeRow, Role, NodeOps
<1>2. "delshadow" \in Points /\ Role("delshadow", loc[h])
  BY <1>1 DEF Role, Points
<1>3. Control'
  BY <1>1, <1>2, GotoType DEF DelNodeRow
<1>. QED  BY <1>1, <1>3 DEF DelNodeRow, TypeInv, TypeOK, Control, appVars, shadowVars

LEMMA DelShadowRowType ==
  ASSUME TypeInv, NEW h \in Handlers, DelShadowRow(h)
  PROVE  TypeInv'
<1>1. loc[h] \in Local /\ Role("delshadow", loc[h]) /\ loc[h].n \in Nodes
  BY LocalType DEF DelShadowRow, Role, NodeOps
<1>2. "clearidx" \in Points /\ Role("clearidx", loc[h])
  BY <1>1 DEF Role, Points
<1>3. Control'
  BY <1>1, <1>2, GotoType DEF DelShadowRow
<1>4. NoDesire \in [Apps -> Nat]
  BY DEF NoDesire
<1>. QED  BY <1>1, <1>3, <1>4 DEF DelShadowRow, TypeInv, TypeOK, Control, nodeVars, appVars

LEMMA DelSysAppType ==
  ASSUME TypeInv, NEW h \in Handlers, DelSysApp(h)
  PROVE  TypeInv'
<1>. DEFINE l == loc[h]
<1>1. l \in Local /\ Role("delsys", l)
  BY LocalType DEF DelSysApp
<1>2. PICK a \in l.todo :
        /\ apps' = apps \ {a} /\ sel' = [sel EXCEPT ![a] = {}]
        /\ \/ Goto(h, "delsysidx", [l EXCEPT !.todo = l.sys])
           \/ Goto(h, "delsys", [l EXCEPT !.todo = @ \ {a}])
  BY Zenon DEF DelSysApp
<1>3. ASSUME NEW t \in SUBSET SysApps
      PROVE  /\ [l EXCEPT !.todo = t] \in Local
             /\ Role("delsys", [l EXCEPT !.todo = t])
             /\ Role("delsysidx", [l EXCEPT !.todo = t])
  <2>1. [l EXCEPT !.todo = t] \in Local
    BY <1>1, Zenon DEF Local
  <2>2. /\ [l EXCEPT !.todo = t].op = l.op
        /\ [l EXCEPT !.todo = t].n = l.n /\ [l EXCEPT !.todo = t].a = l.a
    BY <1>1 DEF Local
  <2>. QED  BY <1>1, <2>1, <2>2 DEF Role, NodeOps, AppOps
<1>4. l.sys \in SUBSET SysApps /\ l.todo \ {a} \in SUBSET SysApps /\ l.todo \in SUBSET SysApps
  BY <1>1 DEF Local
<1>5. "delsys" \in Points /\ "delsysidx" \in Points
  BY DEF Points
<1>6. [l EXCEPT !.todo = @ \ {a}] = [l EXCEPT !.todo = l.todo \ {a}]
  OBVIOUS
<1>7. Control'
  BY <1>2, <1>3, <1>4, <1>5, <1>6, GotoType
<1>8. {} \in Selectors /\ a \in Apps
  BY <1>4 DEF Selectors, Apps
<1>. QED  BY <1>2, <1>7, <1>8, Zenon DEF DelSysApp, TypeInv, TypeOK, Control, nodeVars, shadowVars

LEMMA DelSysIndexType ==
  ASSUME TypeInv, NEW h \in Handlers, DelSysIndex(h)
  PROVE  TypeInv'
<1>. DEFINE l == loc[h]
<1>1. l \in Local /\ Role("delsysidx", l)
  BY LocalType DEF DelSysIndex
<1>2. PICK a \in l.todo :
        /\ index' = {r \in index : r[1] # a}
        /\ Finish(h) \/ Goto(h, "delsysidx", [l EXCEPT !.todo = @ \ {a}])
  BY Zenon DEF DelSysIndex
<1>. DEFINE m == [l EXCEPT !.todo = @ \ {a}]
<1>3. m \in Local /\ m.op = l.op /\ m.n = l.n /\ m.a = l.a
  BY <1>1, Zenon DEF Local
<1>4. "delsysidx" \in Points /\ Role("delsysidx", m)
  BY <1>1, <1>3 DEF Role, NodeOps, AppOps, Points
<1>. HIDE DEF m
<1>5. Control'
  BY <1>2, <1>3, <1>4, GotoType, FinishType DEF m
<1>. QED  BY <1>2, <1>5 DEF DelSysIndex, TypeInv, TypeOK, Control, nodeVars, appVars, shadowVars

LEMMA WriteAppType ==
  ASSUME TypeInv, NEW h \in Handlers, WriteApp(h)
  PROVE  TypeInv'
<1>. DEFINE l == loc[h]
            v == IF sel[l.a] = l.sel /\ ~l.chg THEN ver[l.a] ELSE clock + 1
            m == [l EXCEPT !.v = v]
            next == IF l.old # l.sel THEN "listold" ELSE "listnodes"
<1>1. /\ l \in Local /\ Role("write", l) /\ l.op = "UpdateApp" /\ l.a \in UserApps
      /\ l.a \in Apps /\ l.sel \in Selectors
  BY LocalType, Zenon DEF WriteApp, Role, AppOps, Local, Apps
<1>2. v \in Nat
  BY <1>1 DEF TypeInv, TypeOK
<1>3. Finish(h) \/ Goto(h, next, m)
  BY DEF WriteApp
<1>4. /\ sel' \in [Apps -> Selectors] /\ ver' \in [Apps -> Nat] /\ clock' \in Nat
  BY <1>1, <1>2 DEF WriteApp, TypeInv, TypeOK
<1>. HIDE DEF v
<1>5. m \in Local /\ m.op = l.op /\ m.a = l.a
  BY <1>1, <1>2 DEF Local
<1>6. next \in Points /\ Role(next, m)
  BY <1>1, <1>5 DEF Role, Points, NodeOps, AppOps
<1>. HIDE DEF m, next
<1>7. Control'
  BY <1>3, <1>5, <1>6, GotoType, FinishType
<1>. QED  BY <1>4, <1>7 DEF WriteApp, TypeInv, TypeOK, Control, nodeVars, shadowVars

LEMMA DelAppRowType ==
  ASSUME TypeInv, NEW h \in Handlers, DelAppRow(h)
  PROVE  TypeInv'
<1>1. loc[h] \in Local /\ Role("delapp", loc[h]) /\ loc[h].a \in Apps
  BY LocalType DEF DelAppRow, Role, AppOps, Apps
<1>2. "listold" \in Points /\ Role("listold", loc[h]) /\ {} \in Selectors
  BY <1>1 DEF Role, Points, Selectors
<1>3. Control'
  BY <1>1, <1>2, GotoType DEF DelAppRow
<1>. QED  BY <1>1, <1>2, <1>3 DEF DelAppRow, TypeInv, TypeOK, Control, nodeVars, shadowVars

LEMMA ListNodesType ==
  ASSUME TypeInv, NEW h \in Handlers, ListNodes(h)
  PROVE  TypeInv'
<1>. DEFINE l == loc[h]
            s == IF pc[h] = "listold" THEN l.old ELSE l.sel
            names == {n \in nodes : Match(s, n, labels[n])}
            m == [l EXCEPT !.names = names]
            next == IF pc[h] = "listold" THEN "readold" ELSE "readnew"
<1>1. l \in Local /\ Role(pc[h], l) /\ pc[h] \in {"listold", "listnodes"}
  BY LocalType DEF ListNodes
<1>2. names \subseteq Nodes
  BY DEF TypeInv, TypeOK
<1>3. Goto(h, next, m)
  BY DEF ListNodes
<1>. HIDE DEF names
<1>4. m \in Local /\ m.op = l.op /\ m.n = l.n /\ m.a = l.a
  BY <1>1, <1>2, Zenon DEF Local
<1>5. next \in Points /\ Role(next, m)
  BY <1>1, <1>4 DEF Role, Points, NodeOps, AppOps
<1>. HIDE DEF m, next
<1>6. Control'
  BY <1>3, <1>4, <1>5, GotoType
<1>. QED  BY <1>6 DEF ListNodes, TypeInv, TypeOK, Control, nodeVars, appVars, shadowVars

LEMMA ReadShadowsType ==
  ASSUME TypeInv, NEW h \in Handlers, ReadShadows(h)
  PROVE  TypeInv'
<1>. DEFINE l == loc[h]
            m == [l EXCEPT !.got = l.names \cap shadows, !.shad = desire, !.dv = dver]
            next == IF pc[h] = "readold" THEN "dropdesire" ELSE "setdesire"
<1>1. l \in Local /\ Role(pc[h], l) /\ pc[h] \in {"readold", "readnew"}
  BY LocalType DEF ReadShadows
<1>2. Finish(h) \/ Goto(h, next, m)
  BY DEF ReadShadows
<1>3. m \in Local /\ m.op = l.op /\ m.n = l.n /\ m.a = l.a
  BY <1>1, Zenon DEF Local, TypeInv, TypeOK
<1>4. next \in Points /\ Role(next, m)
  BY <1>1, <1>3 DEF Role, Points, NodeOps, AppOps
<1>. HIDE DEF m, next
<1>5. Control'
  BY <1>2, <1>3, <1>4, GotoType, FinishType
<1>. QED  BY <1>5 DEF ReadShadows, TypeInv, TypeOK, Control, nodeVars, appVars, shadowVars

LEMMA UpdateDesiresType ==
  ASSUME TypeInv, NEW h \in Handlers, UpdateDesires(h)
  PROVE  TypeInv'
<1>. DEFINE l == loc[h]
            rows == IF pc[h] = "dropdesire" THEN {} ELSE {l.a} \X l.names
            m == [l EXCEPT !.rows = rows]
            next == IF pc[h] = "dropdesire" THEN "clearidx" ELSE "idxdel"
<1>1. /\ l \in Local /\ Role(pc[h], l) /\ pc[h] \in {"dropdesire", "setdesire"}
      /\ l.a \in Apps /\ l.names \subseteq Nodes
      /\ l.got \subseteq Nodes /\ l.shad \in [Nodes -> [Apps -> Nat]] /\ l.v \in Nat
  BY LocalType, Zenon DEF UpdateDesires, Role, AppOps, Apps, Local
<1>2. rows \subseteq Apps \X Nodes
  BY <1>1
<1>3. Goto(h, next, m)
  BY DEF UpdateDesires
<1>. HIDE DEF rows
<1>4. m \in Local /\ m.op = l.op /\ m.n = l.n /\ m.a = l.a
  BY <1>1, <1>2, Zenon DEF Local
<1>5. next \in Points /\ Role(next, m)
  BY <1>1, <1>4 DEF Role, Points, NodeOps, AppOps, LockedOps
<1>. HIDE DEF m, next
<1>6. Control'
  BY <1>3, <1>4, <1>5, GotoType
<1>7. desire' \in [Nodes -> [Apps -> Nat]] /\ dver' \in [Nodes -> Nat] /\ clock' \in Nat
  BY <1>1 DEF UpdateDesires, TypeInv, TypeOK
<1>8. shadows' \subseteq Nodes /\ torn' \subseteq shadows'
  BY <1>1 DEF UpdateDesires, TypeInv, TypeOK
<1>. QED  BY <1>6, <1>7, <1>8 DEF UpdateDesires, TypeInv, TypeOK, Control, nodeVars, appVars

LEMMA ClearIndexType ==
  ASSUME TypeInv, NEW h \in Handlers, ClearIndex(h)
  PROVE  TypeInv'
<1>. DEFINE l == loc[h]
<1>1. l \in Local /\ Role("clearidx", l)
  BY LocalType DEF ClearIndex
<1>2. \/ l.op = "UpdateNode" /\ Goto(h, "listapps", l)
      \/ l.op = "UpdateApp" /\ Goto(h, "listnodes", l)
      \/ l.op = "DeleteNode" /\ Goto(h, "delsys", l)
      \/ Finish(h)
  BY DEF ClearIndex
<1>3. /\ "listapps" \in Points /\ "listnodes" \in Points /\ "delsys" \in Points
      /\ l.op = "UpdateNode" => Role("listapps", l)
      /\ l.op = "UpdateApp" => Role("listnodes", l)
      /\ l.op = "DeleteNode" => Role("delsys", l)
  BY <1>1 DEF Role, Points
<1>4. Control'
  BY <1>1, <1>2, <1>3, GotoType, FinishType
<1>5. index' \subseteq Apps \X Nodes
  BY DEF ClearIndex, Others, TypeInv, TypeOK
<1>. QED  BY <1>4, <1>5 DEF ClearIndex, TypeInv, TypeOK, Control, nodeVars, appVars, shadowVars

LEMMA IndexDeleteType ==
  ASSUME TypeInv, NEW h \in Handlers, IndexDelete(h)
  PROVE  TypeInv'
<1>1. loc[h] \in Local /\ Role("idxdel", loc[h])
  BY LocalType DEF IndexDelete
<1>2. "idxins" \in Points /\ Role("idxins", loc[h])
  BY <1>1 DEF Role, Points
<1>3. Control'
  BY <1>1, <1>2, GotoType, FinishType DEF IndexDelete
<1>4. index' \subseteq Apps \X Nodes
  BY DEF IndexDelete, Others, TypeInv, TypeOK
<1>. QED  BY <1>3, <1>4 DEF IndexDelete, TypeInv, TypeOK, Control, nodeVars, appVars, shadowVars

LEMMA IndexInsertType ==
  ASSUME TypeInv, NEW h \in Handlers, IndexInsert(h)
  PROVE  TypeInv'
<1>. DEFINE l == loc[h]
<1>1. l \in Local /\ Role("idxins", l)
  BY LocalType DEF IndexInsert
<1>2. PICK r \in l.rows :
        /\ index' = index \cup {r}
        /\ Finish(h) \/ Goto(h, "idxins", [l EXCEPT !.rows = @ \ {r}])
  BY Zenon DEF IndexInsert
<1>. DEFINE m == [l EXCEPT !.rows = @ \ {r}]
<1>3. m \in Local /\ m.op = l.op /\ m.n = l.n /\ m.a = l.a /\ r \in Apps \X Nodes
  BY <1>1, Zenon DEF Local
<1>4. "idxins" \in Points /\ Role("idxins", m)
  BY <1>1, <1>3 DEF Role, NodeOps, AppOps, Points
<1>. HIDE DEF m
<1>5. Control'
  BY <1>2, <1>3, <1>4, GotoType, FinishType DEF m
<1>. QED  BY <1>2, <1>3, <1>5 DEF IndexInsert, TypeInv, TypeOK, Control, nodeVars, appVars, shadowVars

LEMMA FailType ==
  ASSUME TypeInv, NEW h \in Handlers, Fail(h)
  PROVE  TypeInv'
<1>1. Control'
  BY FinishType DEF Fail
<1>. QED  BY <1>1 DEF Fail, TypeInv, TypeOK, Control, nodeVars, appVars, shadowVars

LEMMA TypeInit == Init => TypeInv
<1>. SUFFICES ASSUME Init PROVE TypeInv
  OBVIOUS
<1>1. NoDesire \in [Apps -> Nat] /\ {} \in Selectors /\ "idle" \in Points
  BY DEF NoDesire, Selectors, Points
<1>. QED  BY <1>1, BlankType DEF Init, TypeInv, TypeOK

LEMMA TypeStep == TypeInv /\ [Next]_vars => TypeInv'
<1>. SUFFICES ASSUME TypeInv, [Next]_vars PROVE TypeInv'
  OBVIOUS
<1>1. CASE UNCHANGED vars
  BY <1>1 DEF TypeInv, TypeOK, vars, nodeVars, appVars, shadowVars
<1>2. ASSUME NEW h \in Handlers, NodeStep(h) PROVE TypeInv'
  BY <1>2, CreateNodeType, GenAppsType, UpdateNodeType, GetShadowType, ListAppsType,
     NewShadowType, CasType, DeleteNodeType, DelNodeRowType, DelShadowRowType,
     DelSysAppType, DelSysIndexType, ReportNoShadowType DEF NodeStep
<1>3. ASSUME NEW h \in Handlers, AppStep(h) PROVE TypeInv'
  BY <1>3, CreateAppType, UpdateAppType, WriteAppType, DeleteAppType, DelAppRowType,
     ListNodesType, ReadShadowsType, UpdateDesiresType DEF AppStep
<1>4. ASSUME NEW h \in Handlers, IndexStep(h) PROVE TypeInv'
  BY <1>4, ClearIndexType, IndexDeleteType, IndexInsertType DEF IndexStep
<1>. QED  BY <1>1, <1>2, <1>3, <1>4, FailType DEF Next, Idle

\* Every reachable state is well typed, whatever the locking, the requests and
\* the failures; and at each point the handler serves an operation that has it.
THEOREM TypeCorrect == Spec => [](TypeOK /\ TypeInv)
<1>1. TypeInv => TypeOK
  BY DEF TypeInv
<1>. QED  BY <1>1, TypeInit, TypeStep, PTL DEF Spec

\* What a handler that moves on, or ends, does to the handlers.
LEMMA Moved ==
  ASSUME TypeInv, NEW h \in Handlers, NEW p, NEW l,
         Begin(h, p, l) \/ Goto(h, p, l)
  PROVE  /\ pc'[h] = p /\ loc'[h] = l
         /\ \A g \in Handlers \ {h} : pc'[g] = pc[g] /\ loc'[g] = loc[g]
  BY DEF Begin, Goto, TypeInv, TypeOK

LEMMA Ended ==
  ASSUME TypeInv, NEW h \in Handlers, Finish(h)
  PROVE  /\ pc'[h] = "idle" /\ loc'[h] = Blank
         /\ \A g \in Handlers \ {h} : pc'[g] = pc[g] /\ loc'[g] = loc[g]
  BY DEF Finish, TypeInv, TypeOK
=============================================================================
