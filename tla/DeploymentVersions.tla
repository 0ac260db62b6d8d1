------------------------- MODULE DeploymentVersions -------------------------
(***************************************************************************)
(* No desire is ever ahead of the application it names.                    *)
(***************************************************************************)
EXTENDS DeploymentProofs

LEMMA VersionsKept ==
  ASSUME TypeInv, TypeInv', VersionInv, NEW h \in Handlers,
         \A g \in Handlers \ {h} : loc'[g] = loc[g],
         \A a \in Apps : ver[a] <= ver'[a] /\ ver'[a] <= clock',
         NoPhantomVersion',
         Bound(loc[h])'
  PROVE  VersionInv'
<1>1. ASSUME NEW g \in Handlers \ {h}  PROVE Bound(loc[g])'
  <2>1. loc[g] \in Local /\ loc'[g] = loc[g] /\ Role(pc[g], loc[g]) /\ Bound(loc[g])
    BY DEF TypeInv, TypeOK, VersionInv
  <2>2. \A a \in Apps : ver[a] \in Nat /\ ver'[a] \in Nat
    BY DEF TypeInv, TypeOK
  <2>. DEFINE l == loc[g]
  <2>3. /\ l.shad \in [Nodes -> [Apps -> Nat]] /\ l.want \in [Apps -> Nat] /\ l.v \in Nat
        /\ l.op \in AppOps => l.a \in Apps
    BY <2>1, Zenon DEF Local, Role, Apps
  <2>. HIDE DEF l
  <2>4. \A n \in Nodes, a \in Apps : l.shad[n][a] <= ver'[a]
    <3>. TAKE n \in Nodes, a \in Apps
    <3>1. l.shad[n][a] <= ver[a] /\ l.shad[n][a] \in Nat
      BY <2>1, <2>3 DEF Bound, l
    <3>. QED  BY <3>1, <2>2
  <2>5. \A a \in Apps : l.want[a] <= ver'[a]
    <3>. TAKE a \in Apps
    <3>1. l.want[a] <= ver[a] /\ l.want[a] \in Nat
      BY <2>1, <2>3 DEF Bound, l
    <3>. QED  BY <3>1, <2>2
  <2>6. l.op \in AppOps => l.v <= ver'[l.a]
    <3>. HAVE l.op \in AppOps
    <3>1. l.v <= ver[l.a]
      BY <2>1 DEF Bound, l
    <3>. QED  BY <3>1, <2>2, <2>3
  <2>. QED  BY <2>1, <2>4, <2>5, <2>6 DEF Bound, l
<1>. QED  BY <1>1 DEF VersionInv

LEMMA BoundBlank ==
  ASSUME TypeInv, NEW l \in Local, l.shad = Blank.shad, l.want = Blank.want, l.v = 0,
         l.op \in AppOps => l.a \in Apps
  PROVE  Bound(l)
  BY DEF Bound, Blank, NoDesire, TypeInv, TypeOK

LEMMA BoundSame ==
  ASSUME NEW l \in Local, NEW m \in Local, Bound(l), m.op = l.op, m.a = l.a,
         m.shad = l.shad, m.want = l.want, m.v = l.v
  PROVE  Bound(m)
  BY DEF Bound

LEMMA QuietStep ==
  ASSUME TypeInv, TypeInv', VersionInv, NEW h \in Handlers,
         \A g \in Handlers \ {h} : loc'[g] = loc[g],
         ver' = ver, clock' = clock \/ clock' = clock + 1, desire' = desire, Bound(loc'[h])
  PROVE  VersionInv'
<1>1. NoPhantomVersion'
  BY DEF VersionInv, NoPhantomVersion
<1>2. \A a \in Apps : ver[a] <= ver'[a] /\ ver'[a] <= clock'
  BY DEF VersionInv, TypeInv, TypeOK
<1>3. Bound(loc[h])'
  BY DEF Bound
<1>. QED  BY <1>1, <1>2, <1>3, VersionsKept

LEMMA FinishVersions ==
  ASSUME TypeInv, TypeInv', VersionInv, NEW h \in Handlers, Finish(h),
         ver' = ver, clock' = clock \/ clock' = clock + 1, desire' = desire
  PROVE  VersionInv'
<1>1. Blank.shad = Blank.shad /\ Blank.v = 0 /\ Blank.op \notin AppOps
  BY DEF Blank, AppOps
<1>. QED  BY <1>1, Ended, QuietStep, BoundBlank, BlankType

LEMMA GotoVersions ==
  ASSUME TypeInv, TypeInv', VersionInv, NEW h \in Handlers, NEW p, NEW m, Goto(h, p, m),
         m.op = loc[h].op, m.a = loc[h].a,
         m.shad = loc[h].shad, m.want = loc[h].want, m.v = loc[h].v,
         ver' = ver, clock' = clock \/ clock' = clock + 1, desire' = desire
  PROVE  VersionInv'
<1>1. loc[h] \in Local /\ loc'[h] \in Local /\ Bound(loc[h])
  BY DEF TypeInv, TypeOK, VersionInv
<1>. QED  BY <1>1, Moved, QuietStep, BoundSame

LEMMA BeginVersions ==
  ASSUME TypeInv, TypeInv', VersionInv, NEW h \in Handlers, NEW p, NEW m, Begin(h, p, m),
         m.shad = Blank.shad, m.want = Blank.want, m.v = 0,
         m.op \in AppOps => m.a \in Apps,
         ver' = ver, clock' = clock \/ clock' = clock + 1, desire' = desire
  PROVE  VersionInv'
<1>1. loc'[h] \in Local
  BY DEF TypeInv, TypeOK
<1>. QED  BY <1>1, Moved, QuietStep, BoundBlank

LEMMA VersionStep ==
  ASSUME TypeInv, TypeInv', VersionInv, NEW h \in Handlers
  PROVE  /\ NodeStep(h) => VersionInv'
         /\ AppStep(h) => VersionInv'
         /\ IndexStep(h) => VersionInv'
         /\ Fail(h) => VersionInv'
<1>. DEFINE l == loc[h]
<1>0. /\ l \in Local /\ Role(pc[h], l) /\ Bound(l)
      /\ loc'[h] \in Local /\ Role(pc'[h], loc'[h])
  BY DEF TypeInv, TypeOK, VersionInv
<1>1. ASSUME CreateNode(h)  PROVE VersionInv'
  <2>1. PICK n \in Nodes, ls \in SUBSET Labels, a \in SysApps :
          Begin(h, "genapps", [Blank EXCEPT !.op = "CreateNode", !.n = n, !.ls = ls, !.a = a])
    BY <1>1, Zenon DEF CreateNode
  <2>. DEFINE m == [Blank EXCEPT !.op = "CreateNode", !.n = n, !.ls = ls, !.a = a]
  <2>2. /\ m.shad = Blank.shad /\ m.want = Blank.want /\ m.v = 0 /\ m.op \notin AppOps
    BY DEF Blank, AppOps
  <2>. HIDE DEF m
  <2>. QED  BY <1>1, <2>1, <2>2, BeginVersions, Zenon DEF CreateNode, appVars, shadowVars, m
<1>2. ASSUME GenApps(h)  PROVE VersionInv'
  <2>1. /\ Goto(h, "listapps", l) /\ ver' = [ver EXCEPT ![l.a] = clock + 1]
        /\ clock' = clock + 1 /\ desire' = desire
    BY <1>2 DEF GenApps, shadowVars
  <2>2. \A a \in Apps : ver[a] \in Nat /\ ver[a] <= clock /\ clock \in Nat
    BY DEF VersionInv, TypeInv, TypeOK
  <2>3. \A a \in Apps : ver[a] <= ver'[a] /\ ver'[a] <= clock'
    BY <2>1, <2>2 DEF TypeInv, TypeOK
  <2>4. NoPhantomVersion'
    BY <2>1, <2>2, <2>3 DEF NoPhantomVersion, VersionInv, TypeInv, TypeOK
  <2>5. loc'[h] = l /\ l.op = "CreateNode"
    BY <1>0, <1>2, <2>1, Moved DEF GenApps, Role
  <2>6. /\ \A n \in Nodes, a \in Apps : l.shad[n][a] \in Nat /\ l.shad[n][a] <= ver[a]
        /\ \A a \in Apps : l.want[a] \in Nat /\ l.want[a] <= ver[a]
    BY <1>0 DEF Bound, Local
  <2>. HIDE DEF l
  <2>7. Bound(loc[h])'
    BY <2>2, <2>3, <2>5, <2>6 DEF Bound, AppOps, TypeInv, TypeOK
  <2>. QED  BY <2>1, <2>3, <2>4, <2>7, Moved, VersionsKept DEF l
<1>3. ASSUME UpdateNode(h)  PROVE VersionInv'
  <2>1. PICK n \in nodes, ls \in SUBSET Labels :
          Begin(h, "getshadow", [Blank EXCEPT !.op = "UpdateNode", !.n = n, !.ls = ls])
    BY <1>3, Zenon DEF UpdateNode
  <2>. DEFINE m == [Blank EXCEPT !.op = "UpdateNode", !.n = n, !.ls = ls]
  <2>2. /\ m.shad = Blank.shad /\ m.want = Blank.want /\ m.v = 0 /\ m.op \notin AppOps
    BY DEF Blank, AppOps
  <2>. HIDE DEF m
  <2>. QED  BY <1>3, <2>1, <2>2, BeginVersions, Zenon DEF UpdateNode, appVars, shadowVars, m
<1>4. ASSUME GetShadow(h)  PROVE VersionInv'
  <2>. DEFINE m == [l EXCEPT !.got = shadows \cap {l.n}, !.shad = desire, !.dv = dver]
  <2>1. /\ Finish(h) \/ Goto(h, "clearidx", m)
        /\ ver' = ver /\ clock' = clock /\ desire' = desire
    BY <1>4 DEF GetShadow, appVars, shadowVars
  <2>2. m.shad = desire /\ m.want = l.want /\ m.op = l.op /\ l.op = "UpdateNode"
    BY <1>0, <1>4 DEF Local, GetShadow, Role
  <2>. HIDE DEF m
  <2>3. Bound(m)
    BY <1>0, <2>2 DEF Bound, VersionInv, NoPhantomVersion, AppOps
  <2>. QED  BY <2>1, <2>3, FinishVersions, Moved, QuietStep
<1>5. ASSUME ListApps(h)  PROVE VersionInv'
  <2>. DEFINE want == [a \in Apps |-> IF a \in apps /\ Match(sel[a], l.n, l.ls)
                                      THEN ver[a] ELSE 0]
              rows == {a \in Apps : want[a] # 0} \X {l.n}
              m == [l EXCEPT !.want = want, !.rows = rows]
  <2>1. /\ Goto(h, IF l.op = "CreateNode" THEN "newshadow" ELSE "cas", m)
        /\ ver' = ver /\ clock' = clock /\ desire' = desire
    BY <1>5 DEF ListApps, appVars, shadowVars
  <2>2. \A a \in Apps : want[a] <= ver[a]
    BY DEF TypeInv, TypeOK
  <2>. HIDE DEF want, rows
  <2>3. m.shad = l.shad /\ m.want = want /\ m.op = l.op /\ l.op \notin AppOps
    BY <1>0, <1>5 DEF Local, ListApps, Role, AppOps
  <2>. HIDE DEF m
  <2>4. Bound(m)
    BY <1>0, <2>2, <2>3 DEF Bound
  <2>. QED  BY <2>1, <2>4, Moved, QuietStep
<1>6. ASSUME NewShadow(h)  PROVE VersionInv'
  <2>1. /\ Finish(h) \/ Goto(h, "idxdel", l)
        /\ desire' = desire \/ desire' = [desire EXCEPT ![l.n] = l.want]
        /\ ver' = ver /\ clock' = clock
    BY <1>6 DEF NewShadow, appVars, shadowVars
  <2>2. NoPhantomVersion'
    BY <1>0, <2>1, Zenon DEF NoPhantomVersion, VersionInv, Bound, TypeInv, TypeOK
  <2>3. \A a \in Apps : ver[a] <= ver'[a] /\ ver'[a] <= clock'
    BY <2>1 DEF VersionInv, TypeInv, TypeOK
  <2>4. loc'[h] = Blank \/ loc'[h] = l
    BY <2>1, Moved, Ended
  <2>5. Bound(Blank)
    BY BlankType, BoundBlank DEF Blank, AppOps
  <2>6. Bound(loc[h])'
    BY <1>0, <2>1, <2>4, <2>5 DEF Bound
  <2>. QED  BY <2>1, <2>2, <2>3, <2>6, Moved, Ended, VersionsKept
<1>7. ASSUME Cas(h)  PROVE VersionInv'
  <2>1. /\ Finish(h) \/ Goto(h, "idxdel", l)
        /\ desire' = desire \/ desire' = [desire EXCEPT ![l.n] = l.want]
        /\ ver' = ver /\ (clock' = clock \/ clock' = clock + 1)
    BY <1>7 DEF Cas, appVars
  <2>2. NoPhantomVersion'
    BY <1>0, <2>1, Zenon DEF NoPhantomVersion, VersionInv, Bound, TypeInv, TypeOK
  <2>3. \A a \in Apps : ver[a] <= ver'[a] /\ ver'[a] <= clock'
    BY <2>1 DEF VersionInv, TypeInv, TypeOK
  <2>4. loc'[h] = Blank \/ loc'[h] = l
    BY <2>1, Moved, Ended
  <2>5. Bound(Blank)
    BY BlankType, BoundBlank DEF Blank, AppOps
  <2>6. Bound(loc[h])'
    BY <1>0, <2>1, <2>4, <2>5 DEF Bound
  <2>. QED  BY <2>1, <2>2, <2>3, <2>6, Moved, Ended, VersionsKept
<1>8. ASSUME DeleteNode(h)  PROVE VersionInv'
  <2>1. PICK n \in nodes \ torn :
          Begin(h, "delnode", [Blank EXCEPT !.op = "DeleteNode", !.n = n,
                                            !.sys = SysAppsOf(desire[n]),
                                            !.todo = SysAppsOf(desire[n])])
    BY <1>8, Zenon DEF DeleteNode
  <2>. DEFINE m == [Blank EXCEPT !.op = "DeleteNode", !.n = n, !.sys = SysAppsOf(desire[n]),
                                 !.todo = SysAppsOf(desire[n])]
  <2>2. /\ m.shad = Blank.shad /\ m.want = Blank.want /\ m.v = 0 /\ m.op \notin AppOps
    BY DEF Blank, AppOps
  <2>. HIDE DEF m
  <2>. QED  BY <1>8, <2>1, <2>2, BeginVersions, Zenon DEF DeleteNode, appVars, shadowVars, m
<1>9. ASSUME DelNodeRow(h)  PROVE VersionInv'
  BY <1>9, GotoVersions DEF DelNodeRow, appVars, shadowVars
<1>10. ASSUME DelShadowRow(h)  PROVE VersionInv'
  <2>1. /\ Goto(h, "clearidx", l) /\ desire' = [desire EXCEPT ![l.n] = NoDesire]
        /\ ver' = ver /\ clock' = clock
    BY <1>10 DEF DelShadowRow, appVars
  <2>2. NoPhantomVersion'
    BY <2>1 DEF NoPhantomVersion, NoDesire, VersionInv, TypeInv, TypeOK
  <2>3. \A a \in Apps : ver[a] <= ver'[a] /\ ver'[a] <= clock'
    BY <2>1 DEF VersionInv, TypeInv, TypeOK
  <2>4. Bound(loc[h])'
    BY <1>0, <2>1, Moved DEF Bound
  <2>. QED  BY <2>1, <2>2, <2>3, <2>4, Moved, VersionsKept
<1>11. ASSUME DelSysApp(h)  PROVE VersionInv'
  <2>1. PICK t : Goto(h, "delsysidx", [l EXCEPT !.todo = t]) \/ Goto(h, "delsys", [l EXCEPT !.todo = t])
    BY <1>11, Zenon DEF DelSysApp
  <2>. DEFINE m == [l EXCEPT !.todo = t]
  <2>2. m.op = l.op /\ m.a = l.a /\ m.shad = l.shad /\ m.want = l.want /\ m.v = l.v
    BY <1>0 DEF Local
  <2>. HIDE DEF m
  <2>. QED  BY <1>11, <2>1, <2>2, GotoVersions, Zenon DEF DelSysApp, shadowVars, m
<1>12. ASSUME DelSysIndex(h)  PROVE VersionInv'
  <2>1. PICK t : Finish(h) \/ Goto(h, "delsysidx", [l EXCEPT !.todo = t])
    BY <1>12, Zenon DEF DelSysIndex
  <2>. DEFINE m == [l EXCEPT !.todo = t]
  <2>2. m.op = l.op /\ m.a = l.a /\ m.shad = l.shad /\ m.want = l.want /\ m.v = l.v
    BY <1>0 DEF Local
  <2>. HIDE DEF m
  <2>. QED  BY <1>12, <2>1, <2>2, GotoVersions, FinishVersions, Zenon DEF DelSysIndex, appVars, shadowVars, m
<1>13. ASSUME ReportNoShadow(h)  PROVE VersionInv'
  <2>1. PICK n \in nodes \ shadows :
          Begin(h, "newshadow", [Blank EXCEPT !.op = "Report", !.n = n])
    BY <1>13, Zenon DEF ReportNoShadow
  <2>. DEFINE m == [Blank EXCEPT !.op = "Report", !.n = n]
  <2>2. /\ m.shad = Blank.shad /\ m.want = Blank.want /\ m.v = 0 /\ m.op \notin AppOps
    BY DEF Blank, AppOps
  <2>. HIDE DEF m
  <2>. QED  BY <1>13, <2>1, <2>2, BeginVersions, Zenon DEF ReportNoShadow, appVars, shadowVars, m
<1>14. ASSUME CreateApp(h)  PROVE VersionInv'
  <2>1. PICK a \in UserApps \ apps, s \in UserSelectors :
          /\ Begin(h, "listnodes", [Blank EXCEPT !.op = "CreateApp", !.a = a,
                                                 !.sel = s, !.v = clock + 1])
          /\ ver' = [ver EXCEPT ![a] = clock + 1] /\ clock' = clock + 1 /\ desire' = desire
    BY <1>14, Zenon DEF CreateApp, shadowVars
  <2>. DEFINE m == [Blank EXCEPT !.op = "CreateApp", !.a = a, !.sel = s, !.v = clock + 1]
  <2>2. \A b \in Apps : ver[b] \in Nat /\ ver[b] <= clock /\ clock \in Nat
    BY DEF VersionInv, TypeInv, TypeOK
  <2>3. \A b \in Apps : ver[b] <= ver'[b] /\ ver'[b] <= clock'
    BY <2>1, <2>2 DEF TypeInv, TypeOK
  <2>4. NoPhantomVersion'
    BY <2>1, <2>2, <2>3 DEF NoPhantomVersion, VersionInv, TypeInv, TypeOK
  <2>5. /\ m.shad = [n \in Nodes |-> NoDesire] /\ m.want = NoDesire
        /\ m.v = clock + 1 /\ m.a = a /\ a \in Apps
    BY DEF Blank, Apps
  <2>. HIDE DEF m
  <2>6. loc'[h] = m
    BY <2>1, Moved DEF m
  <2>7. \A b \in Apps : ver'[b] \in Nat
    BY DEF TypeInv, TypeOK
  <2>8. Bound(loc[h])'
    BY <2>1, <2>2, <2>3, <2>5, <2>6, <2>7 DEF Bound, NoDesire, TypeInv, TypeOK
  <2>. QED  BY <2>1, <2>3, <2>4, <2>8, Moved, VersionsKept
<1>15. ASSUME UpdateApp(h)  PROVE VersionInv'
  <2>1. PICK a \in UserApps \cap apps, s \in UserSelectors, c \in BOOLEAN :
          Begin(h, "write", [Blank EXCEPT !.op = "UpdateApp", !.a = a,
                                          !.sel = s, !.chg = c, !.old = sel[a]])
    BY <1>15, Zenon DEF UpdateApp
  <2>. DEFINE m == [Blank EXCEPT !.op = "UpdateApp", !.a = a, !.sel = s, !.chg = c,
                                 !.old = sel[a]]
  <2>2. m.shad = Blank.shad /\ m.want = Blank.want /\ m.v = 0 /\ m.a \in Apps
    BY DEF Blank, Apps
  <2>. HIDE DEF m
  <2>. QED  BY <1>15, <2>1, <2>2, BeginVersions, Zenon DEF UpdateApp, appVars, shadowVars, m
<1>16. ASSUME WriteApp(h)  PROVE VersionInv'
  <2>. DEFINE v == IF sel[l.a] = l.sel /\ ~l.chg THEN ver[l.a] ELSE clock + 1
              m == [l EXCEPT !.v = v]
              p == IF l.old # l.sel THEN "listold" ELSE "listnodes"
  <2>1. CASE l.a \notin apps
    BY <1>16, <2>1, FinishVersions DEF WriteApp, shadowVars
  <2>2. CASE l.a \in apps
    <3>1. /\ Goto(h, p, m) /\ ver' = [ver EXCEPT ![l.a] = v] /\ desire' = desire
          /\ \/ v = ver[l.a] /\ clock' = clock
             \/ v = clock + 1 /\ clock' = clock + 1
      BY <1>16, <2>2 DEF WriteApp, shadowVars
    <3>2. \A b \in Apps : ver[b] \in Nat /\ ver[b] <= clock /\ clock \in Nat
      BY DEF VersionInv, TypeInv, TypeOK
    <3>. HIDE DEF v
    <3>3. \A b \in Apps : ver[b] <= ver'[b] /\ ver'[b] <= clock' /\ ver'[b] \in Nat
      BY <3>1, <3>2 DEF TypeInv, TypeOK
    <3>4. NoPhantomVersion'
      BY <3>1, <3>2, <3>3 DEF NoPhantomVersion, VersionInv, TypeInv, TypeOK
    <3>5. /\ m.shad = l.shad /\ m.want = l.want /\ m.v = v /\ m.a = l.a /\ l.a \in Apps
          /\ l.shad \in [Nodes -> [Apps -> Nat]] /\ l.want \in [Apps -> Nat]
      BY <1>0, <2>2 DEF Local, TypeInv, TypeOK
    <3>6. /\ \A n \in Nodes, a \in Apps : l.shad[n][a] <= ver[a]
          /\ \A a \in Apps : l.want[a] <= ver[a]
      BY <1>0 DEF Bound
    <3>. HIDE DEF m, p, l
    <3>7. loc'[h] = m
      BY <3>1, Moved
    <3>8. v <= ver'[l.a]
      BY <3>1, <3>2, <3>5 DEF TypeInv, TypeOK
    <3>9. /\ \A n \in Nodes, a \in Apps : l.shad[n][a] <= ver'[a]
          /\ \A a \in Apps : l.want[a] <= ver'[a]
      BY <3>2, <3>3, <3>5, <3>6
    <3>10. Bound(loc[h])'
      BY <3>5, <3>7, <3>8, <3>9 DEF Bound
    <3>. QED  BY <3>1, <3>3, <3>4, <3>10, Moved, VersionsKept
  <2>. QED  BY <2>1, <2>2
<1>17. ASSUME DeleteApp(h)  PROVE VersionInv'
  <2>1. PICK a \in UserApps \cap apps :
          Begin(h, "delapp", [Blank EXCEPT !.op = "DeleteApp", !.a = a, !.old = sel[a]])
    BY <1>17, Zenon DEF DeleteApp
  <2>. DEFINE m == [Blank EXCEPT !.op = "DeleteApp", !.a = a, !.old = sel[a]]
  <2>2. m.shad = Blank.shad /\ m.want = Blank.want /\ m.v = 0 /\ m.a \in Apps
    BY DEF Blank, Apps
  <2>. HIDE DEF m
  <2>. QED  BY <1>17, <2>1, <2>2, BeginVersions, Zenon DEF DeleteApp, appVars, shadowVars, m
<1>18. ASSUME DelAppRow(h)  PROVE VersionInv'
  BY <1>18, GotoVersions DEF DelAppRow, shadowVars
<1>19. ASSUME ListNodes(h)  PROVE VersionInv'
  <2>1. PICK p, ns : Goto(h, p, [l EXCEPT !.names = ns])
    BY <1>19, Zenon DEF ListNodes
  <2>. DEFINE m == [l EXCEPT !.names = ns]
  <2>2. m.op = l.op /\ m.a = l.a /\ m.shad = l.shad /\ m.want = l.want /\ m.v = l.v
    BY <1>0 DEF Local
  <2>. HIDE DEF m
  <2>. QED  BY <1>19, <2>1, <2>2, GotoVersions, Zenon DEF ListNodes, appVars, shadowVars, m
<1>20. ASSUME ReadShadows(h)  PROVE VersionInv'
  <2>. DEFINE m == [l EXCEPT !.got = l.names \cap shadows, !.shad = desire, !.dv = dver]
  <2>1. PICK p : Finish(h) \/ Goto(h, p, m)
    BY <1>20 DEF ReadShadows
  <2>2. m.shad = desire /\ m.want = l.want /\ m.op = l.op /\ m.a = l.a /\ m.v = l.v
    BY <1>0 DEF Local
  <2>. HIDE DEF m
  <2>3. Bound(m)
    BY <1>0, <2>2 DEF Bound, VersionInv, NoPhantomVersion
  <2>. QED  BY <1>20, <2>1, <2>3, FinishVersions, Moved, QuietStep
          DEF ReadShadows, appVars, shadowVars
<1>21. ASSUME UpdateDesires(h)  PROVE VersionInv'
  <2>1. PICK p, rs : Goto(h, p, [l EXCEPT !.rows = rs])
    BY <1>21, Zenon DEF UpdateDesires
  <2>. DEFINE m == [l EXCEPT !.rows = rs]
              v == IF pc[h] = "dropdesire" THEN 0 ELSE l.v
  <2>2. /\ m.op = l.op /\ m.a = l.a /\ m.shad = l.shad /\ m.want = l.want /\ m.v = l.v
        /\ l.shad \in [Nodes -> [Apps -> Nat]] /\ l.v \in Nat
    BY <1>0 DEF Local
  <2>3. l.a \in Apps /\ l.v <= ver[l.a]
    BY <1>0, <1>21 DEF UpdateDesires, Role, AppOps, Apps, Bound
  <2>4. /\ ver' = ver /\ (clock' = clock \/ clock' = clock + 1)
        /\ desire' = [n \in Nodes |-> IF n \in l.got THEN [l.shad[n] EXCEPT ![l.a] = v]
                                                    ELSE desire[n]]
    BY <1>21 DEF UpdateDesires, appVars
  <2>5. v \in Nat /\ v <= ver[l.a] /\ ver[l.a] \in Nat
    BY <2>2, <2>3 DEF TypeInv, TypeOK
  <2>6. \A n \in Nodes, a \in Apps : l.shad[n][a] <= ver[a] /\ desire[n][a] <= ver[a]
    BY <1>0 DEF Bound, VersionInv, NoPhantomVersion
  <2>. HIDE DEF m, v, l
  <2>7. ASSUME NEW n \in Nodes, NEW a \in Apps  PROVE desire'[n][a] <= ver'[a]
    <3>1. CASE n \in l.got
      <4>1. desire'[n] = [l.shad[n] EXCEPT ![l.a] = v] /\ l.shad[n] \in [Apps -> Nat]
        BY <2>2, <2>4, <3>1
      <4>2. desire'[n][a] = IF a = l.a THEN v ELSE l.shad[n][a]
        BY <4>1
      <4>. QED  BY <2>4, <2>5, <2>6, <4>2
    <3>2. CASE n \notin l.got
      BY <2>4, <2>6, <3>2
    <3>. QED  BY <3>1, <3>2
  <2>8. NoPhantomVersion'
    BY <2>7 DEF NoPhantomVersion
  <2>9. \A a \in Apps : ver[a] <= ver'[a] /\ ver'[a] <= clock'
    BY <2>4 DEF VersionInv, TypeInv, TypeOK
  <2>10. loc'[h] = m
    BY <2>1, Moved DEF m, l
  <2>11. Bound(m)
    BY <1>0, <2>2, <2>10, BoundSame DEF l
  <2>12. Bound(loc[h])'
    BY <2>4, <2>10, <2>11 DEF Bound
  <2>. QED  BY <2>1, <2>8, <2>9, <2>12, Moved, VersionsKept
<1>22. ASSUME ClearIndex(h)  PROVE VersionInv'
  <2>1. PICK p : Finish(h) \/ Goto(h, p, l)
    BY <1>22 DEF ClearIndex
  <2>. QED  BY <1>22, <2>1, GotoVersions, FinishVersions DEF ClearIndex, appVars, shadowVars
<1>23. ASSUME IndexDelete(h)  PROVE VersionInv'
  BY <1>23, GotoVersions, FinishVersions DEF IndexDelete, appVars, shadowVars
<1>24. ASSUME IndexInsert(h)  PROVE VersionInv'
  <2>1. PICK rs : Finish(h) \/ Goto(h, "idxins", [l EXCEPT !.rows = rs])
    BY <1>24, Zenon DEF IndexInsert
  <2>. DEFINE m == [l EXCEPT !.rows = rs]
  <2>2. m.op = l.op /\ m.a = l.a /\ m.shad = l.shad /\ m.want = l.want /\ m.v = l.v
    BY <1>0 DEF Local
  <2>. HIDE DEF m
  <2>. QED  BY <1>24, <2>1, <2>2, GotoVersions, FinishVersions, Zenon DEF IndexInsert, appVars, shadowVars, m
<1>25. ASSUME Fail(h)  PROVE VersionInv'
  BY <1>25, FinishVersions DEF Fail, appVars, shadowVars
<1>. QED  BY <1>1, <1>2, <1>3, <1>4, <1>5, <1>6, <1>7, <1>8, <1>9, <1>10, <1>11, <1>12,
             <1>13, <1>14, <1>15, <1>16, <1>17, <1>18, <1>19, <1>20, <1>21, <1>22, <1>23,
             <1>24, <1>25 DEF NodeStep, AppStep, IndexStep

\* A desire names no version its application has not had: however requests
\* interleave and break off, and with any lock, a version reaches a desire
\* only through a read of an application row, and rows only grow.
THEOREM NoPhantom == Spec => []NoPhantomVersion
<1>1. Init => VersionInv
  <2>. SUFFICES ASSUME Init PROVE VersionInv
    OBVIOUS
  <2>1. TypeInv
    BY TypeInit
  <2>2. Bound(Blank)
    BY <2>1, BlankType, BoundBlank, Zenon DEF Blank, AppOps
  <2>. QED  BY <2>2 DEF Init, VersionInv, NoPhantomVersion, NoDesire
<1>2. TypeInv /\ TypeInv' /\ VersionInv /\ [Next]_vars => VersionInv'
  <2>. SUFFICES ASSUME TypeInv, TypeInv', VersionInv, [Next]_vars PROVE VersionInv'
    OBVIOUS
  <2>1. CASE UNCHANGED vars
    BY <2>1 DEF VersionInv, NoPhantomVersion, Bound, vars, appVars, shadowVars
  <2>. QED  BY <2>1, VersionStep DEF Next, Idle
<1>3. VersionInv => NoPhantomVersion
  BY DEF VersionInv
<1>. QED  BY <1>1, <1>2, <1>3, TypeInit, TypeStep, PTL DEF Spec
=============================================================================
