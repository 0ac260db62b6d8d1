------------------------ MODULE DeploymentAppStages -------------------------
(***************************************************************************)
(* The stages that write an application, for DeploymentSerial.             *)
(***************************************************************************)
EXTENDS DeploymentStages

LEMMA CreateAppSerial ==
  ASSUME TypeInv, SerialInv, Serialised, NEW h \in Handlers, CreateApp(h)
  PROVE  SerialInv'
<1>1. PICK a \in UserApps \ apps, s \in UserSelectors :
        /\ Begin(h, "listnodes", [Blank EXCEPT !.op = "CreateApp", !.a = a,
                                               !.sel = s, !.v = clock + 1])
        /\ apps' = apps \cup {a} /\ sel' = [sel EXCEPT ![a] = s]
        /\ ver' = [ver EXCEPT ![a] = clock + 1]
        /\ UNCHANGED <<nodes, labels, shadows, torn, desire, index>>
  BY Zenon DEF CreateApp, nodeVars, shadowVars
<1>2. PICK m : m = [Blank EXCEPT !.op = "CreateApp", !.a = a, !.sel = s, !.v = clock + 1]
  BY Zenon
<1>3. /\ m.op = "CreateApp" /\ m.a = a /\ m.sel = s /\ m.v = clock + 1
      /\ a \in Apps /\ a \notin SysApps /\ clock + 1 > 0
  BY <1>2, ConstantsAssumption DEF Blank, Apps, TypeInv, TypeOK
<1>4. /\ Consistent /\ Exclusive' /\ pc'[h] = "listnodes" /\ loc'[h] = m
      /\ \A g \in Handlers \ {h} : pc'[g] = "idle"
  BY <1>1, <1>2, BeginAlone
<1>5. ExceptApp(a)
  BY <1>4 DEF Consistent, ExceptApp
<1>6. ExceptApp(a)'
  BY <1>1, <1>3, <1>5, ExceptAppKept DEF nodeVars, TypeInv, TypeOK
<1>7. \A k \in Nodes : desire'[k][a] = 0
  BY <1>1, <1>3, <1>4 DEF Consistent, Right, Wanted
<1>8. a \in apps' /\ sel'[a] = s /\ ver'[a] = clock + 1
  BY <1>1, <1>3 DEF TypeInv, TypeOK
<1>9. AppStage(pc[h], loc[h])'
  <2>1. AppRow(pc[h], loc[h])'
    BY <1>3, <1>4, <1>8 DEF AppRow
  <2>2. AppDesire(pc[h], loc[h])'
    BY <1>3, <1>4, <1>7 DEF AppDesire
  <2>3. AppIndex(pc[h], loc[h])'
    BY <1>4 DEF AppIndex
  <2>. QED  BY <1>3, <1>4, <1>6, <2>1, <2>2, <2>3 DEF AppStage
<1>10. RowsInv'
  <2>1. RowsInv
    BY DEF SerialInv
  <2>. QED  BY <1>1, <1>3, <2>1 DEF RowsInv, TypeInv, TypeOK
<1>. QED  BY <1>3, <1>4, <1>9, <1>10, AppReached DEF AppOps

LEMMA UpdateAppSerial ==
  ASSUME TypeInv, SerialInv, Serialised, NEW h \in Handlers, UpdateApp(h)
  PROVE  SerialInv'
<1>1. PICK a \in UserApps \cap apps, s \in UserSelectors, c \in BOOLEAN :
        /\ Begin(h, "write", [Blank EXCEPT !.op = "UpdateApp", !.a = a,
                                           !.sel = s, !.chg = c, !.old = sel[a]])
        /\ UNCHANGED <<nodeVars, appVars, shadowVars, index>>
  BY Zenon DEF UpdateApp
<1>2. PICK m : m = [Blank EXCEPT !.op = "UpdateApp", !.a = a, !.sel = s, !.chg = c,
                                 !.old = sel[a]]
  BY Zenon
<1>3. m.op = "UpdateApp" /\ m.a = a /\ m.old = sel[a] /\ a \in Apps
  BY <1>2 DEF Blank, Apps
<1>4. /\ Consistent /\ Exclusive' /\ pc'[h] = "write" /\ loc'[h] = m
      /\ \A g \in Handlers \ {h} : pc'[g] = "idle"
  BY <1>1, <1>2, BeginAlone
<1>5. Consistent'
  BY <1>1, <1>4 DEF Consistent, Right, Listed, Wanted, nodeVars, appVars, shadowVars
<1>6. ExceptApp(a)' /\ \A k \in Nodes : Right(k, a)' /\ Listed(k, a)'
  BY <1>3, <1>5 DEF Consistent, ExceptApp
<1>7. AppStage(pc[h], loc[h])'
  <2>1. AppRow(pc[h], loc[h])'
    BY <1>1, <1>3, <1>4 DEF AppRow, appVars
  <2>2. AppDesire(pc[h], loc[h])'
    BY <1>3, <1>4, <1>6 DEF AppDesire
  <2>3. AppIndex(pc[h], loc[h])'
    BY <1>3, <1>4, <1>6 DEF AppIndex
  <2>. QED  BY <1>3, <1>4, <1>6, <2>1, <2>2, <2>3 DEF AppStage
<1>8. RowsInv'
  BY <1>1, RowsKept DEF SerialInv, shadowVars
<1>. QED  BY <1>3, <1>4, <1>7, <1>8, AppReached DEF AppOps

LEMMA WriteAppSerial ==
  ASSUME TypeInv, SerialInv, Serialised, NEW h \in Handlers, WriteApp(h)
  PROVE  SerialInv'
<1>0. PICK l : l = loc[h]
  BY Zenon
<1>1. /\ l \in Local /\ l.op = "UpdateApp" /\ l.a \in UserApps /\ l.a \in Apps
      /\ l.a \notin SysApps /\ AppStage("write", l) /\ RowsInv
  BY <1>0, HandlerFacts, ConstantsAssumption DEF WriteApp, Role, AppOps, Apps
<1>2. /\ ExceptApp(l.a) /\ l.a \in apps /\ l.old = sel[l.a]
      /\ \A k \in Nodes : Right(k, l.a)
  BY <1>1 DEF AppStage, AppRow, AppDesire, AppIndex
<1>3. PICK v \in Nat : v = IF sel[l.a] = l.sel /\ ~l.chg THEN ver[l.a] ELSE clock + 1
  <2>1. ver[l.a] \in Nat /\ clock + 1 \in Nat
    BY <1>1 DEF TypeInv, TypeOK
  <2>2. CASE sel[l.a] = l.sel /\ ~l.chg
    BY <2>1, <2>2
  <2>3. CASE ~(sel[l.a] = l.sel /\ ~l.chg)
    BY <2>1, <2>3
  <2>. QED  BY <2>2, <2>3
<1>4. PICK p : p = IF l.old # l.sel THEN "listold" ELSE "listnodes"
  BY Zenon
<1>5. PICK m : m = [l EXCEPT !.v = v]
  BY Zenon
<1>6. /\ pc[h] = "write" /\ Goto(h, p, m)
      /\ sel' = [sel EXCEPT ![l.a] = l.sel] /\ ver' = [ver EXCEPT ![l.a] = v]
      /\ UNCHANGED <<nodes, labels, apps, shadows, torn, desire, index>>
  BY <1>0, <1>2, <1>3, <1>4, <1>5, Zenon DEF WriteApp, nodeVars, shadowVars
<1>7. m.op = l.op /\ m.a = l.a /\ m.sel = l.sel /\ m.old = l.old /\ m.v = v
  BY <1>1, <1>5 DEF Local
<1>8. /\ Exclusive' /\ pc'[h] = p /\ loc'[h] = m /\ p \in {"listold", "listnodes"}
      /\ \A g \in Handlers \ {h} : pc'[g] = "idle"
  BY <1>4, <1>6, GotoAlone
<1>9. ExceptApp(l.a)'
  BY <1>1, <1>2, <1>6, ExceptAppKept DEF nodeVars, TypeInv, TypeOK
<1>10. \A k \in Nodes : desire'[k][l.a] # 0 => k \in nodes' /\ Match(l.old, k, labels'[k])
  BY <1>2, <1>6 DEF Right, Wanted
<1>11. sel'[l.a] = l.sel /\ ver'[l.a] = v
  BY <1>1, <1>6 DEF TypeInv, TypeOK
<1>12. AppStage(pc[h], loc[h])'
  <2>1. CASE p = "listold"
    <3>1. AppRow(pc[h], loc[h])'
      BY <1>1, <1>2, <1>6, <1>7, <1>8, <1>11, <2>1 DEF AppRow, AppStage
    <3>2. AppDesire(pc[h], loc[h])'
      BY <1>7, <1>8, <1>10, <2>1 DEF AppDesire
    <3>3. AppIndex(pc[h], loc[h])'
      BY <1>8, <2>1 DEF AppIndex
    <3>. QED  BY <1>7, <1>8, <1>9, <3>1, <3>2, <3>3 DEF AppStage
  <2>2. CASE p = "listnodes" /\ l.old = l.sel
    <3>1. AppRow(pc[h], loc[h])'
      BY <1>1, <1>2, <1>6, <1>7, <1>8, <1>11, <2>2 DEF AppRow, AppStage
    <3>2. AppDesire(pc[h], loc[h])'
      BY <1>7, <1>8, <1>10, <2>2 DEF AppDesire
    <3>3. AppIndex(pc[h], loc[h])'
      BY <1>8, <2>2 DEF AppIndex
    <3>. QED  BY <1>7, <1>8, <1>9, <3>1, <3>2, <3>3 DEF AppStage
  <2>. QED  BY <1>4, <2>1, <2>2
<1>13. RowsInv'
  <2>1. v > 0
    <3>1. ver[l.a] > 0 /\ clock \in Nat
      BY <1>1, <1>2 DEF RowsInv, TypeInv, TypeOK
    <3>. QED  BY <1>3, <3>1
  <2>. QED  BY <1>1, <1>6, <2>1 DEF RowsInv, TypeInv, TypeOK
<1>. QED  BY <1>1, <1>7, <1>8, <1>12, <1>13, AppReached DEF AppOps

LEMMA DeleteAppSerial ==
  ASSUME TypeInv, SerialInv, Serialised, NEW h \in Handlers, DeleteApp(h)
  PROVE  SerialInv'
<1>1. PICK a \in UserApps \cap apps :
        /\ Begin(h, "delapp", [Blank EXCEPT !.op = "DeleteApp", !.a = a, !.old = sel[a]])
        /\ UNCHANGED <<nodeVars, appVars, shadowVars, index>>
  BY Zenon DEF DeleteApp
<1>2. PICK m : m = [Blank EXCEPT !.op = "DeleteApp", !.a = a, !.old = sel[a]]
  BY Zenon
<1>3. m.op = "DeleteApp" /\ m.a = a /\ m.old = sel[a] /\ a \in Apps
  BY <1>2 DEF Blank, Apps
<1>4. /\ Consistent /\ Exclusive' /\ pc'[h] = "delapp" /\ loc'[h] = m
      /\ \A g \in Handlers \ {h} : pc'[g] = "idle"
  BY <1>1, <1>2, BeginAlone
<1>5. Consistent'
  BY <1>1, <1>4 DEF Consistent, Right, Listed, Wanted, nodeVars, appVars, shadowVars
<1>6. ExceptApp(a)' /\ \A k \in Nodes : Right(k, a)' /\ Listed(k, a)'
  BY <1>3, <1>5 DEF Consistent, ExceptApp
<1>7. AppStage(pc[h], loc[h])'
  <2>1. AppRow(pc[h], loc[h])'
    BY <1>1, <1>3, <1>4 DEF AppRow, appVars
  <2>2. AppDesire(pc[h], loc[h])'
    BY <1>3, <1>4, <1>6 DEF AppDesire
  <2>3. AppIndex(pc[h], loc[h])'
    BY <1>3, <1>4, <1>6 DEF AppIndex
  <2>. QED  BY <1>3, <1>4, <1>6, <2>1, <2>2, <2>3 DEF AppStage
<1>8. RowsInv'
  BY <1>1, RowsKept DEF SerialInv, shadowVars
<1>. QED  BY <1>3, <1>4, <1>7, <1>8, AppReached DEF AppOps

LEMMA DelAppRowSerial ==
  ASSUME TypeInv, SerialInv, Serialised, NEW h \in Handlers, DelAppRow(h)
  PROVE  SerialInv'
<1>0. PICK l : l = loc[h]
  BY Zenon
<1>1. /\ l \in Local /\ l.op = "DeleteApp" /\ l.a \in Apps
      /\ AppStage("delapp", l) /\ RowsInv
  BY <1>0, HandlerFacts DEF DelAppRow, Role, AppOps, Apps
<1>2. /\ ExceptApp(l.a) /\ l.old = sel[l.a]
      /\ \A k \in Nodes : Right(k, l.a)
  BY <1>1 DEF AppStage, AppRow, AppDesire, AppIndex
<1>3. /\ pc[h] = "delapp" /\ Goto(h, "listold", l)
      /\ apps' = apps \ {l.a} /\ sel' = [sel EXCEPT ![l.a] = {}]
      /\ UNCHANGED <<nodes, labels, ver, shadows, torn, desire, index>>
  BY <1>0 DEF DelAppRow, nodeVars, shadowVars
<1>4. /\ Exclusive' /\ pc'[h] = "listold" /\ loc'[h] = l
      /\ \A g \in Handlers \ {h} : pc'[g] = "idle"
  BY <1>3, GotoAlone
<1>5. ExceptApp(l.a)'
  BY <1>1, <1>2, <1>3, ExceptAppKept DEF nodeVars, TypeInv, TypeOK
<1>6. \A k \in Nodes : desire'[k][l.a] # 0 => k \in nodes' /\ Match(l.old, k, labels'[k])
  BY <1>2, <1>3 DEF Right, Wanted
<1>7. AppStage(pc[h], loc[h])'
  <2>1. AppRow(pc[h], loc[h])'
    BY <1>1, <1>3, <1>4 DEF AppRow, AppStage
  <2>2. AppDesire(pc[h], loc[h])'
    BY <1>4, <1>6 DEF AppDesire
  <2>3. AppIndex(pc[h], loc[h])'
    BY <1>4 DEF AppIndex
  <2>. QED  BY <1>4, <1>5, <2>1, <2>2, <2>3 DEF AppStage
<1>8. RowsInv'
  BY <1>1, <1>3 DEF RowsInv, TypeInv, TypeOK
<1>. QED  BY <1>1, <1>4, <1>7, <1>8, AppReached DEF AppOps
=============================================================================
