----------------------- MODULE DeploymentDesireStages -----------------------
(***************************************************************************)
(* The stages that write desires: of the nodes an application operation    *)
(* lists, and of the node that is created or updated; for DeploymentSerial.*)
(***************************************************************************)
EXTENDS DeploymentStages

LEMMA ListNodesSerial ==
  ASSUME TypeInv, SerialInv, Serialised, NEW h \in Handlers, ListNodes(h)
  PROVE  SerialInv'
<1>0. PICK l, q : l = loc[h] /\ q = pc[h]
  BY Zenon
<1>1. /\ q \in {"listold", "listnodes"} /\ l \in Local /\ l.op \in AppOps /\ l.a \in Apps
      /\ AppStage(q, l) /\ RowsInv /\ Role(q, l)
  BY <1>0, HandlerFacts DEF ListNodes, Role, AppOps, Apps
<1>2. PICK s, p : /\ q = "listold" => s = l.old /\ p = "readold"
                  /\ q = "listnodes" => s = l.sel /\ p = "readnew"
                  /\ p \in {"readold", "readnew"}
                  /\ p = "readold" => q = "listold"
                  /\ p = "readnew" => q = "listnodes"
  <2>1. CASE q = "listold"
    BY <2>1
  <2>2. CASE q = "listnodes"
    BY <2>2
  <2>. QED  BY <1>1, <2>1, <2>2
<1>3. PICK m : m = [l EXCEPT !.names = {n \in nodes : Match(s, n, labels[n])}]
  BY Zenon
<1>4. /\ Goto(h, p, m)
      /\ UNCHANGED <<nodes, labels, appVars, shadows, torn, desire, index>>
  BY <1>0, <1>1, <1>2, <1>3, Zenon DEF ListNodes, nodeVars, shadowVars
<1>5. /\ m.op = l.op /\ m.a = l.a /\ m.sel = l.sel /\ m.old = l.old /\ m.v = l.v
      /\ m.names = {n \in nodes : Match(s, n, labels[n])}
  BY <1>1, <1>3 DEF Local
<1>6. /\ Exclusive' /\ pc'[h] = p /\ loc'[h] = m
      /\ \A g \in Handlers \ {h} : pc'[g] = "idle"
  BY <1>0, <1>1, <1>4, GotoAlone
<1>7. ExceptApp(l.a)
  BY <1>1 DEF AppStage, AppRow, AppDesire, AppIndex
<1>8. ExceptApp(l.a)'
  BY <1>1, <1>4, <1>7, ExceptAppKept DEF nodeVars, appVars
<1>9. AppStage(pc[h], loc[h])'
  <2>1. CASE q = "listold"
    <3>1. AppRow(pc[h], loc[h])'
      BY <1>1, <1>2, <1>4, <1>5, <1>6, <2>1 DEF AppRow, AppStage, appVars
    <3>2. AppDesire(pc[h], loc[h])'
      BY <1>1, <1>2, <1>4, <1>5, <1>6, <2>1 DEF AppDesire, AppStage
    <3>3. AppIndex(pc[h], loc[h])'
      BY <1>2, <1>6, <2>1 DEF AppIndex
    <3>. QED  BY <1>5, <1>6, <1>8, <3>1, <3>2, <3>3 DEF AppStage
  <2>2. CASE q = "listnodes"
    <3>1. AppRow(pc[h], loc[h])'
      BY <1>1, <1>2, <1>4, <1>5, <1>6, <2>2 DEF AppRow, AppStage, appVars
    <3>2. AppDesire(pc[h], loc[h])'
      BY <1>1, <1>2, <1>4, <1>5, <1>6, <2>2 DEF AppDesire, AppStage
    <3>3. AppIndex(pc[h], loc[h])'
      BY <1>2, <1>6, <2>2 DEF AppIndex
    <3>. QED  BY <1>5, <1>6, <1>8, <3>1, <3>2, <3>3 DEF AppStage
  <2>. QED  BY <1>1, <2>1, <2>2
<1>10. RowsInv'
  BY <1>1, <1>4, RowsKept
<1>. QED  BY <1>1, <1>2, <1>5, <1>6, <1>9, <1>10, AppReached

LEMMA ReadShadowsSerial ==
  ASSUME TypeInv, SerialInv, Serialised, NEW h \in Handlers, ReadShadows(h)
  PROVE  SerialInv'
<1>0. PICK l, q : l = loc[h] /\ q = pc[h]
  BY Zenon
<1>1. /\ q \in {"readold", "readnew"} /\ l \in Local /\ l.op \in AppOps /\ l.a \in Apps
      /\ AppStage(q, l) /\ RowsInv /\ Role(q, l)
  BY <1>0, HandlerFacts DEF ReadShadows, Role, AppOps, Apps
<1>2. PICK p : /\ q = "readold" => p = "dropdesire"
               /\ q = "readnew" => p = "setdesire"
               /\ p \in {"dropdesire", "setdesire"}
  <2>1. CASE q = "readold"
    BY <2>1
  <2>2. CASE q = "readnew"
    BY <2>2
  <2>. QED  BY <1>1, <2>1, <2>2
<1>3. PICK m : m = [l EXCEPT !.got = l.names \cap shadows, !.shad = desire, !.dv = dver]
  BY Zenon
<1>4. /\ Goto(h, p, m)
      /\ UNCHANGED <<nodes, labels, appVars, shadows, torn, desire, index>>
  BY <1>0, <1>1, <1>2, <1>3 DEF ReadShadows, RowsInv, nodeVars, shadowVars
<1>5. /\ m.op = l.op /\ m.a = l.a /\ m.sel = l.sel /\ m.old = l.old /\ m.v = l.v
      /\ m.names = l.names /\ m.got = l.names \cap shadows /\ m.shad = desire
  BY <1>1, <1>3 DEF Local
<1>6. /\ Exclusive' /\ pc'[h] = p /\ loc'[h] = m
      /\ \A g \in Handlers \ {h} : pc'[g] = "idle"
  BY <1>0, <1>1, <1>4, GotoAlone
<1>7. ExceptApp(l.a)
  BY <1>1 DEF AppStage, AppRow, AppDesire, AppIndex
<1>8. ExceptApp(l.a)'
  BY <1>1, <1>4, <1>7, ExceptAppKept DEF nodeVars, appVars
<1>9. m.got = m.names
  <2>1. l.names \subseteq nodes
    BY <1>1 DEF AppStage, AppRow, AppDesire, AppIndex
  <2>. QED  BY <1>5, <1>7, <2>1 DEF ExceptApp
<1>10. AppStage(pc[h], loc[h])'
  <2>1. CASE q = "readold"
    <3>1. AppRow(pc[h], loc[h])'
      BY <1>1, <1>2, <1>4, <1>5, <1>6, <2>1 DEF AppRow, AppStage, appVars
    <3>2. AppDesire(pc[h], loc[h])'
      BY <1>1, <1>2, <1>4, <1>5, <1>6, <1>9, <2>1 DEF AppDesire, AppStage
    <3>3. AppIndex(pc[h], loc[h])'
      BY <1>2, <1>6, <2>1 DEF AppIndex
    <3>. QED  BY <1>5, <1>6, <1>8, <3>1, <3>2, <3>3 DEF AppStage
  <2>2. CASE q = "readnew"
    <3>1. AppRow(pc[h], loc[h])'
      BY <1>1, <1>2, <1>4, <1>5, <1>6, <2>2 DEF AppRow, AppStage, appVars
    <3>2. AppDesire(pc[h], loc[h])'
      BY <1>1, <1>2, <1>4, <1>5, <1>6, <1>9, <2>2 DEF AppDesire, AppStage
    <3>3. AppIndex(pc[h], loc[h])'
      BY <1>2, <1>6, <2>2 DEF AppIndex
    <3>. QED  BY <1>5, <1>6, <1>8, <3>1, <3>2, <3>3 DEF AppStage
  <2>. QED  BY <1>1, <2>1, <2>2
<1>11. RowsInv'
  BY <1>1, <1>4, RowsKept
<1>. QED  BY <1>1, <1>2, <1>5, <1>6, <1>10, <1>11, AppReached

LEMMA UpdateDesiresSerial ==
  ASSUME TypeInv, SerialInv, Serialised, NEW h \in Handlers, UpdateDesires(h)
  PROVE  SerialInv'
<1>0. PICK l, q : l = loc[h] /\ q = pc[h]
  BY Zenon
<1>1. /\ q \in {"dropdesire", "setdesire"} /\ l \in Local /\ l.op \in AppOps /\ l.a \in Apps
      /\ AppStage(q, l) /\ RowsInv /\ Role(q, l) /\ l.v \in Nat
  BY <1>0, HandlerFacts, Zenon DEF UpdateDesires, Role, AppOps, Apps, Local
<1>2. /\ ExceptApp(l.a) /\ l.got = l.names /\ l.shad = desire /\ l.names \subseteq nodes
      /\ shadows = nodes /\ torn = {}
  BY <1>1 DEF AppStage, AppRow, AppDesire, AppIndex, ExceptApp, RowsInv
<1>3. PICK v \in Nat : v = IF q = "dropdesire" THEN 0 ELSE l.v
  BY <1>1
<1>4. /\ desire' = [n \in Nodes |-> IF n \in l.names THEN [desire[n] EXCEPT ![l.a] = v]
                                                    ELSE desire[n]]
      /\ shadows' = shadows /\ torn' = torn
      /\ UNCHANGED <<nodes, labels, appVars, index>>
  BY <1>0, <1>2, <1>3 DEF UpdateDesires, nodeVars
<1>5. ASSUME NEW k \in Nodes, NEW b \in Apps
      PROVE  desire'[k][b] = IF k \in l.names /\ b = l.a THEN v ELSE desire[k][b]
  BY <1>1, <1>4 DEF TypeInv, TypeOK
<1>6. ExceptApp(l.a)'
  BY <1>1, <1>2, <1>4, <1>5, ExceptAppKept DEF nodeVars, appVars
<1>7. RowsInv'
  BY <1>1, <1>4, RowsKept
<1>8. CASE q = "dropdesire"
  <2>1. PICK m : m = [l EXCEPT !.rows = {}]
    BY Zenon
  <2>2. Goto(h, "clearidx", m)
    BY <1>0, <1>8, <2>1, Zenon DEF UpdateDesires
  <2>3. m.op = l.op /\ m.a = l.a /\ m.sel = l.sel /\ m.v = l.v
    BY <1>1, <2>1 DEF Local
  <2>4. /\ Exclusive' /\ pc'[h] = "clearidx" /\ loc'[h] = m
        /\ \A g \in Handlers \ {h} : pc'[g] = "idle"
    BY <1>0, <1>8, <2>2, GotoAlone, Zenon
  <2>5. \A k \in Nodes : desire'[k][l.a] = 0
    BY <1>1, <1>3, <1>5, <1>8 DEF AppStage, AppRow, AppDesire, AppIndex
  <2>6. AppStage(pc[h], loc[h])'
    <3>1. AppRow(pc[h], loc[h])'
      BY <1>1, <1>4, <1>8, <2>3, <2>4 DEF AppRow, AppStage, appVars
    <3>2. AppDesire(pc[h], loc[h])'
      BY <2>3, <2>4, <2>5 DEF AppDesire
    <3>3. AppIndex(pc[h], loc[h])'
      BY <2>4 DEF AppIndex
    <3>. QED  BY <1>6, <2>3, <2>4, <3>1, <3>2, <3>3 DEF AppStage
  <2>. QED  BY <1>1, <1>7, <2>3, <2>4, <2>6, AppReached
<1>9. CASE q = "setdesire"
  <2>1. PICK m : m = [l EXCEPT !.rows = {l.a} \X l.names]
    BY Zenon
  <2>2. Goto(h, "idxdel", m)
    BY <1>0, <1>9, <2>1, Zenon DEF UpdateDesires
  <2>3. m.op = l.op /\ m.a = l.a /\ m.sel = l.sel /\ m.v = l.v /\ m.rows = {l.a} \X l.names
    BY <1>1, <2>1 DEF Local
  <2>4. /\ Exclusive' /\ pc'[h] = "idxdel" /\ loc'[h] = m
        /\ \A g \in Handlers \ {h} : pc'[g] = "idle"
    BY <1>0, <1>9, <2>2, GotoAlone, Zenon
  <2>5. /\ l.a \in apps /\ sel[l.a] = l.sel /\ ver[l.a] = l.v /\ l.v > 0
        /\ l.names = {k \in nodes : Match(l.sel, k, labels[k])}
        /\ \A k \in Nodes : desire[k][l.a] # 0 => k \in l.names
    BY <1>1, <1>9, Zenon DEF AppStage, AppRow, AppDesire, AppIndex, RowsInv, Role
  <2>6. ASSUME NEW k \in Nodes
        PROVE  Wanted(k, l.a)' = IF k \in l.names THEN l.v ELSE 0
    BY <1>4, <2>5, Zenon DEF Wanted, appVars
  <2>7. \A k \in Nodes : Right(k, l.a)'
    BY <1>1, <1>3, <1>5, <1>9, <2>5, <2>6, Zenon DEF Right
  <2>8. l.names = {k \in Nodes : Wanted(k, l.a)' # 0}
    BY <1>2, <2>5, <2>6 DEF TypeInv, TypeOK
  <2>9. m.rows = {l.a} \X {k \in Nodes : Wanted(k, l.a)' # 0}
    BY <2>3, <2>8
  <2>10. AppStage(pc[h], loc[h])'
    <3>1. AppRow(pc[h], loc[h])'
      BY <1>1, <1>4, <1>9, <2>3, <2>4, <2>5 DEF AppRow, AppStage, appVars
    <3>2. AppDesire(pc[h], loc[h])'
      BY <2>3, <2>4, <2>7 DEF AppDesire
    <3>3. AppIndex(pc[h], loc[h])'
      BY <2>3, <2>4, <2>9 DEF AppIndex
    <3>. QED  BY <1>6, <2>3, <2>4, <3>1, <3>2, <3>3 DEF AppStage
  <2>. QED  BY <1>1, <1>7, <2>3, <2>4, <2>10, AppReached
<1>. QED  BY <1>1, <1>8, <1>9

LEMMA NewShadowSerial ==
  ASSUME TypeInv, SerialInv, Serialised, NEW h \in Handlers, NewShadow(h)
  PROVE  SerialInv'
<1>0. PICK l : l = loc[h]
  BY Zenon
<1>1. /\ l \in Local /\ l.op = "CreateNode" /\ l.n \in Nodes
      /\ PutNodeStage("newshadow", l) /\ RowsInv
  BY <1>0, HandlerFacts DEF NewShadow, Role, NodeOps
<1>2. /\ ExceptNode(l.n) /\ l.n \in nodes /\ labels[l.n] = l.ls /\ l.n \notin shadows
      /\ \A a \in Apps : l.want[a] = Wanted(l.n, a)
      /\ l.rows = {a \in Apps : Wanted(l.n, a) # 0} \X {l.n}
  BY <1>1 DEF PutNodeStage
<1>3. /\ pc[h] = "newshadow" /\ Goto(h, "idxdel", l)
      /\ shadows' = shadows \cup {l.n} /\ desire' = [desire EXCEPT ![l.n] = l.want]
      /\ UNCHANGED <<nodes, labels, appVars, torn, index>>
  BY <1>0, <1>1, <1>2 DEF NewShadow, nodeVars
<1>4. /\ Exclusive' /\ pc'[h] = "idxdel" /\ loc'[h] = l
      /\ \A g \in Handlers \ {h} : pc'[g] = "idle"
  BY <1>3, GotoAlone
<1>5. ExceptNode(l.n)'
  BY <1>1, <1>2, <1>3, ExceptNodeKept DEF TypeInv, TypeOK
<1>6. \A a \in Apps : Wanted(l.n, a)' = Wanted(l.n, a)
  BY <1>3 DEF Wanted, appVars
<1>7. \A a \in Apps : Right(l.n, a)'
  BY <1>1, <1>2, <1>3, <1>6 DEF Right, TypeInv, TypeOK
<1>8. /\ l.rows = {a \in Apps : Wanted(l.n, a)' # 0} \X {l.n}
      /\ l.n \in nodes' /\ labels'[l.n] = l.ls /\ l.n \in shadows'
  BY <1>2, <1>3, <1>6
<1>9. PutNodeStage(pc[h], loc[h])'
  BY <1>1, <1>4, <1>5, <1>7, <1>8 DEF PutNodeStage
<1>10. RowsInv'
  BY <1>1, <1>3, RowsKept
<1>. QED  BY <1>1, <1>4, <1>9, <1>10, PutNodeReached
=============================================================================
