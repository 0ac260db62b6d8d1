----------------------- MODULE DeploymentIndexStages ------------------------
(***************************************************************************)
(* The stages that refresh the index, which every operation passes, for    *)
(* DeploymentSerial.                                                       *)
(***************************************************************************)
EXTENDS DeploymentStages

LEMMA ClearIndexSerial ==
  ASSUME TypeInv, SerialInv, Serialised, NEW h \in Handlers, ClearIndex(h)
  PROVE  SerialInv'
<1>0. PICK l : l = loc[h]
  BY Zenon
<1>1. /\ pc[h] = "clearidx" /\ l \in Local /\ RowsInv /\ Role("clearidx", l)
      /\ UNCHANGED <<nodes, labels, appVars, shadows, torn, desire, dver>>
  BY <1>0, HandlerFacts DEF ClearIndex, nodeVars, shadowVars
<1>2. RowsInv'
  BY <1>1, RowsKept
<1>3. \A k \in Nodes, b \in Apps : Wanted(k, b)' = Wanted(k, b)
  BY <1>1 DEF Wanted, appVars
<1>4. CASE l.op = "UpdateNode"
  <2>1. /\ l.n \in Nodes /\ PutNodeStage("clearidx", l)
        /\ Goto(h, "listapps", l) /\ index' = {r \in index : r[2] # l.n}
    BY <1>0, <1>1, <1>4, HandlerFacts DEF ClearIndex, Others, Role, NodeOps
  <2>2. /\ Exclusive' /\ pc'[h] = "listapps" /\ loc'[h] = l
        /\ \A g \in Handlers \ {h} : pc'[g] = "idle"
    BY <1>1, <2>1, GotoAlone
  <2>3. ExceptNode(l.n)
    BY <2>1 DEF PutNodeStage
  <2>4. ExceptNode(l.n)'
    BY <1>1, <2>1, <2>3, ExceptNodeKept
  <2>5. PutNodeStage(pc[h], loc[h])'
    BY <1>1, <1>4, <2>1, <2>2, <2>4 DEF PutNodeStage
  <2>. QED  BY <1>2, <1>4, <2>2, <2>5, PutNodeReached
<1>5. CASE l.op = "DeleteNode"
  <2>1. /\ l.n \in Nodes /\ DeleteNodeStage("clearidx", l) /\ l.sys \subseteq Apps
        /\ Goto(h, "delsys", l) \/ Finish(h)
        /\ index' = {r \in index : r[2] # l.n}
    BY <1>0, <1>1, <1>5, HandlerFacts DEF ClearIndex, Others, Role, NodeOps, Local, Apps
  <2>2. /\ ExceptNode(l.n) /\ l.todo \subseteq l.sys /\ l.n \notin nodes /\ l.n \notin shadows
        /\ \A a \in l.sys, m \in Nodes \ {l.n} : Wanted(m, a) = 0
        /\ \A a \in Apps : Right(l.n, a)
    BY <2>1 DEF DeleteNodeStage
  <2>3. ExceptNode(l.n)'
    BY <1>1, <2>1, <2>2, ExceptNodeKept
  <2>4. \A a \in Apps : Right(l.n, a)' /\ Listed(l.n, a)'
    BY <1>1, <2>1, <2>2 DEF Right, Listed, Wanted, appVars
  <2>5. \A a \in l.sys, m \in Nodes \ {l.n} : Wanted(m, a)' = 0
    BY <1>3, <2>1, <2>2
  <2>6. CASE Goto(h, "delsys", l)
    <3>1. /\ Exclusive' /\ pc'[h] = "delsys" /\ loc'[h] = l
          /\ \A g \in Handlers \ {h} : pc'[g] = "idle"
      BY <1>1, <2>6, GotoAlone
    <3>2. DeleteNodeStage(pc[h], loc[h])'
      BY <1>1, <2>2, <2>3, <2>4, <2>5, <3>1 DEF DeleteNodeStage
    <3>. QED  BY <1>2, <1>5, <3>1, <3>2, DeleteNodeReached
  <2>7. CASE Finish(h)
    <3>1. shadows' = nodes'
      BY <1>1, <2>2 DEF ExceptNode
    <3>2. Consistent'
      BY <2>3, <2>4, <3>1 DEF Consistent, ExceptNode
    <3>. QED  BY <1>1, <1>2, <2>7, <3>2, FinishAlone, EndReached
  <2>. QED  BY <2>1, <2>6, <2>7
<1>6. CASE l.op \in {"UpdateApp", "DeleteApp"}
  <2>1. /\ l.a \in Apps /\ AppStage("clearidx", l)
        /\ l.op = "UpdateApp" => Goto(h, "listnodes", l)
        /\ l.op = "DeleteApp" => Finish(h)
        /\ index' = {r \in index : r[1] # l.a}
    BY <1>0, <1>1, <1>6, HandlerFacts DEF ClearIndex, Others, Role, NodeOps, AppOps, Apps
  <2>2. ExceptApp(l.a) /\ \A k \in Nodes : desire[k][l.a] = 0
    BY <2>1 DEF AppStage, AppRow, AppDesire, AppIndex
  <2>3. ExceptApp(l.a)'
    BY <1>1, <2>1, <2>2, ExceptAppKept DEF nodeVars, appVars
  <2>4. CASE l.op = "UpdateApp"
    <3>1. /\ Exclusive' /\ pc'[h] = "listnodes" /\ loc'[h] = l
          /\ \A g \in Handlers \ {h} : pc'[g] = "idle"
      BY <1>1, <2>1, <2>4, GotoAlone
    <3>2. AppStage(pc[h], loc[h])'
      <4>1. AppRow(pc[h], loc[h])'
        BY <1>1, <2>1, <2>4, <3>1 DEF AppRow, AppStage, appVars
      <4>2. AppDesire(pc[h], loc[h])'
        BY <1>1, <2>2, <3>1 DEF AppDesire
      <4>3. AppIndex(pc[h], loc[h])'
        BY <3>1 DEF AppIndex
      <4>. QED  BY <2>3, <3>1, <4>1, <4>2, <4>3 DEF AppStage
    <3>. QED  BY <1>2, <2>4, <3>1, <3>2, AppReached DEF AppOps
  <2>5. CASE l.op = "DeleteApp"
    <3>1. l.a \notin apps
      BY <2>1, <2>5 DEF AppStage, AppRow, AppDesire, AppIndex
    <3>2. \A k \in Nodes : Right(k, l.a)' /\ Listed(k, l.a)'
      BY <1>1, <2>1, <2>2, <3>1 DEF Right, Listed, Wanted, appVars
    <3>3. Consistent'
      BY <2>3, <3>2 DEF Consistent, ExceptApp
    <3>. QED  BY <1>1, <1>2, <2>1, <2>5, <3>3, FinishAlone, EndReached
  <2>. QED  BY <1>6, <2>4, <2>5
<1>. QED  BY <1>1, <1>4, <1>5, <1>6 DEF Role

LEMMA IndexDeleteSerial ==
  ASSUME TypeInv, SerialInv, Serialised, NEW h \in Handlers, IndexDelete(h)
  PROVE  SerialInv'
<1>0. PICK l : l = loc[h]
  BY Zenon
<1>1. /\ pc[h] = "idxdel" /\ l \in Local /\ RowsInv /\ Role("idxdel", l)
      /\ UNCHANGED <<nodes, labels, appVars, shadows, torn, desire, dver>>
      /\ (l.rows = {} /\ Finish(h)) \/ Goto(h, "idxins", l)
  BY <1>0, HandlerFacts DEF IndexDelete, nodeVars, shadowVars
<1>2. RowsInv'
  BY <1>1, RowsKept
<1>3. \A k \in Nodes, b \in Apps : Wanted(k, b)' = Wanted(k, b)
  BY <1>1 DEF Wanted, appVars
<1>4. CASE l.op \in {"CreateNode", "UpdateNode"}
  <2>1. /\ l.n \in Nodes /\ PutNodeStage("idxdel", l) /\ index' = {r \in index : r[2] # l.n}
    BY <1>0, <1>1, <1>4, HandlerFacts DEF IndexDelete, Others, Role, NodeOps
  <2>2. /\ ExceptNode(l.n) /\ l.n \in nodes /\ l.n \in shadows /\ labels[l.n] = l.ls
        /\ \A a \in Apps : Right(l.n, a)
        /\ l.rows = {a \in Apps : Wanted(l.n, a) # 0} \X {l.n}
    BY <2>1 DEF PutNodeStage
  <2>3. ExceptNode(l.n)'
    BY <1>1, <2>1, <2>2, ExceptNodeKept
  <2>4. \A a \in Apps : Right(l.n, a)'
    BY <1>1, <1>3, <2>1, <2>2 DEF Right
  <2>5. \A a \in Apps : <<a, l.n>> \notin index' /\ (<<a, l.n>> \in l.rows <=> Wanted(l.n, a) # 0)
    BY <2>1, <2>2
  <2>6. CASE l.rows = {} /\ Finish(h)
    <3>1. \A a \in Apps : Listed(l.n, a)'
      BY <1>3, <2>1, <2>5, <2>6 DEF Listed
    <3>2. shadows' = nodes'
      BY <1>1, <2>2 DEF ExceptNode
    <3>3. Consistent'
      BY <2>3, <2>4, <3>1, <3>2 DEF Consistent, ExceptNode
    <3>. QED  BY <1>1, <1>2, <2>6, <3>3, FinishAlone, EndReached
  <2>7. CASE Goto(h, "idxins", l)
    <3>1. /\ Exclusive' /\ pc'[h] = "idxins" /\ loc'[h] = l
          /\ \A g \in Handlers \ {h} : pc'[g] = "idle"
      BY <1>1, <2>7, GotoAlone
    <3>2. /\ l.rows \subseteq Apps \X {l.n}
          /\ \A a \in Apps : <<a, l.n>> \in index' \cup l.rows <=> Wanted(l.n, a)' # 0
      BY <1>3, <2>1, <2>2, <2>5
    <3>3. PutNodeStage(pc[h], loc[h])'
      BY <1>1, <1>4, <2>2, <2>3, <2>4, <3>1, <3>2 DEF PutNodeStage
    <3>. QED  BY <1>2, <1>4, <3>1, <3>3, PutNodeReached
  <2>. QED  BY <1>1, <2>6, <2>7
<1>5. CASE l.op \in {"CreateApp", "UpdateApp"}
  <2>1. /\ l.a \in Apps /\ AppStage("idxdel", l) /\ index' = {r \in index : r[1] # l.a}
    BY <1>0, <1>1, <1>5, HandlerFacts DEF IndexDelete, Others, Role, NodeOps, AppOps, Apps
  <2>2. /\ ExceptApp(l.a) /\ \A k \in Nodes : Right(k, l.a)
        /\ l.rows = {l.a} \X {k \in Nodes : Wanted(k, l.a) # 0}
    BY <2>1 DEF AppStage, AppRow, AppDesire, AppIndex
  <2>3. ExceptApp(l.a)'
    BY <1>1, <2>1, <2>2, ExceptAppKept, Zenon DEF nodeVars, appVars
  <2>4. \A k \in Nodes : Right(k, l.a)'
    BY <1>1, <1>3, <2>1, <2>2 DEF Right
  <2>5. \A k \in Nodes : <<l.a, k>> \notin index' /\ (<<l.a, k>> \in l.rows <=> Wanted(k, l.a) # 0)
    BY <2>1, <2>2
  <2>6. CASE l.rows = {} /\ Finish(h)
    <3>1. \A k \in Nodes : Listed(k, l.a)'
      BY <1>3, <2>1, <2>5, <2>6 DEF Listed
    <3>2. Consistent'
      BY <2>3, <2>4, <3>1 DEF Consistent, ExceptApp
    <3>. QED  BY <1>1, <1>2, <2>6, <3>2, FinishAlone, EndReached
  <2>7. CASE Goto(h, "idxins", l)
    <3>1. /\ Exclusive' /\ pc'[h] = "idxins" /\ loc'[h] = l
          /\ \A g \in Handlers \ {h} : pc'[g] = "idle"
      BY <1>1, <2>7, GotoAlone
    <3>2. /\ l.rows \subseteq {l.a} \X Nodes
          /\ \A k \in Nodes : <<l.a, k>> \in index' \cup l.rows <=> Wanted(k, l.a)' # 0
      BY <1>3, <2>1, <2>2, <2>5
    <3>3. AppStage(pc[h], loc[h])'
      <4>1. AppRow(pc[h], loc[h])'
        BY <1>1, <1>5, <2>1, <3>1 DEF AppRow, AppStage, appVars
      <4>2. AppDesire(pc[h], loc[h])'
        BY <2>4, <3>1 DEF AppDesire
      <4>3. AppIndex(pc[h], loc[h])'
        BY <3>1, <3>2 DEF AppIndex
      <4>. QED  BY <2>3, <3>1, <4>1, <4>2, <4>3 DEF AppStage
    <3>. QED  BY <1>2, <1>5, <3>1, <3>3, AppReached DEF AppOps
  <2>. QED  BY <1>1, <2>6, <2>7
<1>. QED  BY <1>1, <1>4, <1>5 DEF Role, LockedOps

LEMMA IndexInsertSerial ==
  ASSUME TypeInv, SerialInv, Serialised, NEW h \in Handlers, IndexInsert(h)
  PROVE  SerialInv'
<1>0. PICK l : l = loc[h]
  BY Zenon
<1>1. /\ pc[h] = "idxins" /\ l \in Local /\ RowsInv /\ Role("idxins", l)
      /\ UNCHANGED <<nodes, labels, appVars, shadows, torn, desire, dver>>
  BY <1>0, HandlerFacts DEF IndexInsert, nodeVars, shadowVars
<1>2. PICK r \in l.rows :
        /\ index' = index \cup {r}
        /\ \/ l.rows = {r} /\ Finish(h)
           \/ Goto(h, "idxins", [l EXCEPT !.rows = l.rows \ {r}])
  BY <1>0, Zenon DEF IndexInsert
<1>3. PICK m : m = [l EXCEPT !.rows = l.rows \ {r}]
  BY Zenon
<1>4. /\ m.op = l.op /\ m.n = l.n /\ m.a = l.a /\ m.ls = l.ls /\ m.sel = l.sel /\ m.v = l.v
      /\ m.rows = l.rows \ {r}
  BY <1>1, <1>3, Zenon DEF Local
<1>5. RowsInv'
  BY <1>1, RowsKept
<1>6. \A k \in Nodes, b \in Apps : Wanted(k, b)' = Wanted(k, b)
  BY <1>1 DEF Wanted, appVars
<1>7. CASE l.op \in {"CreateNode", "UpdateNode"}
  <2>1. l.n \in Nodes /\ PutNodeStage("idxins", l)
    BY <1>0, <1>1, <1>7, HandlerFacts DEF Role, NodeOps
  <2>2. /\ ExceptNode(l.n) /\ l.n \in nodes /\ l.n \in shadows /\ labels[l.n] = l.ls
        /\ \A a \in Apps : Right(l.n, a)
        /\ l.rows \subseteq Apps \X {l.n}
        /\ \A a \in Apps : <<a, l.n>> \in index \cup l.rows <=> Wanted(l.n, a) # 0
    BY <2>1 DEF PutNodeStage
  <2>3. ExceptNode(l.n)'
    BY <1>1, <1>2, <2>1, <2>2, ExceptNodeKept
  <2>4. \A a \in Apps : Right(l.n, a)'
    BY <1>1, <1>6, <2>1, <2>2 DEF Right
  <2>5. \A a \in Apps : <<a, l.n>> \in index' \cup (l.rows \ {r}) <=> Wanted(l.n, a)' # 0
    BY <1>2, <1>6, <2>1, <2>2
  <2>6. CASE l.rows = {r} /\ Finish(h)
    <3>1. \A a \in Apps : Listed(l.n, a)'
      BY <2>1, <2>5, <2>6 DEF Listed
    <3>2. shadows' = nodes'
      BY <1>1, <2>2 DEF ExceptNode
    <3>3. Consistent'
      BY <2>3, <2>4, <3>1, <3>2 DEF Consistent, ExceptNode
    <3>. QED  BY <1>1, <1>5, <2>6, <3>3, FinishAlone, EndReached
  <2>7. CASE Goto(h, "idxins", m)
    <3>1. /\ Exclusive' /\ pc'[h] = "idxins" /\ loc'[h] = m
          /\ \A g \in Handlers \ {h} : pc'[g] = "idle"
      BY <1>1, <2>7, GotoAlone
    <3>2. m.rows \subseteq Apps \X {l.n}
      BY <1>4, <2>2
    <3>3. PutNodeStage(pc[h], loc[h])'
      BY <1>1, <1>4, <1>7, <2>2, <2>3, <2>4, <2>5, <3>1, <3>2 DEF PutNodeStage
    <3>. QED  BY <1>4, <1>5, <1>7, <3>1, <3>3, PutNodeReached
  <2>. QED  BY <1>2, <1>3, <2>6, <2>7
<1>8. CASE l.op \in {"CreateApp", "UpdateApp"}
  <2>1. l.a \in Apps /\ AppStage("idxins", l)
    BY <1>0, <1>1, <1>8, HandlerFacts DEF Role, AppOps, Apps
  <2>2. /\ ExceptApp(l.a) /\ \A k \in Nodes : Right(k, l.a)
        /\ l.rows \subseteq {l.a} \X Nodes
        /\ \A k \in Nodes : <<l.a, k>> \in index \cup l.rows <=> Wanted(k, l.a) # 0
    BY <2>1 DEF AppStage, AppRow, AppDesire, AppIndex
  <2>3. ExceptApp(l.a)'
    BY <1>1, <1>2, <2>1, <2>2, ExceptAppKept DEF nodeVars, appVars
  <2>4. \A k \in Nodes : Right(k, l.a)'
    BY <1>1, <1>6, <2>1, <2>2, Zenon DEF Right
  <2>5. \A k \in Nodes : <<l.a, k>> \in index' \cup (l.rows \ {r}) <=> Wanted(k, l.a)' # 0
    BY <1>2, <1>6, <2>1, <2>2
  <2>6. CASE l.rows = {r} /\ Finish(h)
    <3>1. \A k \in Nodes : Listed(k, l.a)'
      BY <2>1, <2>5, <2>6 DEF Listed
    <3>2. Consistent'
      BY <2>3, <2>4, <3>1 DEF Consistent, ExceptApp
    <3>. QED  BY <1>1, <1>5, <2>6, <3>2, FinishAlone, EndReached
  <2>7. CASE Goto(h, "idxins", m)
    <3>1. /\ Exclusive' /\ pc'[h] = "idxins" /\ loc'[h] = m
          /\ \A g \in Handlers \ {h} : pc'[g] = "idle"
      BY <1>1, <2>7, GotoAlone
    <3>2. m.rows \subseteq {l.a} \X Nodes
      BY <1>4, <2>2
    <3>3. AppStage(pc[h], loc[h])'
      <4>1. AppRow(pc[h], loc[h])'
        BY <1>1, <1>4, <1>8, <2>1, <3>1 DEF AppRow, AppStage, appVars
      <4>2. AppDesire(pc[h], loc[h])'
        BY <1>4, <2>4, <3>1 DEF AppDesire
      <4>3. AppIndex(pc[h], loc[h])'
        BY <1>4, <2>5, <3>1, <3>2 DEF AppIndex
      <4>. QED  BY <1>4, <2>3, <3>1, <4>1, <4>2, <4>3 DEF AppStage
    <3>. QED  BY <1>4, <1>5, <1>8, <3>1, <3>3, AppReached DEF AppOps
  <2>. QED  BY <1>2, <1>3, <2>6, <2>7
<1>. QED  BY <1>1, <1>7, <1>8 DEF Role, LockedOps
=============================================================================
