-------------------------- MODULE DeploymentStages --------------------------
(***************************************************************************)
(* What the proofs of DeploymentSerial share: how an action takes one stage of*)
(* SerialInv (DeploymentInvariant) to the next; and the stages of DeleteNode.*)
(***************************************************************************)
EXTENDS DeploymentProofs

LEMMA BeginAlone ==
  ASSUME TypeInv, SerialInv, Serialised, NEW h \in Handlers, NEW p, NEW l,
         Begin(h, p, l), p # "idle"
  PROVE  /\ Consistent /\ Exclusive' /\ pc'[h] = p /\ loc'[h] = l
         /\ \A g \in Handlers \ {h} : pc'[g] = "idle"
<1>1. \A g \in Handlers : pc[g] = "idle"
  <2>1. CASE \A g \in Handlers : g = h
    BY <2>1 DEF Begin
  <2>2. CASE NamespaceLock /\ Requests \subseteq LockedOps
    BY <2>2, ConstantsAssumption DEF Begin, SerialInv, Exclusive
  <2>. QED  BY <2>1, <2>2 DEF Serialised
<1>2. Consistent
  BY <1>1 DEF SerialInv, Quiescent
<1>3. Exclusive'
  BY <1>1, Moved DEF Exclusive, Begin
<1>. QED  BY <1>1, <1>2, <1>3, Moved

LEMMA GotoAlone ==
  ASSUME TypeInv, SerialInv, NEW h \in Handlers, pc[h] # "idle", NEW p, NEW l,
         Goto(h, p, l)
  PROVE  /\ Exclusive' /\ pc'[h] = p /\ loc'[h] = l
         /\ \A g \in Handlers \ {h} : pc'[g] = "idle"
<1>1. \A g \in Handlers \ {h} : pc'[g] = "idle"
  BY Moved DEF SerialInv, Exclusive
<1>2. Exclusive'
  BY <1>1, Moved DEF SerialInv, Exclusive, Goto
<1>. QED  BY <1>1, <1>2, Moved

LEMMA FinishAlone ==
  ASSUME TypeInv, SerialInv, NEW h \in Handlers, pc[h] # "idle", Finish(h)
  PROVE  Exclusive' /\ \A g \in Handlers : pc'[g] = "idle"
<1>1. \A g \in Handlers : pc'[g] = "idle"
  BY Ended DEF SerialInv, Exclusive
<1>. QED  BY <1>1 DEF Exclusive

LEMMA StageReached ==
  ASSUME NEW h \in Handlers, Exclusive', RowsInv', pc'[h] # "idle",
         \A g \in Handlers \ {h} : pc'[g] = "idle",
         Stage(pc[h], loc[h])'
  PROVE  SerialInv'
  BY DEF SerialInv, Quiescent

LEMMA EndReached ==
  ASSUME Exclusive', RowsInv', \A g \in Handlers : pc'[g] = "idle", Consistent'
  PROVE  SerialInv'
  BY DEF SerialInv

LEMMA RowsKept ==
  ASSUME RowsInv, torn' = torn, UNCHANGED appVars
  PROVE  RowsInv'
  BY DEF RowsInv, appVars

LEMMA ExceptNodeKept ==
  ASSUME NEW n \in Nodes, ExceptNode(n), UNCHANGED appVars,
         nodes' \ {n} = nodes \ {n}, shadows' \ {n} = shadows \ {n},
         \A m \in Nodes \ {n} : labels'[m] = labels[m] /\ desire'[m] = desire[m],
         \A m \in Nodes \ {n}, a \in Apps : <<a, m>> \in index' <=> <<a, m>> \in index
  PROVE  ExceptNode(n)'
<1>1. ASSUME NEW m \in Nodes \ {n}, NEW a \in Apps
      PROVE  /\ Wanted(m, a)' = Wanted(m, a)
             /\ Right(m, a) /\ Listed(m, a)
             /\ desire'[m] = desire[m] /\ (<<a, m>> \in index' <=> <<a, m>> \in index)
  BY DEF Wanted, appVars, ExceptNode
<1>2. ASSUME NEW m \in Nodes \ {n}, NEW a \in Apps
      PROVE  Right(m, a)' /\ Listed(m, a)'
  BY <1>1 DEF Right, Listed
<1>. QED  BY <1>2 DEF ExceptNode

LEMMA ExceptAppKept ==
  ASSUME NEW a \in Apps, ExceptApp(a), UNCHANGED <<nodeVars, shadows>>,
         \A b \in Apps \ {a} : /\ b \in apps' <=> b \in apps
                               /\ sel'[b] = sel[b] /\ ver'[b] = ver[b],
         \A m \in Nodes, b \in Apps \ {a} : /\ desire'[m][b] = desire[m][b]
                                            /\ <<b, m>> \in index' <=> <<b, m>> \in index
  PROVE  ExceptApp(a)'
<1>1. ASSUME NEW m \in Nodes, NEW b \in Apps \ {a}
      PROVE  /\ Wanted(m, b)' = Wanted(m, b)
             /\ Right(m, b) /\ Listed(m, b)
             /\ desire'[m][b] = desire[m][b] /\ (<<b, m>> \in index' <=> <<b, m>> \in index)
  BY DEF Wanted, nodeVars, ExceptApp
<1>2. ASSUME NEW m \in Nodes, NEW b \in Apps \ {a}
      PROVE  Right(m, b)' /\ Listed(m, b)'
  BY <1>1 DEF Right, Listed
<1>. QED  BY <1>2 DEF ExceptApp, nodeVars

LEMMA HandlerFacts ==
  ASSUME TypeInv, SerialInv, NEW h \in Handlers, pc[h] # "idle"
  PROVE  /\ loc[h] \in Local /\ Role(pc[h], loc[h])
         /\ loc[h].op \in {"CreateNode", "UpdateNode"} => PutNodeStage(pc[h], loc[h])
         /\ loc[h].op = "DeleteNode" => DeleteNodeStage(pc[h], loc[h])
         /\ loc[h].op \in AppOps => AppStage(pc[h], loc[h])
         /\ loc[h].op # "Report"
         /\ RowsInv
<1>1. loc[h] \in Local /\ Role(pc[h], loc[h]) /\ Stage(pc[h], loc[h]) /\ RowsInv
  BY DEF TypeInv, TypeOK, SerialInv
<1>. QED  BY <1>1 DEF Stage, AppOps

LEMMA PutNodeReached ==
  ASSUME NEW h \in Handlers, Exclusive', RowsInv', pc'[h] # "idle",
         \A g \in Handlers \ {h} : pc'[g] = "idle",
         loc'[h].op \in {"CreateNode", "UpdateNode"}, PutNodeStage(pc[h], loc[h])'
  PROVE  SerialInv'
<1>1. Stage(pc[h], loc[h])'
  BY DEF Stage, AppOps
<1>. QED  BY <1>1, StageReached

LEMMA DeleteNodeReached ==
  ASSUME NEW h \in Handlers, Exclusive', RowsInv', pc'[h] # "idle",
         \A g \in Handlers \ {h} : pc'[g] = "idle",
         loc'[h].op = "DeleteNode", DeleteNodeStage(pc[h], loc[h])'
  PROVE  SerialInv'
<1>1. Stage(pc[h], loc[h])'
  BY DEF Stage, AppOps
<1>. QED  BY <1>1, StageReached

LEMMA AppReached ==
  ASSUME NEW h \in Handlers, Exclusive', RowsInv', pc'[h] # "idle",
         \A g \in Handlers \ {h} : pc'[g] = "idle",
         loc'[h].op \in AppOps, AppStage(pc[h], loc[h])'
  PROVE  SerialInv'
<1>1. Stage(pc[h], loc[h])'
  BY DEF Stage, AppOps
<1>. QED  BY <1>1, StageReached

LEMMA DeletingFacts ==
  ASSUME TypeInv, SerialInv, NEW h \in Handlers,
         pc[h] \in {"delnode", "delshadow", "delsys", "delsysidx"}
  PROVE  /\ loc[h] \in Local /\ loc[h].op = "DeleteNode" /\ loc[h].n \in Nodes
         /\ loc[h].sys \subseteq Apps /\ loc[h].todo \subseteq Apps
         /\ DeleteNodeStage(pc[h], loc[h]) /\ RowsInv
<1>1. PICK l : l = loc[h]
  BY Zenon
<1>2. l \in Local /\ RowsInv /\ l.op = "DeleteNode"
  BY <1>1, HandlerFacts DEF Role
<1>3. l.n \in Nodes
  BY <1>1, <1>2, HandlerFacts DEF Role, NodeOps
<1>4. l.sys \subseteq Apps /\ l.todo \subseteq Apps
  BY <1>2 DEF Local, Apps
<1>. QED  BY <1>1, <1>2, <1>3, <1>4, HandlerFacts

LEMMA DeleteNodeSerial ==
  ASSUME TypeInv, SerialInv, Serialised, NEW h \in Handlers, DeleteNode(h)
  PROVE  SerialInv'
<1>1. PICK n \in nodes \ torn :
        /\ Begin(h, "delnode", [Blank EXCEPT !.op = "DeleteNode", !.n = n,
                                             !.sys = SysAppsOf(desire[n]),
                                             !.todo = SysAppsOf(desire[n])])
        /\ UNCHANGED <<nodeVars, appVars, shadowVars, index, clock>>
  BY Zenon DEF DeleteNode
<1>2. PICK m : m = [Blank EXCEPT !.op = "DeleteNode", !.n = n, !.sys = SysAppsOf(desire[n]),
                                 !.todo = SysAppsOf(desire[n])]
  BY Zenon
<1>3. /\ m.op = "DeleteNode" /\ m.n = n /\ m.sys = SysAppsOf(desire[n])
      /\ m.todo = SysAppsOf(desire[n]) /\ n \in Nodes
  BY <1>2 DEF Blank, TypeInv, TypeOK
<1>4. /\ Consistent /\ Exclusive' /\ pc'[h] = "delnode" /\ loc'[h] = m
      /\ \A g \in Handlers \ {h} : pc'[g] = "idle"
  BY <1>1, <1>2, BeginAlone
<1>5. ExceptNode(n)
  BY <1>4 DEF Consistent, ExceptNode
<1>6. ExceptNode(n)'
  BY <1>1, <1>3, <1>5, ExceptNodeKept DEF nodeVars, shadowVars
<1>7. ASSUME NEW a \in SysAppsOf(desire[n]), NEW k \in Nodes \ {n}  PROVE Wanted(k, a) = 0
  <2>1. a \in SysApps /\ a \in Apps /\ desire[n][a] # 0
    BY DEF SysAppsOf, Apps
  <2>2. a \in apps /\ Match(sel[a], n, labels[n])
    BY <1>3, <1>4, <2>1 DEF Consistent, Right, Wanted
  <2>3. PICK j \in Nodes : sel[a] = {j}
    BY <2>1, <2>2 DEF SerialInv, RowsInv
  <2>4. j = n
    BY <1>3, <2>2, <2>3, ConstantsAssumption DEF Match, TypeInv, TypeOK
  <2>5. n \notin labels[k] \cup {k}
    BY <1>3, ConstantsAssumption DEF TypeInv, TypeOK
  <2>. QED  BY <2>3, <2>4, <2>5 DEF Wanted, Match
<1>8. \A k \in Nodes, a \in Apps : Wanted(k, a)' = Wanted(k, a)
  BY <1>1 DEF Wanted, nodeVars, appVars
<1>9. \A a \in Apps : Right(n, a)' /\ Listed(n, a)'
  BY <1>1, <1>3, <1>4, <1>8 DEF Consistent, Right, Listed, shadowVars
<1>10. \A a \in SysAppsOf(desire[n]), k \in Nodes \ {n} : Wanted(k, a)' = 0
  BY <1>7, <1>8 DEF SysAppsOf, Apps
<1>11. n \in nodes' /\ n \in shadows'
  BY <1>1, <1>4 DEF Consistent, nodeVars, shadowVars
<1>12. DeleteNodeStage(pc[h], loc[h])'
  BY <1>3, <1>4, <1>6, <1>9, <1>10, <1>11 DEF DeleteNodeStage
<1>13. RowsInv'
  BY <1>1, RowsKept DEF SerialInv, shadowVars
<1>. QED  BY <1>3, <1>4, <1>12, <1>13, DeleteNodeReached

LEMMA DelNodeRowSerial ==
  ASSUME TypeInv, SerialInv, Serialised, NEW h \in Handlers, DelNodeRow(h)
  PROVE  SerialInv'
<1>0. PICK l : l = loc[h]
  BY Zenon
<1>1. /\ l \in Local /\ l.op = "DeleteNode" /\ l.n \in Nodes /\ l.sys \subseteq Apps
      /\ DeleteNodeStage("delnode", l) /\ RowsInv
  BY <1>0, DeletingFacts DEF DelNodeRow
<1>2. /\ ExceptNode(l.n) /\ l.todo \subseteq l.sys /\ l.n \in shadows
      /\ \A a \in l.sys, m \in Nodes \ {l.n} : Wanted(m, a) = 0
  BY <1>1 DEF DeleteNodeStage
<1>3. /\ pc[h] = "delnode" /\ Goto(h, "delshadow", l)
      /\ nodes' = nodes \ {l.n} /\ labels' = [labels EXCEPT ![l.n] = {}]
      /\ UNCHANGED <<appVars, shadows, torn, desire, dver, index>>
  BY <1>0 DEF DelNodeRow, shadowVars
<1>4. /\ Exclusive' /\ pc'[h] = "delshadow" /\ loc'[h] = l
      /\ \A g \in Handlers \ {h} : pc'[g] = "idle"
  BY <1>3, GotoAlone
<1>5. ExceptNode(l.n)'
  BY <1>1, <1>2, <1>3, ExceptNodeKept DEF TypeInv, TypeOK
<1>6. \A a \in Apps, m \in Nodes \ {l.n} : Wanted(m, a)' = Wanted(m, a)
  BY <1>3 DEF Wanted, appVars, TypeInv, TypeOK
<1>7. \A a \in l.sys, m \in Nodes \ {l.n} : Wanted(m, a)' = 0
  BY <1>1, <1>2, <1>6
<1>8. DeleteNodeStage(pc[h], loc[h])'
  BY <1>2, <1>3, <1>4, <1>5, <1>7 DEF DeleteNodeStage
<1>9. RowsInv'
  BY <1>1, <1>3, RowsKept
<1>. QED  BY <1>1, <1>4, <1>8, <1>9, DeleteNodeReached

LEMMA DelShadowRowSerial ==
  ASSUME TypeInv, SerialInv, Serialised, NEW h \in Handlers, DelShadowRow(h)
  PROVE  SerialInv'
<1>0. PICK l : l = loc[h]
  BY Zenon
<1>1. /\ l \in Local /\ l.op = "DeleteNode" /\ l.n \in Nodes /\ l.sys \subseteq Apps
      /\ DeleteNodeStage("delshadow", l) /\ RowsInv
  BY <1>0, DeletingFacts DEF DelShadowRow
<1>2. /\ ExceptNode(l.n) /\ l.todo \subseteq l.sys /\ l.n \notin nodes
      /\ \A a \in l.sys, m \in Nodes \ {l.n} : Wanted(m, a) = 0
  BY <1>1 DEF DeleteNodeStage
<1>3. /\ pc[h] = "delshadow" /\ Goto(h, "clearidx", l)
      /\ shadows' = shadows \ {l.n} /\ torn' = torn \ {l.n}
      /\ desire' = [desire EXCEPT ![l.n] = NoDesire]
      /\ UNCHANGED <<nodes, labels, appVars, index>>
  BY <1>0 DEF DelShadowRow, nodeVars
<1>4. /\ Exclusive' /\ pc'[h] = "clearidx" /\ loc'[h] = l
      /\ \A g \in Handlers \ {h} : pc'[g] = "idle"
  BY <1>3, GotoAlone
<1>5. ExceptNode(l.n)'
  BY <1>1, <1>2, <1>3, ExceptNodeKept DEF TypeInv, TypeOK
<1>6. \A a \in Apps, m \in Nodes : Wanted(m, a)' = Wanted(m, a)
  BY <1>3 DEF Wanted, appVars
<1>7. \A a \in l.sys, m \in Nodes \ {l.n} : Wanted(m, a)' = 0
  BY <1>1, <1>2, <1>6
<1>8. \A a \in Apps : Right(l.n, a)'
  BY <1>1, <1>2, <1>3 DEF Right, Wanted, NoDesire, TypeInv, TypeOK
<1>9. DeleteNodeStage(pc[h], loc[h])'
  BY <1>2, <1>3, <1>4, <1>5, <1>7, <1>8 DEF DeleteNodeStage
<1>10. RowsInv'
  BY <1>1, <1>3, RowsKept DEF RowsInv
<1>. QED  BY <1>1, <1>4, <1>9, <1>10, DeleteNodeReached

LEMMA DelSysAppSerial ==
  ASSUME TypeInv, SerialInv, Serialised, NEW h \in Handlers, DelSysApp(h)
  PROVE  SerialInv'
<1>0. PICK l : l = loc[h]
  BY Zenon
<1>1. /\ l \in Local /\ l.op = "DeleteNode" /\ l.n \in Nodes
      /\ l.sys \subseteq Apps /\ l.todo \subseteq Apps
      /\ DeleteNodeStage("delsys", l) /\ RowsInv
  BY <1>0, DeletingFacts DEF DelSysApp
<1>2. /\ ExceptNode(l.n) /\ l.todo \subseteq l.sys /\ l.n \notin nodes /\ l.n \notin shadows
      /\ \A a \in l.sys, m \in Nodes \ {l.n} : Wanted(m, a) = 0
      /\ \A a \in Apps : Right(l.n, a) /\ Listed(l.n, a)
  BY <1>1 DEF DeleteNodeStage
<1>3. PICK a \in l.todo, t \in SUBSET l.sys, p \in {"delsys", "delsysidx"} :
        /\ apps' = apps \ {a} /\ sel' = [sel EXCEPT ![a] = {}]
        /\ Goto(h, p, [l EXCEPT !.todo = t])
  <2>1. PICK a \in l.todo :
          /\ apps' = apps \ {a} /\ sel' = [sel EXCEPT ![a] = {}]
          /\ \/ Goto(h, "delsysidx", [l EXCEPT !.todo = l.sys])
             \/ Goto(h, "delsys", [l EXCEPT !.todo = l.todo \ {a}])
    BY <1>0, Zenon DEF DelSysApp
  <2>2. l.sys \in SUBSET l.sys /\ l.todo \ {a} \in SUBSET l.sys
    BY <1>2
  <2>. QED  BY <2>1, <2>2, Zenon
<1>4. PICK m : m = [l EXCEPT !.todo = t]
  BY Zenon
<1>5. m.op = l.op /\ m.n = l.n /\ m.sys = l.sys /\ m.todo = t
  BY <1>1, <1>4, Zenon DEF Local
<1>6. pc[h] = "delsys" /\ UNCHANGED <<nodes, labels, ver, shadows, torn, desire, dver, index>>
  BY DEF DelSysApp, nodeVars, shadowVars
<1>7. /\ Exclusive' /\ pc'[h] = p /\ loc'[h] = m
      /\ \A g \in Handlers \ {h} : pc'[g] = "idle"
  BY <1>3, <1>4, <1>6, GotoAlone
<1>8. ASSUME NEW k \in Nodes, NEW b \in Apps  PROVE Wanted(k, b)' = Wanted(k, b)
  <2>1. CASE b = a
    BY <1>2, <1>3, <1>6, <2>1 DEF Wanted
  <2>2. CASE b # a
    BY <1>3, <1>6, <2>2 DEF Wanted, TypeInv, TypeOK
  <2>. QED  BY <2>1, <2>2
<1>9. ASSUME NEW k \in Nodes, NEW b \in Apps
      PROVE  /\ Right(k, b) => Right(k, b)'
             /\ Listed(k, b) => Listed(k, b)'
  BY <1>6, <1>8 DEF Right, Listed
<1>10. ExceptNode(l.n)'
  BY <1>2, <1>6, <1>9 DEF ExceptNode
<1>11. \A b \in l.sys, k \in Nodes \ {l.n} : Wanted(k, b)' = 0
  BY <1>1, <1>2, <1>8
<1>12. DeleteNodeStage(pc[h], loc[h])'
  BY <1>1, <1>2, <1>5, <1>6, <1>7, <1>9, <1>10, <1>11 DEF DeleteNodeStage
<1>13. RowsInv'
  BY <1>1, <1>3, <1>6 DEF RowsInv, TypeInv, TypeOK
<1>. QED  BY <1>1, <1>5, <1>7, <1>12, <1>13, DeleteNodeReached

LEMMA DelSysIndexSerial ==
  ASSUME TypeInv, TypeInv', SerialInv, Serialised, NEW h \in Handlers, DelSysIndex(h)
  PROVE  SerialInv'
<1>0. PICK l : l = loc[h]
  BY Zenon
<1>1. /\ l \in Local /\ l.op = "DeleteNode" /\ l.n \in Nodes
      /\ l.sys \subseteq Apps /\ l.todo \subseteq Apps
      /\ DeleteNodeStage("delsysidx", l) /\ RowsInv
  BY <1>0, DeletingFacts DEF DelSysIndex
<1>2. /\ ExceptNode(l.n) /\ l.todo \subseteq l.sys /\ l.n \notin nodes /\ l.n \notin shadows
      /\ \A a \in l.sys, m \in Nodes \ {l.n} : Wanted(m, a) = 0
      /\ \A a \in Apps : Right(l.n, a) /\ Listed(l.n, a)
  BY <1>1 DEF DeleteNodeStage
<1>3. PICK a \in l.todo :
        /\ index' = {r \in index : r[1] # a}
        /\ Finish(h) \/ Goto(h, "delsysidx", [l EXCEPT !.todo = l.todo \ {a}])
  BY <1>0, Zenon DEF DelSysIndex
<1>4. PICK m : m = [l EXCEPT !.todo = l.todo \ {a}]
  BY Zenon
<1>5. m.op = l.op /\ m.n = l.n /\ m.sys = l.sys /\ m.todo \subseteq l.sys
  BY <1>1, <1>2, <1>4, Zenon DEF Local
<1>6. pc[h] = "delsysidx" /\ UNCHANGED <<nodes, labels, appVars, shadows, torn, desire, dver>>
  BY DEF DelSysIndex, nodeVars, shadowVars
<1>7. ASSUME NEW k \in Nodes, NEW b \in Apps
      PROVE  /\ Wanted(k, b)' = Wanted(k, b)
             /\ Right(k, b) => Right(k, b)'
             /\ Listed(k, b) => Listed(k, b)'
  <2>1. Wanted(k, b)' = Wanted(k, b) /\ (b = a => Wanted(k, b) = 0)
    BY <1>2, <1>6 DEF Wanted, appVars
  <2>2. <<b, k>> \in index' <=> <<b, k>> \in index /\ b # a
    BY <1>3
  <2>. QED  BY <1>6, <2>1, <2>2 DEF Right, Listed
<1>8. ExceptNode(l.n)' /\ \A b \in Apps : Right(l.n, b)' /\ Listed(l.n, b)'
  BY <1>1, <1>2, <1>6, <1>7 DEF ExceptNode
<1>9. RowsInv'
  BY <1>1, <1>6, RowsKept
<1>10. CASE Finish(h)
  <2>1. Consistent'
    <3>1. shadows' = nodes'
      BY <1>2, <1>6 DEF ExceptNode
    <3>. QED  BY <3>1, <1>8 DEF Consistent, ExceptNode
  <2>. QED  BY <1>6, <1>9, <1>10, <2>1, FinishAlone, EndReached
<1>11. CASE Goto(h, "delsysidx", m)
  <2>1. /\ Exclusive' /\ pc'[h] = "delsysidx" /\ loc'[h] = m
        /\ \A g \in Handlers \ {h} : pc'[g] = "idle"
    BY <1>6, <1>11, GotoAlone
  <2>2. \A b \in l.sys, k \in Nodes \ {l.n} : Wanted(k, b)' = 0
    BY <1>1, <1>2, <1>7
  <2>3. DeleteNodeStage(pc[h], loc[h])'
    BY <1>2, <1>5, <1>6, <1>8, <2>1, <2>2 DEF DeleteNodeStage
  <2>. QED  BY <1>1, <1>5, <1>9, <2>1, <2>3, DeleteNodeReached
<1>. QED  BY <1>3, <1>4, <1>10, <1>11

LEMMA ReportNoShadowSerial ==
  ASSUME TypeInv, SerialInv, Serialised, NEW h \in Handlers
  PROVE  ~ReportNoShadow(h)
<1>. SUFFICES ASSUME ReportNoShadow(h) PROVE FALSE
  OBVIOUS
<1>1. PICK n \in nodes \ shadows : Begin(h, "newshadow", [Blank EXCEPT !.op = "Report", !.n = n])
  BY Zenon DEF ReportNoShadow
<1>2. Consistent
  BY <1>1, BeginAlone
<1>. QED  BY <1>1, <1>2 DEF Consistent
=============================================================================
