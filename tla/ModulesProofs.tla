--------------------------- MODULE ModulesProofs ----------------------------
(***************************************************************************)
(* For any sets of modules, versions and admins: a module has at most one  *)
(* latest version, and loses it only to a deletion or an update of it.     *)
(***************************************************************************)
EXTENDS Modules, TLAPS

IInv == TypeOK /\ OneLatest

\* What the two transactions do to the marks, for every row they write.
LEMMA MarkedAgrees ==
  ASSUME TypeOK, OneLatest, NEW k \in Keys, NEW l \in BOOLEAN
  PROVE  /\ Marked(k, l) \subseteq latest \cup {k}
         /\ \A k1, k2 \in Marked(k, l) : k1[1] = k2[1] => k1 = k2
  <1>1. CASE l
    <2>1. Marked(k, l) = (latest \ ({k[1]} \X Versions)) \cup {k}
      BY <1>1 DEF Marked, DisableLatestModule
    <2>2. \A j \in latest \ ({k[1]} \X Versions) : j[1] # k[1]
      BY DEF TypeOK, Keys
    <2> QED BY <2>1, <2>2 DEF OneLatest
  <1>2. CASE ~l
    BY <1>2 DEF Marked, OneLatest
  <1> QED BY <1>1, <1>2

\* Writing a row with either mark leaves a module with a latest version with one,
\* unless the row is that version.
LEMMA MarkedKeeps ==
  ASSUME TypeOK, OneLatest, NEW k \in Keys, NEW l \in BOOLEAN,
         NEW n \in Names, NEW v \in Versions, <<n, v>> \in latest, k # <<n, v>>
  PROVE  \E w \in Versions : <<n, w>> \in Marked(k, l)
  <1>1. CASE l /\ k[1] = n
    <2>1. k = <<n, k[2]>> /\ k[2] \in Versions
      BY <1>1 DEF Keys
    <2>2. k \in Marked(k, l)
      BY <1>1 DEF Marked
    <2> QED BY <2>1, <2>2
  <1>2. CASE l /\ k[1] # n
    BY <1>2 DEF Marked, DisableLatestModule
  <1>3. CASE ~l
    BY <1>3 DEF Marked
  <1> QED BY <1>1, <1>2, <1>3

\* Every step of CreateModule, UpdateModule and the deletions keeps the invariant.
LEMMA StepKeeps ==
  IInv /\ [Next]_vars => IInv'
  <1> SUFFICES ASSUME IInv, [Next]_vars PROVE IInv'
    OBVIOUS
  <1> USE DEF IInv
  <1>1. ASSUME NEW k \in Keys, NEW l \in BOOLEAN, CreateModule(k, l) PROVE IInv'
    <2>1. /\ Marked(k, l) \subseteq latest \cup {k}
          /\ \A k1, k2 \in Marked(k, l) : k1[1] = k2[1] => k1 = k2
      BY MarkedAgrees
    <2> QED BY <1>1, <2>1 DEF CreateModule, TypeOK, OneLatest
  <1>2. ASSUME NEW a \in Admins, NEW k \in Keys, GetModuleByVersion(a, k) PROVE IInv'
    BY <1>2 DEF GetModuleByVersion, TypeOK, OneLatest
  <1>3. ASSUME NEW a \in Admins, NEW sent \in BOOLEAN, NEW l \in BOOLEAN,
               UpdateModule(a, sent, l)
        PROVE  IInv'
    <2> DEFINE k == read[a].key
               mark == IF sent THEN l ELSE read[a].latest
    <2>1. read[a] \in [key : Keys, latest : BOOLEAN]
      BY <1>3 DEF UpdateModule, TypeOK
    <2>2. k \in Keys /\ mark \in BOOLEAN
      BY <2>1
    <2>3. latest' = (IF k \in rows THEN Marked(k, mark) ELSE latest) /\ rows' = rows
      BY <1>3 DEF UpdateModule
    <2>4. read' \in [Admins -> [key : Keys, latest : BOOLEAN] \cup {None}]
      BY <1>3 DEF UpdateModule, TypeOK
    <2> HIDE DEF k, mark
    <2>5. /\ Marked(k, mark) \subseteq latest \cup {k}
          /\ \A k1, k2 \in Marked(k, mark) : k1[1] = k2[1] => k1 = k2
      BY <2>2, MarkedAgrees
    <2> QED BY <2>3, <2>4, <2>5 DEF TypeOK, OneLatest
  <1>4. ASSUME NEW n \in Names, DeleteModules(n) PROVE IInv'
    BY <1>4 DEF DeleteModules, TypeOK, OneLatest
  <1>5. ASSUME NEW k \in Keys, DeleteModuleByVersion(k) PROVE IInv'
    BY <1>5 DEF DeleteModuleByVersion, TypeOK, OneLatest
  <1>6. CASE UNCHANGED vars
    BY <1>6 DEF vars, TypeOK, OneLatest
  <1> QED BY <1>1, <1>2, <1>3, <1>4, <1>5, <1>6 DEF Next

LEMMA InvariantHolds ==
  Spec => []IInv
  <1>1. Init => IInv
    BY DEF Init, IInv, TypeOK, OneLatest
  <1> QED BY <1>1, StepKeeps, PTL DEF Spec

\* Whatever updates race, a module has at most one latest version, in every instance.
THEOREM ModulesOneLatest ==
  Spec => []OneLatest
  <1>1. IInv => OneLatest
    BY DEF IInv
  <1> QED BY <1>1, InvariantHolds, PTL

\* In every instance, a module loses its latest version only to a deletion of it or to
\* an update of it.
THEOREM ModulesLatestKept ==
  Spec => LatestKept
  <1>1. ASSUME IInv, Next PROVE LatestStep
    <2> SUFFICES ASSUME NEW n \in Names, NEW v \in Versions, <<n, v>> \in latest, ~HasLatest(n)'
                 PROVE  \/ <<n, v>> \notin rows'
                        \/ \E a \in Admins : read[a] # None /\ read[a].key = <<n, v>> /\ read'[a] = None
      BY DEF LatestStep, HasLatest
    <2>0. TypeOK /\ OneLatest
      BY <1>1 DEF IInv
    <2>1. \A w \in Versions : <<n, w>> \notin latest'
      BY DEF HasLatest
    <2>2. ASSUME NEW k \in Keys, NEW l \in BOOLEAN, CreateModule(k, l) PROVE FALSE
      <3>1. k # <<n, v>>
        BY <2>2, <2>0 DEF CreateModule, TypeOK
      <3>2. \E w \in Versions : <<n, w>> \in Marked(k, l)
        BY <3>1, <2>0, MarkedKeeps
      <3> QED BY <3>2, <2>2, <2>1 DEF CreateModule
    <2>3. ASSUME NEW a \in Admins, NEW k \in Keys, GetModuleByVersion(a, k) PROVE FALSE
      BY <2>3, <2>1 DEF GetModuleByVersion
    <2>4. ASSUME NEW a \in Admins, NEW sent \in BOOLEAN, NEW l \in BOOLEAN,
                 UpdateModule(a, sent, l)
          PROVE  read[a] # None /\ read[a].key = <<n, v>> /\ read'[a] = None
      <3> DEFINE k == read[a].key
                 mark == IF sent THEN l ELSE read[a].latest
      <3>1. read[a] # None /\ read[a] \in [key : Keys, latest : BOOLEAN] /\ read'[a] = None
        BY <2>4, <2>0 DEF UpdateModule, TypeOK
      <3>2. k \in Keys /\ mark \in BOOLEAN
        BY <3>1
      <3>3. latest' = IF k \in rows THEN Marked(k, mark) ELSE latest
        BY <2>4 DEF UpdateModule
      <3> HIDE DEF mark
      <3>4. CASE k \notin rows
        BY <3>3, <3>4, <2>1
      <3>5. CASE k \in rows /\ k # <<n, v>>
        <4> HIDE DEF k
        <4>1. \E w \in Versions : <<n, w>> \in Marked(k, mark)
          BY <3>5, <3>2, <2>0, MarkedKeeps
        <4> QED BY <4>1, <3>5, <3>3, <2>1
      <3> QED BY <3>1, <3>4, <3>5
    <2>5. ASSUME NEW m \in Names, DeleteModules(m) PROVE <<n, v>> \notin rows'
      BY <2>5, <2>1 DEF DeleteModules
    <2>6. ASSUME NEW k \in Keys, DeleteModuleByVersion(k) PROVE <<n, v>> \notin rows'
      BY <2>6, <2>1 DEF DeleteModuleByVersion
    <2> QED BY <1>1, <2>2, <2>3, <2>4, <2>5, <2>6 DEF Next
  <1>2. IInv /\ [Next]_vars => [LatestStep]_vars
    BY <1>1
  <1> QED BY <1>2, InvariantHolds, PTL DEF Spec, LatestKept
=============================================================================
