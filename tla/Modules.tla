------------------------------ MODULE Modules -------------------------------
(***************************************************************************)
(* The table of modules: the versions of each module, of which one may be  *)
(* marked the latest, the one that new system applications are made from.  *)
(* Creating and updating a module are transactions; an update by the API   *)
(* first reads the row, outside the transaction, and puts the fields of    *)
(* its body over what it read.                                             *)
(***************************************************************************)
EXTENDS Naturals

CONSTANTS
  Names,    \* modules
  Versions, \* their versions
  Admins,   \* users of the administration API
  None      \* no update under way

ASSUME NoneAssumption == None \notin [key : Names \X Versions, latest : BOOLEAN]

VARIABLES
  rows,   \* the versions in the table
  latest, \* those with is_latest
  read    \* what an admin's update has read, or None

vars == <<rows, latest, read>>

Keys == Names \X Versions

Init == rows = {} /\ latest = {} /\ read = [a \in Admins |-> None]

-----------------------------------------------------------------------------
\* Mutant: the version marked before keeps its mark.
DisableLatestModule_None(n) == latest

\* disableLatestModuleTx
DisableLatestModule(n) == latest \ ({n} \X Versions)

\* The marks after version k was written with the mark l, in both transactions.
Marked(k, l) ==
  IF l THEN DisableLatestModule(k[1]) \cup {k} ELSE latest \ {k}

\* Mutant: without the transaction a refused INSERT leaves the marks cleared.
CreateModule_NoTx(k, l) ==
  /\ rows' = rows \cup {k}
  /\ latest' = IF k \notin rows THEN Marked(k, l)
               ELSE IF l THEN DisableLatestModule(k[1]) ELSE latest
  /\ UNCHANGED read

\* The unique key refuses a version that is there, and the transaction undoes the rest.
CreateModule(k, l) ==
  /\ k \notin rows
  /\ rows' = rows \cup {k}
  /\ latest' = Marked(k, l)
  /\ UNCHANGED read

GetModuleByVersion(a, k) ==
  /\ read[a] = None /\ k \in rows
  /\ read' = [read EXCEPT ![a] = [key |-> k, latest |-> k \in latest]]
  /\ UNCHANGED <<rows, latest>>

\* The body has the field isLatest (sent, with value l) or not.  A version that was
\* deleted in between is not found after the UPDATE, which undoes it.
UpdateModule(a, sent, l) ==
  LET k == read[a].key
      mark == IF sent THEN l ELSE read[a].latest
  IN /\ read[a] # None
     /\ latest' = IF k \in rows THEN Marked(k, mark) ELSE latest
     /\ read' = [read EXCEPT ![a] = None]
     /\ UNCHANGED rows

DeleteModules(n) ==
  /\ rows' = rows \ ({n} \X Versions)
  /\ latest' = latest \ ({n} \X Versions)
  /\ UNCHANGED read

DeleteModuleByVersion(k) ==
  /\ rows' = rows \ {k}
  /\ latest' = latest \ {k}
  /\ UNCHANGED read

Next ==
  \/ \E k \in Keys, l \in BOOLEAN : CreateModule(k, l)
  \/ \E a \in Admins :
       \/ \E k \in Keys : GetModuleByVersion(a, k)
       \/ \E sent, l \in BOOLEAN : UpdateModule(a, sent, l)
  \/ \E n \in Names : DeleteModules(n)
  \/ \E k \in Keys : DeleteModuleByVersion(k)

Spec == Init /\ [][Next]_vars

-----------------------------------------------------------------------------
TypeOK ==
  /\ rows \subseteq Keys
  /\ latest \subseteq rows
  /\ read \in [Admins -> [key : Keys, latest : BOOLEAN] \cup {None}]

\* getModuleTx takes the first row that is marked: whatever updates race, a module has
\* at most one, so that every node gets the same version of a system application.
OneLatest == \A k1, k2 \in latest : k1[1] = k2[1] => k1 = k2

HasLatest(n) == \E v \in Versions : <<n, v>> \in latest

\* A module that has a latest version, from which applications can be made, is without
\* one only after that version was deleted or an update cleared its mark: no refused or
\* late request leaves the module without.
LatestStep ==
  \A n \in Names :
    HasLatest(n) /\ ~HasLatest(n)' =>
      \E v \in Versions :
        /\ <<n, v>> \in latest
        /\ \/ <<n, v>> \notin rows'
           \/ \E a \in Admins : read[a] # None /\ read[a].key = <<n, v>> /\ read'[a] = None

LatestKept == [][LatestStep]_vars
=============================================================================
