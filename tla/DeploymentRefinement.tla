------------------------ MODULE DeploymentRefinement ------------------------
(***************************************************************************)
(* Deployment implements DesiredState: the rows as they were when the last *)
(* request ended (a history variable) are the abstract state.              *)
(***************************************************************************)
EXTENDS Deployment

VARIABLE base

\* The rows a reader of the tables would find.
Tables == [nodes |-> nodes, labels |-> labels, apps |-> apps, sel |-> sel,
           ver |-> [a \in Apps |-> IF a \in apps THEN ver[a] ELSE 0],
           desire |-> desire, index |-> index]

RInit == Init /\ base = Tables

\* The routes without the lock (DELETE, and reports) meet no other request; the
\* locked ones are kept apart by the lock alone.
Alone ==
  \A g, h \in Handlers : g # h /\ pc[g] # "idle" /\ pc[h] # "idle" =>
    loc[g].op \notin {"DeleteNode", "DeleteApp", "Report"}

RNext == Next /\ Alone' /\ base' = IF Quiescent' THEN Tables' ELSE base

RSpec == RInit /\ [][RNext]_<<vars, base>>

Abstract == INSTANCE DesiredState WITH
  nodes <- base.nodes, labels <- base.labels, apps <- base.apps,
  sel <- base.sel, ver <- base.ver, desire <- base.desire, index <- base.index

\* The statements of one request, none of another between them, have together
\* the effect DesiredState gives to the request in one step: no request leaves
\* an application deployed that should not be, or the reverse.
ImplementsDesiredState == Abstract!Spec
=============================================================================
