----------------------------- MODULE MCEdgeSync -----------------------------
(* Instances of EdgeSync for TLC.                                          *)
EXTENDS EdgeSync

CONSTANTS c1, c2, i1

\* A program that reports again while its old report is served, and a deployment
\* beside an update.
Both == {[slots |-> {c1, c2, i1}, deploys |-> 1, updates |-> 0],
         [slots |-> {c1, i1}, deploys |-> 1, updates |-> 1]}

\* Two updates that overlap.
TwoUpdates == {[slots |-> {c1, i1}, deploys |-> 0, updates |-> 2]}
=============================================================================
