---------------------------- MODULE MCDeployment ----------------------------
(* Instances of Deployment for TLC.                                        *)
EXTENDS Deployment, TLC

CONSTANTS n1, n2, x1, x2, s1, s2, l1, h1, h2

\* No selector, one label, and one node by its name.
MCSelectors == {{}, {l1}, {n1}}

AllOperations == Operations

Symmetry == Permutations(Handlers) \cup Permutations(SysApps)
=============================================================================
