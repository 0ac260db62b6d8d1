----------------------------- MODULE MCResources -----------------------------
(* Instances of Resources for TLC.                                         *)
EXTENDS Resources, TLC

CONSTANTS c1, k1, r1, d1, d2, x1, x2, h1, h2

OfEachKind == (c1 :> "config" @@ k1 :> "secret" @@ r1 :> "registry")
ConfigAndRegistry == (c1 :> "config" @@ r1 :> "registry")
AllOperations == Operations

\* The routes without the lock meet no other request; the locked ones are kept
\* apart by the lock alone.
Alone ==
  \A g, h \in Handlers : g # h /\ pc[g] # "idle" /\ pc[h] # "idle" =>
    \/ loc[g].op \in {"CreateApp", "UpdateApp"}
    \/ loc[g].op = "Put" /\ Kind[loc[g].r] = "config"

AloneSpec == Init /\ [][Next /\ Alone']_vars

Symmetry == Permutations(Handlers) \cup Permutations(Apps) \cup Permutations(Data)
=============================================================================
