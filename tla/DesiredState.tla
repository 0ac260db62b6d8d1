---------------------------- MODULE DesiredState ----------------------------
(***************************************************************************)
(* What the deployment component promises: a request changes one node or   *)
(* one application, and in the same step the desire of every node and the  *)
(* index follow.  Deployment implements this, one request at a time, with  *)
(* the statements of its handlers.                                         *)
(***************************************************************************)
EXTENDS Integers

CONSTANTS Nodes, UserApps, SysApps, Labels, UserSelectors

Apps == UserApps \cup SysApps

VARIABLES nodes, labels, apps, sel, ver, desire, index

vars == <<nodes, labels, apps, sel, ver, desire, index>>

Matches(a, n) == /\ a \in apps /\ n \in nodes /\ sel[a] # {}
                 /\ sel[a] \subseteq labels[n] \cup {n}

\* Desire and index are functions of the nodes and the applications.
Derived ==
  /\ desire = [n \in Nodes |-> [a \in Apps |-> IF Matches(a, n) THEN ver[a] ELSE 0]]
  /\ index = {r \in Apps \X Nodes : Matches(r[1], r[2])}

Init ==
  /\ nodes = {} /\ labels = [n \in Nodes |-> {}]
  /\ apps = {} /\ sel = [a \in Apps |-> {}] /\ ver = [a \in Apps |-> 0]
  /\ Derived

\* Application a gets selector s and a version not smaller than before.
Put(a, s) ==
  /\ apps' = apps \cup {a} /\ sel' = [sel EXCEPT ![a] = s]
  /\ ver'[a] > ver[a] /\ ver' = [ver EXCEPT ![a] = ver'[a]]

Drop(as) ==
  /\ apps' = apps \ as
  /\ sel' = [a \in Apps |-> IF a \in as THEN {} ELSE sel[a]]
  /\ ver' = [a \in Apps |-> IF a \in as THEN 0 ELSE ver[a]]

\* A node comes with a system application that selects it by name.
AddNode(n, ls) ==
  /\ n \notin nodes /\ nodes' = nodes \cup {n}
  /\ labels' = [labels EXCEPT ![n] = ls]
  /\ \E a \in SysApps \ apps : Put(a, {n})

RelabelNode(n, ls) ==
  /\ n \in nodes /\ labels' = [labels EXCEPT ![n] = ls]
  /\ UNCHANGED <<nodes, apps, sel, ver>>

\* A node goes with its system applications.
RemoveNode(n) ==
  /\ n \in nodes /\ nodes' = nodes \ {n}
  /\ labels' = [labels EXCEPT ![n] = {}]
  /\ Drop({a \in SysApps : Matches(a, n)})

PutApp(a, s) == Put(a, s) /\ UNCHANGED <<nodes, labels>>

RemoveApp(a) == a \in apps /\ Drop({a}) /\ UNCHANGED <<nodes, labels>>

Next ==
  /\ \/ \E n \in Nodes : \/ \E ls \in SUBSET Labels : AddNode(n, ls) \/ RelabelNode(n, ls)
                         \/ RemoveNode(n)
     \/ \E a \in UserApps : RemoveApp(a) \/ \E s \in UserSelectors : PutApp(a, s)
  /\ Derived'

Spec == Init /\ [][Next]_vars
=============================================================================
