------------------------------ MODULE MCParts -------------------------------
(***************************************************************************)
(* The parts of the cloud that share nothing but the calls, each on its    *)
(* own: a behaviour is one of the part that `which` names, whose state is  *)
(* db; that of the modules of the edge software has its own variables.     *)
(***************************************************************************)
EXTENDS Modules, TLC

CONSTANT AppNames \* applications of AppApi, interchangeable

VARIABLES which, db

-----------------------------------------------------------------------------
(* Nodes: one, which may be deleted and created again.                     *)

Core(v, p, f, a) == [version |-> v, port |-> p, freq |-> f, agent |-> a]
CoreConfigs == {Core(1, 1, 1, FALSE), Core(2, 1, 1, FALSE), Core(2, 2, 2, FALSE), Core(1, 2, 1, TRUE)}
N == INSTANCE NodeAdmin WITH
       Names <- {"n1"}, Versions <- {1, 2}, Default <- 1, CoreConfigs <- CoreConfigs,
       MaxGen <- 2, MaxCalls <- 26

-----------------------------------------------------------------------------
(* Applications: two, with one or two services of one or two functions,    *)
(* waiting or not, and a configuration of the user.                        *)

Shape(f, m, c) == [svcs |-> f, mounts |-> m, cron |-> c, sel |-> TRUE]
User == <<"config", "c1", 0>>
Shapes == {Shape("s1" :> 1, {}, FALSE), Shape("s1" :> 1, {User}, FALSE),
           Shape("s2" :> 1, {User}, TRUE), Shape("s1" :> 2 @@ "s2" :> 1, {User}, FALSE)}
A == INSTANCE AppApi WITH
       Names <- AppNames, Shapes <- Shapes, Users <- {User},
       Kinds <- {<<"function", "native">>, <<"container", "native">>},
       MaxVersion <- 2, MaxPrograms <- 2, MaxRefused <- 1, MaxLost <- 0, MaxCalls <- 9

Symmetry == Permutations(AppNames)

-----------------------------------------------------------------------------
(* YAML files: two applications, a configuration and a secret, in all      *)
(* orders, with entries that are ignored or refused.                       *)

ConfigMap(x, d) == [kind |-> "ConfigMap", name |-> x, data |-> d]
SecretDoc(x, t, d) == [kind |-> "Secret", name |-> x, type |-> t, data |-> d]
Workload(k, x, ms, ps, n, p) ==
  [kind |-> k, name |-> x, labels |-> {x}, mounts |-> ms, pulls |-> ps, replicas |-> n, port |-> p]
Service(s, p) == [kind |-> "Service", selector |-> s, nodePort |-> p]
c1 == <<"config", "c1", 0>>
r1 == <<"secret", "r1", 0>>
Files ==
  { <<Service({"a1"}, 30), Workload("Deployment", "a1", {c1}, {r1}, 1, TRUE),
      ConfigMap("c1", {"kv", "unknown"}), SecretDoc("r1", "registry", "d1")>>,
    <<Workload("DaemonSet", "a1", {c1}, {}, 1, TRUE), ConfigMap("c1", {"kv", "object"}),
      [kind |-> "ServiceAccount"]>>,
    <<Workload("Job", "a2", {c1}, {}, 2, FALSE), Service({}, 31)>>,
    <<SecretDoc("r1", "secret", "d2"), Workload("Deployment", "a2", {}, {r1}, 1, TRUE)>>,
    <<ConfigMap("c1", {"kv"}), SecretDoc("r1", "registry", "bad")>>,
    <<ConfigMap("c1", {"kv", "bad"})>>,
    <<SecretDoc("r1", "registry", "d1"), Workload("Deployment", "a2", {r1}, {}, 2, TRUE)>> }
Y == INSTANCE YamlBatch WITH Files <- Files, MaxVersion <- 3, MaxCalls <- 11

-----------------------------------------------------------------------------
(* Devices: two names, two models, with and without a node.                *)

Dev(x, m, n, l, b) == [name |-> x, model |-> m, node |-> n, labels |-> l, body |-> b]
d11 == Dev("d1", "m1", "n1", "l1", 1)
d12 == Dev("d1", "m1", "", "l2", 1)
d13 == Dev("d1", "m2", "", "l1", 2)
d21 == Dev("d2", "m1", "", "l1", 1)
D == INSTANCE Devices WITH
       Rows <- {d11, d12, d13, d21},
       Batches <- {<<d12>>, <<d11, d21>>, <<d12, d21>>, <<d21, d13>>, <<d12, d12>>},
       Bindings <- {<<"d1", "m1", "i1">>, <<"d1", "m1", "i2">>, <<"d2", "m1", "i1">>, <<"d1", "m2", "i1">>},
       MaxVersion <- 1, MaxCalls <- 2

-----------------------------------------------------------------------------
(* Tables, secrets, tasks, storage in Kubernetes.                          *)

B == INSTANCE Tables WITH Names <- {"r1", "r2", "r3"}, MaxRequests <- 4, MaxCalls <- 3
S == INSTANCE SecretApi WITH Names <- {"x1", "x2"}, Values <- {"v1", "v2"}, Descs <- {"d1", "d2"}
T == INSTANCE Tasks WITH Names <- {"t1"}, Workers <- {"w1", "w2", "w3"}, MaxVersion <- 5
K == INSTANCE KubeStorage WITH Callers <- {"c1", "c2"}, MaxVersion <- 5

-----------------------------------------------------------------------------
PartsInit ==
  /\ Init
  /\ \/ which = "modules" /\ db = <<>>
     \/ which = "nodes" /\ N!Init
     \/ which = "apps" /\ A!Init
     \/ which = "yaml" /\ Y!Init
     \/ which = "devices" /\ D!Init
     \/ which = "tables" /\ B!Init
     \/ which = "secrets" /\ S!Init
     \/ which = "tasks" /\ T!Init
     \/ which = "kube" /\ K!Init

Other ==
  \/ which = "nodes" /\ N!Next
  \/ which = "apps" /\ A!Next
  \/ which = "yaml" /\ Y!Next
  \/ which = "devices" /\ D!Next
  \/ which = "tables" /\ B!Next
  \/ which = "secrets" /\ S!Next
  \/ which = "tasks" /\ T!Next
  \/ which = "kube" /\ K!Next

PartsNext ==
  /\ UNCHANGED which
  /\ \/ which = "modules" /\ Next /\ UNCHANGED db
     \/ Other /\ UNCHANGED vars

PartsSpec == PartsInit /\ [][PartsNext]_<<vars, which, db>>

-----------------------------------------------------------------------------
\* A node is to run one application of each alias it should (POST, PUT and DELETE of
\* nodes and their system applications).
SysAppsExact == which = "nodes" => N!SysAppsExact

\* DELETE of a node leaves nothing of it.
NothingLeft == which = "nodes" => N!NothingLeft

\* PUT of the settings of baetyl-core keeps the row of the node, the application and
\* its configuration together.
CoreAgrees == which = "nodes" => N!CoreAgrees

\* A node keeps its baetyl-core and the certificate of it, whatever call of a request
\* on the node fails.
KeepsCertificate == which = "nodes" => N!KeepsCertificate

\* The configurations generated for functions are those of their services.
GeneratedExact == which = "apps" => A!GeneratedExact

\* Whatever call of a POST or DELETE fails, applications mount what exists and what the
\* index lists.
NothingDangles == which = "apps" => A!NothingDangles

\* A file whose resources are free or there is accepted whatever its order, and can be
\* taken back by DELETE of the same file.
FitSucceeds == which = "yaml" => Y!FitSucceeds

\* What a file says is done when the request ends well.
FileDone == which = "yaml" => Y!FileDone

\* By the requests on applications as by files: applications mount the latest version
\* of everything.  By the requests, one that is deployed is so with its latest version;
\* a file's Service writes applications and does not deploy them again.
MountsLatest == (which = "apps" => A!DeployedLatest) /\ (which = "yaml" => Y!MountsLatest)

\* A write to a table or to the devices and bindings is done in full or, in a
\* transaction, not at all.
WritesWhole == (which = "devices" => D!UnbindWhole) /\ (which = "tables" => B!WriteWhole)

\* Page after page, listings of devices and of the other tables show each row once.
PagesCover == (which = "devices" => D!PagesCover) /\ (which = "tables" => B!PagesCover)

\* Registries and certificates have all their parts, and parts that fit.
CredentialsWhole == which = "secrets" => S!CredentialsWhole

\* A task that ended stays as it ended, however late another worker is.
FinishedStep == [][which = "tasks" => T!FinishedStep]_<<which, db>>

\* An update in Kubernetes writes over the version its caller has read.
NoEditLost == which = "kube" => K!NoEditLost

\* A shadow that was created has its report and its desire.
CreatedWhole == which = "kube" => K!CreatedWhole
=============================================================================
