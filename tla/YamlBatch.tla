----------------------------- MODULE YamlBatch ------------------------------
(***************************************************************************)
(* POST, PUT and DELETE of a file of Kubernetes documents.  A file is a    *)
(* sequence of documents, which the parser sorts; each is then created,    *)
(* updated or removed as the API for its kind would do it, and the first   *)
(* error ends the request and leaves what was done.                        *)
(*   Secret     name, type ("registry", "certificate", "secret"), data     *)
(*   ConfigMap  name, data (a set of entries)                              *)
(*   Deployment, DaemonSet, Job   name, labels, mounts, pulls (registries),*)
(*              replicas, port (does a container have one?)                *)
(*   Service    selector (a set of labels), nodePort (0: not of that type) *)
(***************************************************************************)
EXTENDS AppStore

CONSTANTS
  Files,      \* the files users send
  MaxVersion, \* bound: of the rows when a file is sent
  MaxCalls    \* bound: the last call of a request that may fail

Workloads == {"Deployment", "DaemonSet", "Job"}

VARIABLE db

\* History of the last request: refused, although nothing spoke against it; done, it
\* did what its success promises.
Init == db = Store @@ [refused |-> FALSE, done |-> TRUE]

ConfigName(x) == <<"config", x, 0>>
SecretName(x) == <<"secret", x, 0>>
NameOf(doc) == IF doc.kind = "Secret" THEN SecretName(doc.name) ELSE ConfigName(doc.name)

-----------------------------------------------------------------------------
\* Mutant: the documents keep their order.
ParseK8SYaml_AsIs(file) == file

\* parseK8SYaml: configurations and secrets, workloads, then services and what else
\* has a kind whose name contains one of the six.
ParseK8SYaml(file) ==
  LET resource(x) == x.kind \in {"Secret", "ConfigMap"}
      workload(x) == x.kind \in Workloads
      other(x) == ~resource(x) /\ ~workload(x)
  IN SelectSeq(file, resource) \o SelectSeq(file, workload) \o SelectSeq(file, other)

-----------------------------------------------------------------------------
(* Secrets and configurations.                                             *)

\* generateSecretResource: a registry, a certificate or else a plain secret, with
\* what its type needs.
InvalidSecret(doc) == doc.data = "bad"

GenerateSecret(d, doc) ==
  LET r == Refuse(d, InvalidSecret(doc) \/ SecretName(doc.name) \in DOMAIN d.res)
  IN WriteRes(r, SecretName(doc.name), doc.type, doc.data)

UpdateSecret(d, doc) ==
  LET n == SecretName(doc.name)
      r == Refuse(d, InvalidSecret(doc) \/ n \notin DOMAIN d.res)
  IN Then(r, IF r.res[n].data = doc.data THEN r ELSE UpdateRes(r, n, doc.type, doc.data))

\* generateConfigData: entries of a type it does not know are dropped; a "bad" one
\* lacks an element or has the prefix of an object.
GenerateConfigData(data) == data \ {"unknown"}
InvalidConfig(doc) == "bad" \in doc.data

GenerateConfig(d, doc) ==
  LET r == Refuse(d, InvalidConfig(doc) \/ ConfigName(doc.name) \in DOMAIN d.res)
  IN WriteRes(r, ConfigName(doc.name), "config", GenerateConfigData(doc.data))

UpdateConfig(d, doc) ==
  LET n == ConfigName(doc.name)
      new == GenerateConfigData(doc.data)
      r == Refuse(d, InvalidConfig(doc) \/ n \notin DOMAIN d.res)
  IN Then(r, IF r.res[n].data = new THEN r ELSE UpdateRes(r, n, "config", new))

\* Mutant: a resource in use is passed over.
DeleteResource_Skip(d, doc) ==
  IF \E e \in d.index : e[2] = NameOf(doc) THEN d ELSE DeleteRes(d, NameOf(doc))

\* deleteSecret, deleteConfig.
DeleteResource(d, doc) == DeleteRes(d, NameOf(doc))

-----------------------------------------------------------------------------
(* Workloads.                                                              *)

\* generateCommonAppInfo: volumes exist, and what images are pulled with are
\* registries.
Unresolved(d, doc) ==
  \/ ~(doc.mounts \cup doc.pulls \subseteq DOMAIN d.res)
  \/ \E r \in doc.pulls : d.res[r].kind # "registry"

\* validateApp: ports need a single replica.
InvalidApp(doc) == doc.replicas > 1 /\ doc.port

\* generateAppData: the type of the workload is one of its labels here.
AppData(doc) ==
  [type |-> "container", mode |-> "kube", svcs |-> <<>>, progs |-> <<>>, labels |-> doc.labels,
   port |-> IF doc.port THEN 0 ELSE NoPort, cron |-> FALSE, at |-> 0, sel |-> FALSE, ver |-> 0,
   vols |-> [v \in {<<"vol", r[2]>> : r \in doc.mounts \cup doc.pulls} |->
               [res |-> CHOOSE r \in doc.mounts \cup doc.pulls : r[2] = v[2], ver |-> 0]]]

GenerateApplication(d, doc) ==
  LET r == Refuse(d, Unresolved(d, doc) \/ InvalidApp(doc) \/ doc.name \in DOMAIN d.apps)
  IN Then(r, CreateApp(r, doc.name, AppData(doc), doc.name, <<>>))

\* An application that does not exist makes the request panic.  The selector stays;
\* the time of a cron job becomes now, so that the row never equals the old one.
UpdateApplication(d, doc) ==
  LET old == d.apps[doc.name]
      r == Refuse(d, Unresolved(d, doc) \/ InvalidApp(doc) \/ doc.name \notin DOMAIN d.apps)
  IN Then(r, UpdateApp(r, doc.name, old,
                       [AppData(doc) EXCEPT !.sel = old.sel, !.at = old.ver], <<>>))

DeleteApplication(d, doc) == IF doc.name \in DOMAIN d.apps THEN DeleteApp(d, doc.name) ELSE d

-----------------------------------------------------------------------------
(* Services.                                                               *)

Selected(d, doc) == {a \in DOMAIN d.apps : doc.selector \subseteq d.apps[a].labels}

\* updateAppPort, resetAppPort: a port the service does not name stays.
SetPort(app, doc, p) ==
  IF app.port = NoPort \/ doc.nodePort = 0 THEN app ELSE [app EXCEPT !.port = p]

\* generateService, updateService, deleteService: the applications are written and
\* not deployed again.
WriteService(d, doc, p) ==
  FoldSet(LAMBDA a, e : Update(e, a, SetPort(e.apps[a], doc, p)), d, Selected(d, doc))

-----------------------------------------------------------------------------
(* The requests.                                                           *)

Generate(d, doc) ==
  CASE doc.kind = "Secret" -> GenerateSecret(d, doc)
    [] doc.kind = "ConfigMap" -> GenerateConfig(d, doc)
    [] doc.kind \in Workloads -> GenerateApplication(d, doc)
    [] doc.kind = "Service" -> WriteService(d, doc, doc.nodePort)
    [] OTHER -> d

Change(d, doc) ==
  CASE doc.kind = "Secret" -> UpdateSecret(d, doc)
    [] doc.kind = "ConfigMap" -> UpdateConfig(d, doc)
    [] doc.kind \in Workloads -> UpdateApplication(d, doc)
    [] doc.kind = "Service" -> WriteService(d, doc, doc.nodePort)
    [] OTHER -> d

Clear(d, doc) ==
  CASE doc.kind \in {"Secret", "ConfigMap"} -> DeleteResource(d, doc)
    [] doc.kind \in Workloads -> DeleteApplication(d, doc)
    [] doc.kind = "Service" -> WriteService(d, doc, 0)
    [] OTHER -> d

Batch(d, Handler(_, _), docs) == FoldLeft(LAMBDA e, x : Then(e, Handler(e, x)), d, docs)

CreateYamlResource(d, file) == Batch(d, Generate, ParseK8SYaml(file))
UpdateYamlResource(d, file) == Batch(d, Change, ParseK8SYaml(file))

\* Mutant: configurations and secrets go first.
DeleteYamlResource_Forward(d, file) == Batch(d, Clear, ParseK8SYaml(file))

DeleteYamlResource(d, file) == Batch(d, Clear, Reverse(ParseK8SYaml(file)))

-----------------------------------------------------------------------------
Docs(file, kinds) == {x \in ToSet(file) : x.kind \in kinds}
ResourceDocs(file) == Docs(file, {"Secret", "ConfigMap"})
AppDocs(file) == Docs(file, Workloads)

\* Every name in the file is new, every document valid, and what a workload mounts
\* is in the file or exists.
FitsPost(d, file) ==
  LET kind(r) == IF r \in DOMAIN d.res THEN d.res[r].kind
                 ELSE IF \E x \in ResourceDocs(file) : NameOf(x) = r
                 THEN LET x == CHOOSE y \in ResourceDocs(file) : NameOf(y) = r
                      IN IF x.kind = "Secret" THEN x.type ELSE "config"
                 ELSE "none"
  IN /\ \A x \in ResourceDocs(file) : NameOf(x) \notin DOMAIN d.res
     /\ \A x \in Docs(file, {"Secret"}) : ~InvalidSecret(x)
     /\ \A x \in Docs(file, {"ConfigMap"}) : ~InvalidConfig(x)
     /\ \A x \in AppDocs(file) :
          /\ x.name \notin DOMAIN d.apps /\ ~InvalidApp(x)
          /\ \A r \in x.mounts : kind(r) # "none"
          /\ \A r \in x.pulls : kind(r) = "registry"

\* No application outside the file mounts a resource of the file.
FitsDelete(d, file) ==
  \A e \in d.index :
    e[2] \in {NameOf(x) : x \in ResourceDocs(file)} => e[1] \in {x.name : x \in AppDocs(file)}

\* Everything in the file is there, with the ports of its services; nothing of it is.
Present(d, file) ==
  /\ \A x \in ResourceDocs(file) : NameOf(x) \in DOMAIN d.res
  /\ \A x \in AppDocs(file) : x.name \in DOMAIN d.apps /\
       \A s \in Docs(file, {"Service"}) :
         s.nodePort # 0 /\ s.selector \subseteq x.labels /\ x.port =>
           d.apps[x.name].port = s.nodePort
Absent(d, file) ==
  /\ \A x \in ResourceDocs(file) : NameOf(x) \notin DOMAIN d.res
  /\ \A x \in AppDocs(file) :
       /\ x.name \notin DOMAIN d.apps
       /\ ~d.failed => x.name \notin d.nindex \cup DOMAIN d.desire

\* One request with its k-th call failing, at most one failure in a behaviour; those
\* of a PUT are in Resources.
Request(k, new, fit, done) ==
  /\ k > 0 => ~db.failed
  /\ db' = [new EXCEPT !.left = 0, !.err = FALSE,
                       !.refused = fit /\ new.err, !.done = new.err \/ done]

Bounded ==
  /\ \A a \in DOMAIN db.apps : db.apps[a].ver < MaxVersion
  /\ \A r \in DOMAIN db.res : db.res[r].ver < MaxVersion

Post(k) ==
  Bounded /\ \E f \in Files : LET new == CreateYamlResource(Begin(db, k), f)
                  IN Request(k, new, FitsPost(db, f), Present(new, f))
PutFile ==
  Bounded /\ \E f \in Files : LET new == UpdateYamlResource(db, f)
                  IN Request(0, new, FALSE, Present(new, f))
DeleteFile(k) ==
  \E f \in Files : LET new == DeleteYamlResource(Begin(db, k), f)
                  IN Request(k, new, FitsDelete(db, f), Absent(new, f))

\* PUT of an application gives it a selector.
Deploy ==
  \E a \in DOMAIN db.apps :
    /\ ~db.apps[a].sel
    /\ Request(0, UpdateApp(db, a, db.apps[a], [db.apps[a] EXCEPT !.sel = TRUE], <<>>), FALSE, TRUE)

Next == (\E k \in 0 .. MaxCalls : Post(k) \/ DeleteFile(k)) \/ PutFile \/ Deploy

Spec == Init /\ [][Next]_db

-----------------------------------------------------------------------------
\* Whatever the order of its documents, a file that only needs what it brings along
\* or what exists is created, and one whose resources only its own applications
\* mount is removed: "逆序删除，避免依赖", removed in reverse order for the sake of
\* dependencies.
FitSucceeds == ~db.failed => ~db.refused

\* A POST or PUT that succeeds leaves everything in the file, with the ports its
\* services ask for, and a DELETE nothing of it, even if requests before it broke off
\* (then a desire may be left: an application without a row is not looked for there).
FileDone == db.done

\* Applications mount the latest version of every resource, whether a file changes
\* the one, the other or both.
MountsLatest == ~db.failed => Latest(db)
=============================================================================
