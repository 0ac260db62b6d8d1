----------------------------- MODULE NodeAdmin ------------------------------
(***************************************************************************)
(* Nodes and their system applications, as the requests on nodes make and  *)
(* remove them: POST, PUT and DELETE of a node and PUT of the configuration *)
(* of baetyl-core.  A request runs alone, one of its calls may fail.        *)
(*                                                                         *)
(* An application is named after its alias and a random string; the n-th   *)
(* creation of a node makes the applications with number gen = n.  Their   *)
(* selector is the name of the node.                                       *)
(***************************************************************************)
EXTENDS Integers, FiniteSets, SequencesExt, Calls

CONSTANTS
  Names,       \* of nodes
  Versions,    \* of the module baetyl
  Default,     \* the default API port and report frequency of baetyl-core
  CoreConfigs, \* the configurations of baetyl-core requested
  MaxGen,      \* bound: creations
  MaxCalls     \* bound: the last call of a request that may fail

NoVersion == 0
Required == <<"core", "init", "broker">>
Optional == {"function", "ekuiper"}  \* OptionalAppFuncs; rule is as function
GPU == "gpu-metrics"                 \* an alias nothing is generated for

VARIABLE db

\* nodes: the rows, with the optional applications, the accelerator and the
\* settings of baetyl-core; desire: the system applications in each shadow;
\* apps and confs: applications and their configurations by name; secrets and
\* certs: the client certificates in secrets and in the PKI; used: the quota;
\* latest: the version of baetyl that is the latest, NoVersion if there is none.
Init ==
  \E v \in Versions \cup {NoVersion} :
    db = [nodes |-> <<>>, desire |-> <<>>,
          index |-> {}, apps |-> <<>>, confs |-> <<>>, secrets |-> {}, certs |-> {},
          used |-> 0, latest |-> v, gen |-> 0,
          left |-> 0, err |-> FALSE, failed |-> FALSE]

Exists(d, n) == n \in DOMAIN d.nodes
SetDesire(d, n, ids) == [d EXCEPT !.desire = Put(@, n, ids)]

-----------------------------------------------------------------------------
(* Generating system applications.                                         *)

\* GenConfig, then GenApp, with the defaults of the templates; ekuiper has no
\* configuration.  GPUStats tells whether there is an accelerator.
GenApp(d, id, gpu) ==
  LET c == IF id.alias = "ekuiper" THEN d
           ELSE Do(d, [d EXCEPT !.confs = Put(@, id, [freq |-> Default, gpu |-> gpu])])
  IN Do(c, [c EXCEPT !.apps = Put(@, id, [port |-> Default, version |-> d.latest])])

\* genNodeCerts: sign a client certificate, store it in a secret.
GenNodeCerts(d) ==
  LET s == Do(d, [d EXCEPT !.certs = @ \cup {d.gen}])
  IN Do(s, [s EXCEPT !.secrets = @ \cup {d.gen}])

App(d, n, alias) == [node |-> n, gen |-> d.gen, alias |-> alias]

\* GenOptionalApps: aliases without function are passed over.
GenOptionalApps(d, n, aliases) ==
  FoldSet(LAMBDA a, e : GenApp(e, App(d, n, a), FALSE), d, aliases \cap Optional)

GenApps(d, n, sysapps, gpu) ==
  LET c == GenNodeCerts(d)
      r == FoldLeft(LAMBDA e, a : GenApp(e, App(d, n, a), gpu), c, Required)
  IN GenOptionalApps(r, n, sysapps)

\* rematchApplicationsForNode: every application whose selector is the node.
Matching(d, n) == {id \in DOMAIN d.apps : id.node = n}

\* RefreshAppsIndexByNode, RefreshNodesIndexByApp.
IndexNode(d, n, ids) ==
  [d EXCEPT !.index = {e \in @ : e[1] # n} \cup ({n} \X ids)]
IndexApp(d, id, ns) ==
  [d EXCEPT !.index = {e \in @ : e[2] # id} \cup (ns \X {id})]

-----------------------------------------------------------------------------
(* POST /nodes                                                             *)

\* With a legal accelerator the metrics of the GPU are an optional application.
UpdateSysAppByAccelerator(gpu, sysapps) ==
  IF gpu THEN sysapps \cup {GPU} ELSE sysapps \ {GPU}

\* NodeService.Create: the row, the applications, the shadow, the index.  A
\* shadow that exists makes it fail.
Create(d, n, sysapps, gpu) ==
  LET node == [sysapps |-> sysapps, gpu |-> gpu, gen |-> d.gen, version |-> d.latest,
               prev |-> NoVersion, port |-> Default, freq |-> Default]
      r == Do(d, [d EXCEPT !.nodes = Put(@, n, node)])
      g == GenApps(r, n, sysapps, gpu)
      s == Do(Refuse(g, n \in DOMAIN g.desire), SetDesire(g, n, Matching(g, n)))
  IN Do(s, IndexNode(s, n, Matching(s, n)))

\* A name in use is refused, the quota acquired, the latest version of baetyl read
\* (without one the request ends), and a node that cannot be created gives its
\* quota back.
CreateNode(d, n, sysapps, gpu) ==
  LET q == Do(Refuse(d, Exists(d, n)), [d EXCEPT !.used = @ + 1, !.gen = @ + 1])
      v == Do(Refuse(q, q.latest = NoVersion), q)
      c == Create(v, n, UpdateSysAppByAccelerator(gpu, sysapps), gpu)
  IN IF c.err /\ ~v.err
     THEN [Try([c EXCEPT !.err = FALSE], [c EXCEPT !.used = @ - 1, !.err = FALSE])
             EXCEPT !.err = TRUE]
     ELSE c

-----------------------------------------------------------------------------
(* DELETE /nodes/{name}                                                    *)

\* Mutant: configurations stay.
DeleteSysApp_NoConfig(d, id) ==
  IF id.alias = "core"
  THEN [d EXCEPT !.apps = Drop(@, id), !.certs = @ \ {id.gen}, !.secrets = @ \ {id.gen}]
  ELSE [d EXCEPT !.apps = Drop(@, id)]

\* One application of deleteSysApps: its configuration, for baetyl-core the
\* certificate and its secret, then itself.  Errors are logged; an application
\* that cannot be read is passed over.
DeleteSysApp(d, id) ==
  IF id \notin DOMAIN d.apps THEN d
  ELSE IF Fails(d) THEN Broken(d)
  ELSE
    LET g == Count(d)
        c == Try(g, [g EXCEPT !.confs = Drop(@, id)])
        p == IF id.alias # "core" THEN c ELSE Try(c, [c EXCEPT !.certs = @ \ {id.gen}])
        s == IF id.alias # "core" THEN p ELSE Try(p, [p EXCEPT !.secrets = @ \ {id.gen}])
    IN Try(s, [s EXCEPT !.apps = Drop(@, id)])

DeleteSysApps(d, ids) == FoldSet(LAMBDA id, e : DeleteSysApp(e, id), d, ids)

\* NodeService.Delete: the row; errors of the shadow and the index are logged.
Delete(d, n) ==
  LET r == Do(d, [d EXCEPT !.nodes = Drop(@, n)])
      s == Try(r, [r EXCEPT !.desire = Drop(@, n)])
  IN Try(s, IndexNode(s, n, {}))

DesireOf(d, n) == IF n \in DOMAIN d.desire THEN d.desire[n] ELSE {}

\* Mutant: the applications go first.
DeleteNode_AppsFirst(d, n) ==
  LET a == DeleteSysApps(d, DesireOf(d, n))
      r == Delete(a, n)
      q == Try(r, [r EXCEPT !.used = @ - 1])
  IN FoldSet(LAMBDA id, e : Try(e, IndexApp(e, id, {})), q, DesireOf(d, n))

\* The node goes first, then its quota is released and the system applications
\* are removed that its shadow had when the request began.
DeleteNode(d, n) ==
  LET r == Delete(d, n)
      q == Try(r, [r EXCEPT !.used = @ - 1])
      a == Then(q, DeleteSysApps(q, DesireOf(d, n)))
  IN FoldSet(LAMBDA id, e : Try(e, IndexApp(e, id, {})), a, DesireOf(d, n))

-----------------------------------------------------------------------------
(* PUT /nodes/{name}                                                       *)

\* App.Update and UpdateNodeAppVersion of an application whose configuration was
\* written: it is deployed again.
WriteConf(d, id, conf) == Do(d, [d EXCEPT !.confs = Put(@, id, conf)])
Redeploy(d, id) ==
  Do(d, IF id.node \in DOMAIN d.desire THEN SetDesire(d, id.node, d.desire[id.node] \cup {id})
        ELSE d)

\* getAppByNodeName: an application that the index has for the node.
Indexed(d, n, alias) == {id \in DOMAIN d.apps : <<n, id>> \in d.index /\ id.alias = alias}

\* UpdateConfigByAccelerator: baetyl-core, then baetyl-init.
UpdateConfigByAccelerator(d, n, gpu) ==
  FoldLeft(LAMBDA e, alias :
    IF Indexed(d, n, alias) = {} THEN Refuse(e, TRUE)
    ELSE LET id == CHOOSE i \in Indexed(d, n, alias) : TRUE
             w == WriteConf(e, id, [freq |-> d.nodes[n].freq, gpu |-> gpu])
         IN Redeploy(w, id),
    d, <<"core", "init">>)

\* updateAddedSysApps: generate the applications, then deploy each.
UpdateAddedSysApps(d, n, aliases) ==
  LET g == GenOptionalApps(d, n, aliases)
      new == {App(d, n, a) : a \in aliases \cap Optional}
  IN FoldSet(LAMBDA id, e : LET r == Redeploy(e, id) IN Do(r, IndexApp(r, id, {n})), g, new)

\* deleteDeletedSysApps: applications in the desire read at first.
DeleteDeletedSysApps(d, n, aliases, desire) ==
  LET ids == {id \in desire : id.alias \in aliases}
      a == Then(d, DeleteSysApps(d, ids))
      v == FoldSet(LAMBDA id, e : Try(e, SetDesire(e, n, DesireOf(e, n) \ {id})), a,
                   ids \cap DOMAIN d.apps)
  IN FoldSet(LAMBDA id, e : Try(e, IndexApp(e, id, {})), v, ids)

\* NodeService.Update: the row; the shadow, without which the request panics, is
\* matched and indexed again.
Update(d, n, node) ==
  LET r == Do(d, [d EXCEPT !.nodes = Put(@, n, node)])
      i == Do(r, IndexNode(r, n, {}))
      s == Do(Refuse(i, n \notin DOMAIN i.desire), SetDesire(i, n, Matching(i, n)))
  IN Do(s, IndexNode(s, n, Matching(s, n)))

\* Mutant: applications no longer wanted stay.
UpdateNodeOptionedSysApps_NoDelete(d, n, fresh, obsolete, desire) ==
  UpdateAddedSysApps([d EXCEPT !.gen = @ + 1], n, fresh)

\* UpdateNodeOptionedSysApps; new applications get new names.
UpdateNodeOptionedSysApps(d, n, fresh, obsolete, desire) ==
  LET f == IF fresh = {} THEN d ELSE UpdateAddedSysApps([d EXCEPT !.gen = @ + 1], n, fresh)
  IN IF obsolete = {} THEN f ELSE DeleteDeletedSysApps(f, n, obsolete, desire)

\* A new accelerator removes the metrics of an old GPU and rewrites the
\* configurations.  The row is written before the optional applications follow.
UpdateNode(d, n, sysapps, gpu) ==
  LET old == d.nodes[n]
      changed == gpu # old.gpu
      had == IF changed /\ old.gpu THEN old.sysapps \ {GPU} ELSE old.sysapps
      want == IF changed THEN UpdateSysAppByAccelerator(gpu, sysapps) ELSE sysapps
      m == IF changed /\ old.gpu THEN DeleteDeletedSysApps(d, n, {GPU}, DesireOf(d, n)) ELSE d
      a == IF changed THEN UpdateConfigByAccelerator(m, n, gpu) ELSE m
      u == Update(a, n, [old EXCEPT !.sysapps = want, !.gpu = gpu])
  IN Then(u, UpdateNodeOptionedSysApps(u, n, want \ had, had \ want, DesireOf(d, n)))

-----------------------------------------------------------------------------
(* PUT /nodes/{name}/core/configs                                          *)

\* updateCoreVersions: the version left is kept to roll back to.
UpdateCoreVersions(node, current, version) ==
  [node EXCEPT !.version = version,
               !.prev = IF @ = version THEN NoVersion ELSE IF current = version THEN @ ELSE current]

\* updateCoreAppAPIPort looks for the port the row of the node has.
UpdateCoreAppAPIPort(d, id, old) == Refuse(d, d.apps[id].port # old)

\* Mutant: the row of the node is not saved.
UpdateCoreApp_NotSaved(d, n, c) ==
  LET id == CHOOSE i \in Indexed(d, n, "core") : TRUE
      f == WriteConf(d, id, [freq |-> c.freq, gpu |-> d.nodes[n].gpu])
  IN IF Indexed(d, n, "core") = {} THEN Refuse(d, TRUE)
     ELSE Do(f, [f EXCEPT !.apps = Put(@, id, [port |-> c.port, version |-> c.version])])

\* The application first, then, if the port of the agent changes, the agent, which
\* no node has unless a hook generates it, and at last the row of the node.
UpdateCoreApp(d, n, c) ==
  LET old == d.nodes[n]
      id == CHOOSE i \in Indexed(d, n, "core") : TRUE
      app == d.apps[id]
      node == [UpdateCoreVersions(old, app.version, c.version) EXCEPT
                 !.port = c.port, !.freq = c.freq]
      p == UpdateCoreAppAPIPort(d, id, old.port)
      f == WriteConf(p, id, [freq |-> c.freq, gpu |-> old.gpu])
      w == Do(f, [f EXCEPT !.apps = Put(@, id, [port |-> c.port, version |-> c.version])])
      r == Redeploy(w, id)
  IN IF Indexed(d, n, "core") = {} THEN Refuse(d, TRUE)
     ELSE IF [version |-> app.version, port |-> old.port, freq |-> old.freq, agent |-> FALSE] = c
          THEN d
     ELSE Update(Refuse(r, c.agent), n, node)

-----------------------------------------------------------------------------
\* One request with its k-th call failing, at most one failure in a behaviour.  A
\* request for a node that does not exist changes nothing.
Request(k, Handler(_)) ==
  /\ k > 0 => ~db.failed
  /\ db' = End(db, Handler(Begin(db, k)))

PostNode(k) ==
  \E n \in Names, s \in SUBSET Optional, gpu \in BOOLEAN :
    db.gen < MaxGen /\ Request(k, LAMBDA d : CreateNode(d, n, s, gpu))
PutNode(k) ==
  \E n \in Names, s \in SUBSET Optional, gpu \in BOOLEAN :
    db.gen < MaxGen /\ Request(k, LAMBDA d : IF Exists(d, n) THEN UpdateNode(d, n, s, gpu) ELSE d)
PutCoreConfigs(k) ==
  \E n \in Names, c \in CoreConfigs :
    Request(k, LAMBDA d : IF Exists(d, n) THEN UpdateCoreApp(d, n, c) ELSE d)
DeleteOne(k) ==
  \E n \in Names : Request(k, LAMBDA d : IF Exists(d, n) THEN DeleteNode(d, n) ELSE d)

Next == \E k \in 0 .. MaxCalls : PostNode(k) \/ PutNode(k) \/ PutCoreConfigs(k) \/ DeleteOne(k)

Spec == Init /\ [][Next]_db

-----------------------------------------------------------------------------
Nodes == DOMAIN db.nodes
Aliases(n) == ToSet(Required) \cup (db.nodes[n].sysapps \cap Optional)

\* Whatever sequence of requests made it, a node is to run exactly one application
\* of each alias required or chosen for it, and the index knows it.
SysAppsExact == ~db.failed =>
  \A n \in Nodes :
    /\ \A a \in Aliases(n) : Cardinality({id \in db.desire[n] : id.alias = a}) = 1
    /\ {id.alias : id \in db.desire[n]} = Aliases(n)
    /\ db.desire[n] = {e[2] : e \in {f \in db.index : f[1] = n}}

\* Deleting a node leaves nothing of it: every application, configuration,
\* certificate, shadow and unit of quota belongs to a node.
NothingLeft == ~db.failed =>
  /\ DOMAIN db.apps = UNION {db.desire[n] : n \in Nodes}
  /\ DOMAIN db.confs = {id \in DOMAIN db.apps : id.alias # "ekuiper"}
  /\ db.certs = {db.nodes[n].gen : n \in Nodes} /\ db.secrets = db.certs
  /\ DOMAIN db.desire = Nodes
  /\ db.used = Cardinality(Nodes)

\* The settings that the row of the node has for baetyl-core are those of the
\* application and the configuration it runs with, and there is another version
\* to roll back to, if any.
CoreAgrees == ~db.failed =>
  \A n \in Nodes, id \in DOMAIN db.apps :
    id.node = n /\ id.alias = "core" =>
      /\ db.apps[id] = [port |-> db.nodes[n].port, version |-> db.nodes[n].version]
      /\ db.confs[id] = [freq |-> db.nodes[n].freq, gpu |-> db.nodes[n].gpu]
      /\ db.nodes[n].prev # db.nodes[n].version

\* As long as a node exists, the baetyl-core it is to run is there with its
\* certificate, although any call of a request may fail.
KeepsCertificate ==
  \A n \in Nodes \cap DOMAIN db.desire : \A id \in db.desire[n] :
    id.alias = "core" /\ id.gen = db.nodes[n].gen =>
      id \in DOMAIN db.apps /\ id.gen \in db.certs \cap db.secrets
=============================================================================
