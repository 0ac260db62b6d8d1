------------------------------ MODULE AppStore ------------------------------
(***************************************************************************)
(* What the services and the facade do to applications, their resources,   *)
(* index tables and desires, one call after the other and without a        *)
(* transaction (the default factory has none).  Deployment and Resources   *)
(* interleave these calls; here a request runs alone and is a function of  *)
(* the state d:                                                            *)
(*   res     configurations and secrets: kind, data, ver                   *)
(*   apps    applications: type, mode, svcs (the functions of each         *)
(*           service), vols (volume -> resource and its version), progs    *)
(*           (the volume a native service mounts its program from),        *)
(*           labels, port (its NodePort, 0 or NoPort), cron, at (a cron    *)
(*           time), sel (has it a selector?), ver                          *)
(*   crons   the waiting applications, with their selectors                *)
(*   index   pairs (application, resource); nindex, desire: the            *)
(*           applications on the nodes and the versions they are to run    *)
(* A volume is named by a pair, that of a native program by <<"native", n>> *)
(* with a random n; a resource by a triple: a configuration or secret of a *)
(* user is <<"config", name, 0>> or <<"secret", name, 0>>, a configuration *)
(* generated for a service is <<"function", service, n>> or                *)
(* <<"program", service, n>> with a random n.                              *)
(***************************************************************************)
EXTENDS Naturals, FiniteSets, SequencesExt, Calls

Store == [res |-> <<>>, apps |-> <<>>, crons |-> <<>>, index |-> {}, nindex |-> {},
          desire |-> <<>>, left |-> 0, err |-> FALSE, failed |-> FALSE]

NoPort == 99
Generated == {"function", "program"}
Secret(r) == r[1] = "secret"
Mounts(app) == {app.vols[v].res : v \in DOMAIN app.vols}

\* CreateConfig, UpdateConfig, CreateSecret, UpdateSecret: a row with a new version.
WriteRes(d, r, kind, data) ==
  LET ver == IF r \in DOMAIN d.res THEN d.res[r].ver + 1 ELSE 1
  IN Do(d, [d EXCEPT !.res = Put(@, r, [kind |-> kind, data |-> data, ver |-> ver])])

\* configService.Upsert: equal content is left alone.
Upsert(d, r, data) ==
  IF r \in DOMAIN d.res /\ d.res[r].data = data THEN d ELSE WriteRes(d, r, "config", data)

-----------------------------------------------------------------------------
(* AppServiceImpl.                                                         *)

\* getConfigsAndSecrets: every volume gets the latest version of what it mounts.
GetConfigsAndSecrets(d, app) ==
  [app EXCEPT !.vols = [v \in DOMAIN @ |-> LET r == @[v].res IN [res |-> r, ver |-> d.res[r].ver]]]

Missing(d, app) == ~(Mounts(app) \subseteq DOMAIN d.res)

\* RefreshConfigIndexByApp, then RefreshSecretIndexByApp.
Reindex(d, a, rs, secret) ==
  [d EXCEPT !.index = {e \in @ : e[1] # a \/ Secret(e[2]) # secret}
                      \cup {<<a, r>> : r \in {x \in rs : Secret(x) = secret}}]
RefreshIndex(d, a, rs) ==
  LET c == Do(d, Reindex(d, a, rs, FALSE)) IN Do(c, Reindex(c, a, rs, TRUE))

\* Mutant: the row first.
Create_RowFirst(d, a, app) ==
  LET m == Refuse(d, Missing(d, app))
      r == Then(m, Do(m, [m EXCEPT !.apps = Put(@, a, [GetConfigsAndSecrets(m, app) EXCEPT !.ver = 1])]))
  IN Then(r, RefreshIndex(r, a, Mounts(app)))

\* Create: the index, then the row.
Create(d, a, app) ==
  LET m == Refuse(d, Missing(d, app))
      i == Then(m, RefreshIndex(m, a, Mounts(app)))
  IN Then(i, Do(i, [i EXCEPT !.apps = Put(@, a, [GetConfigsAndSecrets(i, app) EXCEPT !.ver = 1])]))

\* The application with nothing, and the base of an application: none unless it exists.
NoApp == [svcs |-> <<>>, vols |-> <<>>, progs |-> <<>>]

Base(d, base) == IF base \in DOMAIN d.apps THEN d.apps[base] ELSE NoApp

\* validName: no service and no volume of the same name twice, and what services mount
\* is among the volumes.
ValidName(b, app) ==
  /\ DOMAIN b.svcs \cap DOMAIN app.svcs = {} /\ DOMAIN b.vols \cap DOMAIN app.vols = {}
  /\ \A s \in DOMAIN app.progs : app.progs[s] \in DOMAIN app.vols

\* CreateWithBase: the services and volumes of the base, which is of the same
\* namespace, come first.
CreateWithBase(d, a, app, base) ==
  LET b == Base(d, base)
      both == [app EXCEPT !.svcs = b.svcs @@ @, !.vols = b.vols @@ @, !.progs = b.progs @@ @]
      r == Refuse(d, ~ValidName(b, app))
  IN Then(r, Create(r, a, both))

\* EqualApp.
EqualApp(x, y) == [x EXCEPT !.ver = y.ver] = y

\* Update: the row, with a new version unless it is equal, then the index.
Update(d, a, app) ==
  LET m == Refuse(d, ~ValidName(NoApp, app) \/ Missing(d, app) \/ a \notin DOMAIN d.apps)
      new == GetConfigsAndSecrets(m, app)
      old == m.apps[a]
      ver == IF EqualApp(new, old) THEN old.ver ELSE old.ver + 1
      w == Do(m, [m EXCEPT !.apps = Put(@, a, [new EXCEPT !.ver = ver])])
  IN Then(m, RefreshIndex(w, a, Mounts(app)))

\* Delete: errors of the index are logged.
Delete(d, a) ==
  LET r == Do(d, [d EXCEPT !.apps = Drop(@, a)])
      c == Try(r, Reindex(r, a, {}, FALSE))
  IN Try(c, Reindex(c, a, {}, TRUE))

-----------------------------------------------------------------------------
(* The facade.                                                             *)

\* UpdateNodeAppVersion, which does nothing without a selector.
UpdateNodeAppVersion(d, a) ==
  IF d.apps[a].sel THEN Do(d, [d EXCEPT !.desire = Put(@, a, d.apps[a].ver)]) ELSE d

UpdateNodeAndAppIndex(d, a) ==
  LET u == UpdateNodeAppVersion(d, a)
  IN Do(u, [u EXCEPT !.nindex = IF u.apps[a].sel THEN @ \cup {a} ELSE @ \ {a}])

DeleteNodeAndAppIndex(d, a, sel) ==
  LET u == IF sel THEN Do(d, [d EXCEPT !.desire = Drop(@, a)]) ELSE d
  IN Do(u, [u EXCEPT !.nindex = @ \ {a}])

\* Mutant: what was generated stays.
CleanGenConfigs_None(d, old, kept) == d

\* cleanGenConfigsOfFunctionApp: what was generated for the old row and not for the
\* new one; errors are logged.
CleanGenConfigs(d, old, kept) ==
  FoldSet(LAMBDA r, e : Try(e, [e EXCEPT !.res = Drop(@, r)]), d,
          {r \in Mounts(old) : r[1] \in Generated} \ kept)

\* updateGenConfigsOfFunctionApp: configs maps the generated ones to their content.
UpdateGenConfigs(d, configs) ==
  FoldSet(LAMBDA r, e : Upsert(e, r, configs[r]), d, DOMAIN configs)

\* The selector of an application that waits goes to the table of cron jobs.
Waiting(app) == IF app.cron THEN [app EXCEPT !.sel = FALSE] ELSE app

CreateApp(d, a, app, base, configs) ==
  LET g == UpdateGenConfigs(d, configs)
      c == IF app.cron
           THEN Do(Refuse(g, a \in DOMAIN g.crons), [g EXCEPT !.crons = Put(@, a, app.sel)])
           ELSE g
      r == Then(c, CreateWithBase(c, a, Waiting(app), base))
  IN Then(r, UpdateNodeAndAppIndex(r, a))

\* An application that no longer waits loses its cron job.
DeleteCron(d, a, old, app) ==
  IF old.cron /\ ~app.cron THEN Do(d, [d EXCEPT !.crons = Drop(@, a)]) ELSE d

\* One that still waits gets its new selector there, if the row exists.
UpdateCron(d, a, app) ==
  IF app.cron THEN Do(d, IF a \in DOMAIN d.crons THEN [d EXCEPT !.crons[a] = app.sel] ELSE d)
  ELSE d

UpdateApp(d, a, old, app, configs) ==
  LET g == UpdateGenConfigs(d, configs)
      x == DeleteCron(UpdateCron(g, a, app), a, old, app)
      u == Then(x, Update(x, a, Waiting(app)))
      m == Then(u, IF old.sel # Waiting(app).sel THEN DeleteNodeAndAppIndex(u, a, old.sel) ELSE u)
      n == Then(m, UpdateNodeAndAppIndex(m, a))
  IN Then(n, CleanGenConfigs(n, old, DOMAIN configs))

DeleteApp(d, a) ==
  LET old == d.apps[a]
      c == IF old.cron THEN Do(d, [d EXCEPT !.crons = Drop(@, a)]) ELSE d
      r == Then(c, Delete(c, a))
      n == Then(r, DeleteNodeAndAppIndex(r, a, old.sel))
  IN Then(n, CleanGenConfigs(n, old, {}))

\* Mutant: only what is deployed is written again.
Propagate_Deployed(d, r) ==
  FoldSet(LAMBDA a, e : LET u == Update(e, a, e.apps[a]) IN Then(u, UpdateNodeAppVersion(u, a)),
          d, {a \in d.nindex : <<a, r>> \in d.index})

\* updateNodeAndApp, updateAppSecret: the applications that mount an older version,
\* as the index has them, are written and deployed again.
Propagate(d, r) ==
  LET stale == {a \in DOMAIN d.apps : <<a, r>> \in d.index /\
                  \E v \in DOMAIN d.apps[a].vols :
                    d.apps[a].vols[v].res = r /\ d.apps[a].vols[v].ver < d.res[r].ver}
  IN FoldSet(LAMBDA a, e : LET u == Update(e, a, e.apps[a]) IN Then(u, UpdateNodeAppVersion(u, a)),
             d, stale)

\* UpdateConfig, UpdateSecret of the facade.
UpdateRes(d, r, kind, data) ==
  LET w == WriteRes(d, r, kind, data) IN Then(w, Propagate(w, r))

\* DeleteConfig, DeleteSecretResource: none is nothing to do, one in use is refused.
DeleteRes(d, r) ==
  IF r \notin DOMAIN d.res THEN d
  ELSE LET u == Refuse(d, \E e \in d.index : e[2] = r)
       IN Do(u, [u EXCEPT !.res = Drop(@, r)])

-----------------------------------------------------------------------------
\* Applications mount the latest version of everything.
Latest(d) ==
  \A a \in DOMAIN d.apps : \A v \in DOMAIN d.apps[a].vols :
    LET m == d.apps[a].vols[v] IN m.res \in DOMAIN d.res /\ m.ver = d.res[m.res].ver
=============================================================================
