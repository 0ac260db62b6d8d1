------------------------------- MODULE AppApi -------------------------------
(***************************************************************************)
(* POST, PUT and DELETE of applications: containers and functions, in kube *)
(* and in native mode, cron jobs, applications made from a base, and the   *)
(* configurations generated for functions.  A PUT sends what a GET has     *)
(* returned, edited.                                                       *)
(***************************************************************************)
EXTENDS AppStore

CONSTANTS
  Names,       \* of applications
  Shapes,      \* services with their functions, what is mounted, cron job and selector sent
  Users,       \* configurations and secrets of the user
  Kinds,       \* pairs of a type and a mode
  MaxVersion,  \* bound: of rows an update may write
  MaxPrograms, \* bound: of the volumes of native programs of an application
  MaxRefused,  \* bound: requests refused after they have changed something
  MaxLost,     \* bound: configurations such requests have left when there is a POST
  MaxCalls     \* bound: the last call of a request that may fail

VARIABLE db

\* odd: a client has sent a removed service's volumes, or a function as a base.
\* refused: the requests that were refused after they had changed something; late, lost:
\* the applications whose cron jobs they created or deleted, the configurations they generated.
Init == db = [Store EXCEPT !.res = [r \in Users |-> [kind |-> r[1], data |-> 0, ver |-> 1]]]
             @@ [odd |-> FALSE, refused |-> 0, late |-> {}, lost |-> {}]

-----------------------------------------------------------------------------
(* From a view to an application and back.                                 *)

\* The name of no volume.
NoVolume == <<"none", "">>

UserVols(rs) == [v \in {<<"vol", r[2]>> : r \in rs} |->
                   [res |-> CHOOSE r \in rs : r[2] = v[2], ver |-> 0]]

\* A random name no configuration has.
Fresh(d, kind, s) ==
  <<kind, s, CHOOSE n \in 1 .. Cardinality(DOMAIN d.res) + 1 : <<kind, s, n>> \notin DOMAIN d.res>>

\* getGenConfigNameOfFunctionService, getGenProgramNameOfFunctionService: what the
\* volume of the service names, else a new name.
GenName(d, view, kind, s) ==
  IF <<kind, s>> \in DOMAIN view.vols THEN view.vols[<<kind, s>>].res ELSE Fresh(d, kind, s)

Kinded(view) == IF view.mode = "native" THEN Generated ELSE {"function"}

\* generateConfigOfFunctionService, generateProgramOfFunctionService: the content is
\* the functions of the service, or a template.
GenConfigs(d, view) ==
  [r \in {GenName(d, view, k, s) : k \in Kinded(view), s \in DOMAIN view.svcs} |->
     IF r[1] = "function" THEN view.svcs[r[2]] ELSE 0]

\* The volumes a function gets for its new services (generateVmAndMount).
NewVols(d, view, old) ==
  [v \in (Kinded(view) \X (DOMAIN view.svcs \ old)) \ DOMAIN view.vols |->
     [res |-> GenName(d, view, v[1], v[2]), ver |-> 0]]

\* getNameOfNativeProgramVolumeMount: a random name for each service, which none of the
\* used volumes has.
Native(vols) == {v \in DOMAIN vols : v[1] = "native"}
Drawn(used, svcs) ==
  LET names == {<<"native", n>> : n \in 1 .. Cardinality(used) + Cardinality(svcs)} \ used
  IN CHOOSE f \in [svcs -> names] : IsInjective(f)

\* translateNativeApp: each service mounts a volume with a new name, and puts it where
\* the first volume of a program was; that of the last service remains.
TranslateNativeApp(view, used) ==
  LET progs == Drawn(used, DOMAIN view.svcs)
      last == progs[CHOOSE s \in DOMAIN view.svcs : TRUE]
      others == Restrict(view.vols, DOMAIN view.vols \ {view.first})
  IN [progs |-> progs, vols |-> (last :> [res |-> view.program, ver |-> 0]) @@ others]

\* ToApplication: old is the application as it was.  A program's volume is never named
\* like one of the old application or of the base.
ToApplication(d, view, old, base) ==
  LET native == view.type = "container" /\ view.mode = "native"
      translated == TranslateNativeApp(view, Native(old.vols @@ base.vols))
  IN [type |-> view.type, mode |-> view.mode, svcs |-> view.svcs, labels |-> {}, port |-> NoPort,
      cron |-> view.cron, at |-> 0, sel |-> view.sel, ver |-> 0,
      progs |-> IF native THEN translated.progs ELSE <<>>,
      vols |-> IF native THEN translated.vols
               ELSE IF view.type = "function" THEN view.vols @@ NewVols(d, view, DOMAIN old.svcs)
               ELSE view.vols]

Configs(d, view) == IF view.type = "function" THEN GenConfigs(d, view) ELSE <<>>

\* ToApplicationView, without what is only for show: a function in kube mode hides
\* volumes of programs.
View(app) ==
  [app EXCEPT !.vols = Restrict(@, {v \in DOMAIN @ : v[1] = "program" => app.mode = "native"})]

\* ParseApplication, validApplication: what is mounted exists.
Invalid(d, view) ==
  \/ \E v \in DOMAIN view.vols \ Native(view.vols) : view.vols[v].res \notin DOMAIN d.res
  \/ view.type = "container" /\ view.mode = "native" /\ view.program \notin DOMAIN d.res

-----------------------------------------------------------------------------
(* The handlers.                                                           *)

CreateApplication(d, a, view, base) ==
  LET r == Refuse(d, \/ Invalid(d, view) \/ a \in DOMAIN d.apps
                     \/ base \in DOMAIN d.apps /\ d.apps[base].type # view.type)
      c == Then(r, CreateApp(r, a, ToApplication(r, view, NoApp, Base(r, base)), base, Configs(r, view)))
  IN IF base \in DOMAIN d.apps /\ view.type = "function" /\ a \in DOMAIN c.apps
     THEN [c EXCEPT !.odd = TRUE] ELSE c

\* A cron job can be given up, not set up.
UpdateApplication(d, a, view) ==
  LET old == d.apps[a]
      r == Refuse(d, Invalid(d, view) \/ (view.cron /\ ~old.cron))
      u == Then(r, UpdateApp(r, a, old, ToApplication(r, view, old, NoApp), Configs(r, view)))
      removed == DOMAIN old.svcs \ DOMAIN view.svcs
  IN IF \E v \in DOMAIN view.vols : v[1] \in Generated /\ v[2] \in removed
     THEN [u EXCEPT !.odd = TRUE] ELSE u

\* Applications named baetyl-, which nodes may hold back, are NodeAdmin's.
DeleteApplication(d, a) == IF a \in DOMAIN d.apps THEN DeleteApp(d, a) ELSE d

-----------------------------------------------------------------------------
\* A request that was refused though no call failed: what it did before stays.
Refused(d, new) ==
  [new EXCEPT !.left = 0, !.err = FALSE,
              !.refused = IF new.crons # d.crons \/ new.res # d.res THEN @ + 1 ELSE @,
              !.late = @ \cup SymDiff(DOMAIN d.crons, DOMAIN new.crons),
              !.lost = @ \cup (DOMAIN new.res \ DOMAIN d.res)]

\* One request with its k-th call failing, at most one failure in a behaviour and none
\* after a late refusal; those of a PUT, between its row and its index, are in Resources.
\* What follows an odd request is not explored, after a failure only requests to delete
\* are.
Request(k, Handler(_)) ==
  LET new == Handler(Begin(db, k)) IN
  /\ db' = IF new.err /\ new.failed = db.failed THEN Refused(db, new) ELSE End(db, new)
  /\ db'.refused <= MaxRefused

Programs == {r \in Users : r[1] = "config"}
Views(kind) ==
  {[type |-> kind[1], mode |-> kind[2], vols |-> UserVols(shape.mounts), program |-> p,
    first |-> NoVolume] @@ shape :
     shape \in Shapes,
     p \in IF kind = <<"container", "native">> THEN Programs ELSE {CHOOSE x \in Programs : TRUE}}

PostApp(k) ==
  ~db.failed /\ Cardinality(db.lost) <= MaxLost /\ \E a \in Names, kind \in Kinds :
    \E view \in Views(kind), base \in {a} \cup DOMAIN db.apps :
      /\ Cardinality(Native(Base(db, base).vols)) < MaxPrograms
      /\ Request(k, LAMBDA d : CreateApplication(d, a, view, base))

\* The client keeps all the volumes it got, or those of the services it keeps, in any
\* order.
PutApp ==
  ~db.failed /\ \E a \in DOMAIN db.apps, tidy \in BOOLEAN :
    LET app == db.apps[a]
        old == View(app)
    IN \E view \in Views(<<app.type, app.mode>>) :
         LET stay == DOMAIN view.svcs \cap DOMAIN old.svcs
             own == (Generated \X stay) \cup {old.progs[s] : s \in stay \cap DOMAIN old.progs}
             kept == {v \in DOMAIN old.vols : v[1] # "vol" /\ (tidy => v \in own)}
             vols == Restrict(old.vols, kept)
         IN \E first \in IF Native(vols) = {} THEN {NoVolume} ELSE Native(vols) :
              LET sent == [view EXCEPT !.vols = vols @@ @, !.first = first]
              IN app.ver < MaxVersion /\ Request(0, LAMBDA d : UpdateApplication(d, a, sent))

RemoveApp(k) == \E a \in Names : Request(k, LAMBDA d : DeleteApplication(d, a))
RemoveRes(k) == \E r \in Users : Request(k, LAMBDA d : DeleteRes(d, r))
PutRes ==
  \E r \in Users \cap DOMAIN db.res, x \in {0, 1} :
    /\ ~db.failed /\ db.res[r].ver < MaxVersion /\ db.res[r].data # x
    /\ Request(0, LAMBDA d : UpdateRes(d, r, r[1], x))

Stop == db.odd /\ UNCHANGED db

Faults == IF db.failed \/ db.refused > 0 THEN {0} ELSE 0 .. MaxCalls

Next ==
  \/ ~db.odd /\ \E k \in Faults : PostApp(k) \/ RemoveApp(k) \/ RemoveRes(k)
  \/ ~db.odd /\ (PutApp \/ PutRes)
  \/ Stop

Spec == Init /\ [][Next]_db

-----------------------------------------------------------------------------
Plain == ~db.failed /\ ~db.odd

\* The configurations generated for functions are those of the services of the
\* functions there are, one of each kind for a service: none leaks when a service or
\* an application goes, and none is shared.  Only those of a request that was refused
\* after it had generated them are left, which no application ever mounts.
GeneratedExact == Plain =>
  LET gen == {r \in DOMAIN db.res : r[1] \in Generated}
      of(r) == {a \in DOMAIN db.apps : r \in Mounts(db.apps[a])}
  IN /\ \A r \in gen \ db.lost : Cardinality(of(r)) = 1
     /\ \A r \in db.lost : of(r) = {}
     /\ \A a \in DOMAIN db.apps :
          LET app == db.apps[a] IN
          app.type = "function" =>
            {v \in DOMAIN app.vols : v[1] \in Generated} = Kinded(app) \X DOMAIN app.svcs

\* Whatever call of a POST or DELETE fails, applications mount what exists and what
\* the index lists: it is written before the row of a new application and cleared
\* after that of a deleted one, since DELETE of a resource asks the index alone.
NothingDangles == ~db.odd =>
  \A a \in DOMAIN db.apps :
    /\ Mounts(db.apps[a]) \subseteq DOMAIN db.res
    /\ \A r \in Mounts(db.apps[a]) : <<a, r>> \in db.index

\* An application that waits is on no node; one with a selector is deployed, with the
\* latest version of all it mounts.  An application waits exactly if it has a cron job,
\* unless a request changed the one and was refused before it wrote the other: CreateApp
\* and UpdateApp of the facade change cron jobs before validName.
DeployedLatest == Plain =>
  /\ \A a \in Names \ db.late :
       a \in DOMAIN db.crons <=> a \in DOMAIN db.apps /\ db.apps[a].cron
  /\ db.nindex = {a \in DOMAIN db.apps : db.apps[a].sel} /\ DOMAIN db.desire = db.nindex
  /\ \A a \in db.nindex : ~db.apps[a].cron
  /\ \A a \in db.nindex : db.desire[a] = db.apps[a].ver
  /\ Latest(db)
=============================================================================
