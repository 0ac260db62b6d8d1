----------------------------- MODULE KubeStorage ----------------------------
(***************************************************************************)
(* The storage plugin that keeps everything as Kubernetes objects.  Every  *)
(* write gives an object a new resourceVersion, and an update that names   *)
(* another version is refused.  A node, application, configuration or      *)
(* secret carries the version its caller read; the shadow of a node is two *)
(* objects, its desire and its report, written one after the other against *)
(* the version read just before.  A behaviour is about one object of one   *)
(* kind, or about the shadow of one node, and several callers of it.       *)
(***************************************************************************)
EXTENDS Naturals, Calls

CONSTANTS
  Callers,
  MaxVersion \* bound: writes of objects

VARIABLE db

Idle == [pc |-> "idle", part |-> "", ver |-> 0, body |-> {}, clean |-> TRUE]

\* The body of an object is the set of edits made of it, an edit a caller and a field.
Init ==
  \E kind \in {"node", "application", "configuration", "secret", "shadow"} :
    db = [kind |-> kind, obj |-> [x \in {} |-> 0], rv |-> 0, accepted |-> {},
          created |-> FALSE, caller |-> [c \in Callers |-> Idle]]

\* The API server (external): creation needs a free name, an update the current version.
Exists(part) == part \in DOMAIN db.obj
Current(part, ver) == Exists(part) /\ db.obj[part].ver = ver
Write(d, part, body) ==
  [d EXCEPT !.rv = @ + 1, !.obj = Put(@, part, [ver |-> d.rv + 1, body |-> body])]
Return(d, c) == [d EXCEPT !.caller[c] = Idle]

-----------------------------------------------------------------------------
(* Nodes, applications, configurations and secrets.                        *)

\* The callers' version is the object's resourceVersion, and an object has room for
\* some of the fields only.
Model(o) == [version |-> o.ver, edits |-> o.body]
Object(m, fields) == [ver |-> m.version, body |-> {e \in m.edits : e[2] \in fields}]

toNodeModel(o) == Model(o)
toAppModel(o) == Model(o)
toConfigurationModel(o) == Model(o)
toSecretModel(o) == Model(o)

\* Mutant: the version the caller read is not passed on.
fromAppModel_NoVersion(m) ==
  [Object(m, {"labels", "services"}) EXCEPT !.ver = IF Exists("object") THEN db.obj["object"].ver ELSE 0]

\* The node's own mode is dropped: the attribute, or its default, is what counts.
fromNodeModel(m) == Object(m, {"labels", "sysApps"})
\* ApplicationSpec knows nothing of cron, mode, init services and scaling.
fromAppModel(m) == Object(m, {"labels", "services"})
fromConfigurationModel(m) == Object(m, {"labels", "data"})
fromSecretModel(m) == Object(m, {"labels", "data"})

Fields == [node |-> {"labels", "sysApps", "mode"}, application |-> {"labels", "services", "cron"},
           configuration |-> {"labels", "data"}, secret |-> {"labels", "data"}]

\* A handler reads the object and edits a field of what it read.
Get(c, To(_)) ==
  /\ db.caller[c].pc = "idle" /\ Exists("object")
  /\ LET m == To(db.obj["object"])
     IN \E f \in Fields[db.kind] :
          db' = [db EXCEPT !.caller[c] =
                   [Idle EXCEPT !.pc = "edited", !.ver = m.version, !.body = m.edits \cup {<<c, f>>}]]

\* A creation of a name in use is refused: nothing changes.
Create(From(_)) ==
  /\ db.rv < MaxVersion /\ ~Exists("object")
  /\ db' = [Write(db, "object", From([version |-> 0, edits |-> {}]).body) EXCEPT !.accepted = {}]

Update(c, From(_)) ==
  LET me == db.caller[c]
      o == From([version |-> me.ver, edits |-> me.body])
  IN /\ me.pc = "edited" /\ db.rv < MaxVersion
     /\ db' = IF Current("object", o.ver)
              THEN Return([Write(db, "object", o.body) EXCEPT
                             !.accepted = @ \cup (o.body \ db.obj["object"].body)], c)
              ELSE Return(db, c)

Delete == Exists("object") /\ db' = [db EXCEPT !.obj = Drop(@, "object"), !.accepted = {}]

GetNode(c) == db.kind = "node" /\ Get(c, toNodeModel)
CreateNode == db.kind = "node" /\ Create(fromNodeModel)
UpdateNode(c) == db.kind = "node" /\ Update(c, fromNodeModel)
DeleteNode == db.kind = "node" /\ Delete

GetApplication(c) == db.kind = "application" /\ Get(c, toAppModel)
CreateApplication == db.kind = "application" /\ Create(fromAppModel)
UpdateApplication(c) == db.kind = "application" /\ Update(c, fromAppModel)
DeleteApplication == db.kind = "application" /\ Delete

GetConfig(c) == db.kind = "configuration" /\ Get(c, toConfigurationModel)
CreateConfig == db.kind = "configuration" /\ Create(fromConfigurationModel)
UpdateConfig(c) == db.kind = "configuration" /\ Update(c, fromConfigurationModel)
DeleteConfig == db.kind = "configuration" /\ Delete

GetSecret(c) == db.kind = "secret" /\ Get(c, toSecretModel)
CreateSecret == db.kind = "secret" /\ Create(fromSecretModel)
UpdateSecret(c) == db.kind = "secret" /\ Update(c, fromSecretModel)
DeleteSecret == db.kind = "secret" /\ Delete

-----------------------------------------------------------------------------
(* The shadow.                                                             *)

\* A creation or deletion begins; from now on none that runs is clean.
Busy == \E c \in Callers : db.caller[c].pc \in {"create", "get", "put", "delete"}
Start(c, pc, part) ==
  /\ db.kind = "shadow" /\ db.caller[c].pc = "idle"
  /\ db' = [db EXCEPT !.created = FALSE,
                      !.caller = [x \in Callers |->
                         IF x = c THEN [Idle EXCEPT !.pc = pc, !.part = part, !.clean = ~Busy]
                         ELSE [@[x] EXCEPT !.clean = FALSE]]]

\* The part of a creation is written, or was left alone: what comes next.
NextPart(d, c) ==
  IF d.caller[c].part = "desire"
  THEN [d EXCEPT !.caller[c].pc = "create", !.caller[c].part = "report"]
  ELSE Return([d EXCEPT !.created = d.caller[c].clean], c)

\* Mutant: a part that exists ends the creation.
CreatePart_Existing(c) ==
  LET me == db.caller[c] IN
  /\ me.pc = "create" /\ db.rv < MaxVersion
  /\ \/ ~Exists(me.part) /\ db' = NextPart(Write(db, me.part, {}), c)
     \/ Exists(me.part) /\ db' = Return([db EXCEPT !.created = me.clean], c)

\* Create: a creation that fails, because the object exists or for any other reason,
\* makes it look for the object.
CreatePart(c) ==
  LET me == db.caller[c] IN
  /\ me.pc = "create" /\ db.rv < MaxVersion
  /\ \/ ~Exists(me.part) /\ db' = NextPart(Write(db, me.part, {}), c)
     \/ Exists(me.part) /\ db' = [db EXCEPT !.caller[c].pc = "get"]
     \/ db' = [db EXCEPT !.caller[c].pc = "get", !.caller[c].clean = FALSE]

\* If that fails too, or it is not there, the error is forgotten.
CreateGet(c) ==
  LET me == db.caller[c] IN
  /\ me.pc = "get"
  /\ \/ /\ Exists(me.part)
        /\ db' = [db EXCEPT !.caller[c].pc = "put", !.caller[c].ver = db.obj[me.part].ver]
     \/ ~Exists(me.part) /\ db' = NextPart(db, c)
     \/ db' = NextPart([db EXCEPT !.caller[c].clean = FALSE], c)

CreatePut(c) ==
  LET me == db.caller[c] IN
  /\ me.pc = "put" /\ db.rv < MaxVersion
  /\ db' = IF Current(me.part, me.ver) THEN NextPart(Write(db, me.part, {}), c) ELSE Return(db, c)

\* Delete: both objects, whatever becomes of the first.
DeletePart(c) ==
  LET me == db.caller[c]
      gone == [db EXCEPT !.obj = Drop(@, me.part)]
  IN /\ me.pc = "delete"
     /\ db' = IF me.part = "desire" THEN [gone EXCEPT !.caller[c].part = "report"] ELSE Return(gone, c)

\* UpdateDesire and UpdateReport write over the version they just read, not over the one
\* the caller's content was computed from.
UpdateGet(c, part) ==
  /\ db.kind = "shadow" /\ db.caller[c].pc = "idle" /\ Exists(part)
  /\ db' = [db EXCEPT !.caller[c] = [Idle EXCEPT !.pc = "update", !.part = part, !.ver = db.obj[part].ver]]

UpdatePut(c) ==
  LET me == db.caller[c] IN
  /\ me.pc = "update" /\ db.rv < MaxVersion
  /\ db' = Return(IF Current(me.part, me.ver) THEN Write(db, me.part, {}) ELSE db, c)

CreateShadow(c) == Start(c, "create", "desire")
DeleteShadow(c) == Start(c, "delete", "desire")

\* The process dies, or a call fails, between two calls of a handler.
Crash(c) == db.caller[c].pc # "idle" /\ db' = Return(db, c)

Next ==
  \/ \E c \in Callers :
       \/ GetNode(c) \/ UpdateNode(c)
       \/ GetApplication(c) \/ UpdateApplication(c)
       \/ GetConfig(c) \/ UpdateConfig(c)
       \/ GetSecret(c) \/ UpdateSecret(c)
       \/ CreateShadow(c) \/ CreatePart(c) \/ CreateGet(c) \/ CreatePut(c)
       \/ DeleteShadow(c) \/ DeletePart(c)
       \/ \E part \in {"desire", "report"} : UpdateGet(c, part)
       \/ UpdatePut(c)
       \/ Crash(c)
  \/ CreateNode \/ CreateApplication \/ CreateConfig \/ CreateSecret
  \/ DeleteNode \/ DeleteApplication \/ DeleteConfig \/ DeleteSecret

Spec == Init /\ [][Next]_db

-----------------------------------------------------------------------------
\* An edit the store accepted is in the object as long as the object lives: no caller
\* that read the object earlier writes over it (fromNodeModel, fromAppModel,
\* fromConfigurationModel and fromSecretModel hand on the version that was read).
NoEditLost == Exists("object") => db.accepted \subseteq db.obj["object"].body

\* A shadow whose creation succeeded has both of its objects, whatever a creation or a
\* deletion that died on the way had left, if no other ran beside it and none of its
\* calls failed (the upsert of Create).
CreatedWhole == db.created => Exists("desire") /\ Exists("report")
=============================================================================
