------------------------------- MODULE Tables -------------------------------
(***************************************************************************)
(* The tables of the database plugin that are written one row at a time.   *)
(* Their methods follow one pattern in several variants, which a table's   *)
(* record describes:                                                       *)
(*   columns     what a row holds (besides its key and version);           *)
(*   stored      the columns its UPDATE statement sets;                    *)
(*   compared    what makes an update differ from the row it reads first,  *)
(*               empty if it reads none;                                   *)
(*   insert, update   the calls: tx, in a transaction; back, the row is    *)
(*               read back at the end; must, and has to be there;          *)
(*   page        how a listing is cut: "slice" in the program after the    *)
(*               labels were matched, "limit" by the statement, "all" not. *)
(* A row is the set of the columns that have their second value.  A        *)
(* behaviour is about one of the tables.                                   *)
(***************************************************************************)
EXTENDS Paging, Calls

CONSTANTS
  Names,       \* of rows
  MaxRequests, \* bound: writes
  MaxCalls     \* bound: the last call of a request that may fail

VARIABLE db

Plain == [tx |-> FALSE, back |-> FALSE, must |-> FALSE]
Fetch == [Plain EXCEPT !.back = TRUE]
ReadBack == [Fetch EXCEPT !.must = TRUE]
InTx == [Plain EXCEPT !.tx = TRUE]
InTxReadBack == [ReadBack EXCEPT !.tx = TRUE]

-----------------------------------------------------------------------------
(* The tables.                                                             *)

DriverColumns ==
  {"type", "mode", "labels", "protocol", "arch", "description", "default_config", "service",
   "volumes", "registries", "program_config"}
EqualDriver == DriverColumns \ {"mode"}
DriverStored == DriverColumns \ {"mode", "protocol"}
Driver ==
  [columns |-> DriverColumns, stored |-> DriverStored, compared |-> EqualDriver,
   insert |-> InTxReadBack, update |-> InTxReadBack, page |-> "slice"]

TemplateColumns == {"description", "protocol", "labels", "device_model", "mappings", "properties"}
\* Mutant: labels are not compared.
EqualAccessTemplate_NoLabels == TemplateColumns \ {"device_model", "labels"}
EqualAccessTemplate == TemplateColumns \ {"device_model"}
TemplateStored == TemplateColumns \ {"device_model", "protocol"}
AccessTemplate ==
  [columns |-> TemplateColumns, stored |-> TemplateStored, compared |-> EqualAccessTemplate,
   insert |-> InTxReadBack, update |-> InTxReadBack, page |-> "slice"]

\* A model and its draft are rows of their own: the type is part of the key.
ModelColumns == {"description", "protocol", "labels", "attributes", "properties"}
EqualDeviceModel == ModelColumns
ModelStored == ModelColumns \ {"protocol"}
DeviceModel ==
  [columns |-> ModelColumns, stored |-> ModelStored, compared |-> EqualDeviceModel,
   insert |-> InTxReadBack, update |-> InTxReadBack, page |-> "slice"]

DeviceDriverColumns == {"driver_name", "protocol", "application", "configuration", "driver_config"}
EqualDeviceDriver == DeviceDriverColumns
DeviceDriverStored == {"application", "configuration", "driver_config"}
DeviceDriver ==
  [columns |-> DeviceDriverColumns, stored |-> DeviceDriverStored, compared |-> EqualDeviceDriver,
   insert |-> InTxReadBack, update |-> InTxReadBack, page |-> "limit"]

UplinkColumns ==
  {"protocol", "destination", "address", "mqtt_user", "mqtt_password", "http_method", "http_path",
   "ca", "private_key", "cert", "passphrase"}
DeviceUplink ==
  [columns |-> UplinkColumns, stored |-> UplinkColumns \ {"protocol", "destination"},
   compared |-> {}, insert |-> ReadBack, update |-> ReadBack, page |-> "limit"]

NodeConfiguration ==
  [columns |-> {"data"}, stored |-> {"data"}, compared |-> {}, insert |-> Fetch,
   update |-> Fetch, page |-> "all"]

BatchColumns ==
  {"description", "quota_num", "accelerator", "sys_apps", "enable_whitelist", "security_type",
   "security_key", "callback_name", "labels", "fingerprint", "cluster"}
Batch ==
  [columns |-> BatchColumns,
   stored |-> BatchColumns \ {"enable_whitelist", "security_type", "security_key", "cluster"},
   compared |-> {}, insert |-> Plain, update |-> Plain, page |-> "all"]

Record ==
  [columns |-> {"fingerprint_value", "active", "node_name", "active_ip", "active_time"},
   stored |-> {"active", "node_name", "active_ip", "active_time"},
   compared |-> {}, insert |-> Plain, update |-> Plain, page |-> "limit"]

Property ==
  [columns |-> {"value"}, stored |-> {"value"}, compared |-> {}, insert |-> Plain,
   update |-> Plain, page |-> "limit"]

\* A namespace is its name.  Of its deletion, which goes on to empty four other tables,
\* only the first statement is here.
Namespace ==
  [columns |-> {}, stored |-> {}, compared |-> {}, insert |-> InTxReadBack, update |-> Plain,
   page |-> "slice"]

\* The last six are kept in the column attributes.
NodeColumns ==
  {"node_mode", "description", "labels", "annotations", "attributes", "accelerator", "sys_apps",
   "cluster", "link", "core_id"}
EqualNode == NodeColumns \ {"cluster", "link", "core_id"}
Node ==
  [columns |-> NodeColumns, stored |-> NodeColumns, compared |-> EqualNode,
   insert |-> InTxReadBack, update |-> InTx, page |-> "all"]

ApplicationColumns ==
  {"type", "mode", "is_system", "description", "labels", "selector", "node_selector", "services",
   "init_services", "volumes", "cron_status", "cron_time", "workload", "host_network",
   "dns_policy", "replica", "job_config", "ota", "autoScaleCfg", "preserve_updates"}
EqualApp == ApplicationColumns \ {"type", "mode", "is_system"}
Application ==
  [columns |-> ApplicationColumns, stored |-> ApplicationColumns \ {"type", "mode", "is_system"},
   compared |-> EqualApp, insert |-> InTxReadBack, update |-> InTx, page |-> "slice"]

ConfigurationColumns == {"description", "is_system", "labels", "data"}
EqualConfig == ConfigurationColumns
Configuration ==
  [columns |-> ConfigurationColumns, stored |-> ConfigurationColumns \ {"is_system"},
   compared |-> EqualConfig, insert |-> InTxReadBack, update |-> Plain, page |-> "slice"]

SecretColumns == {"description", "is_system", "labels", "data"}
Secret ==
  [columns |-> SecretColumns, stored |-> SecretColumns \ {"is_system"}, compared |-> {},
   insert |-> InTxReadBack, update |-> InTxReadBack, page |-> "slice"]

Tables ==
  {Driver, AccessTemplate, DeviceModel, DeviceDriver, DeviceUplink, NodeConfiguration, Batch,
   Record, Property, Namespace, Node, Application, Configuration, Secret}

-----------------------------------------------------------------------------
(* What their methods do.                                                  *)

Init ==
  \E t \in Tables :
    db = [table |-> t, row |-> [x \in {} |-> {}], requests |-> 0, whole |-> TRUE,
          left |-> 0, err |-> FALSE, failed |-> FALSE]

Read(d, x) == Then(Do(d, d), Refuse(Do(d, d), x \notin DOMAIN d.row))
In(calls, d, new) == IF calls.tx THEN Transact(d, new) ELSE new
Back(calls, d, x) ==
  IF calls.back THEN Then(d, IF calls.must THEN Read(d, x) ELSE Do(d, d)) ELSE d

\* INSERT: a name in use is an error.
Insert(d, x, r) ==
  LET d1 == Refuse(d, x \in DOMAIN d.row)
      d2 == Do(d1, [d1 EXCEPT !.row = Put(@, x, r)])
  IN In(d.table.insert, d, Back(d.table.insert, d2, x))

\* What UPDATE makes of the row old when r is asked for.
Stored(t, old, r) == (old \ t.stored) \cup (r \cap t.stored)
Differ(a, b) == (a \ b) \cup (b \ a)

\* The row is read and, if nothing that is compared differs, left as it is.  A table
\* that does not read it first updates a missing row without noticing.
Update(d, x, r) ==
  LET t == d.table
      d1 == IF t.compared = {} THEN d ELSE Read(d, x)
      same == t.compared # {} /\ Differ(d.row[x], r) \cap t.compared = {}
      write == IF x \in DOMAIN d.row THEN [d1 EXCEPT !.row[x] = Stored(t, @, r)] ELSE d1
      d2 == Then(d1, IF same THEN d1 ELSE Back(t.update, Do(d1, write), x))
  IN In(t.update, d, d2)

Delete(d, x) == Do(d, [d EXCEPT !.row = Drop(@, x)])

\* The listing s cut into pages; a label selector asks for the rows with second labels.
List(t, row, s, selector, no, size) ==
  LET matches(x) == selector = AnyLabel \/ "labels" \in row[x]
  IN CASE t.page = "slice" -> Slice(SelectSeq(s, matches), no, size)
       [] t.page = "limit" -> Limit(s, no, size)
       [] t.page = "all" -> SelectSeq(s, matches)

-----------------------------------------------------------------------------
\* Stored with a node, but overlooked by EqualNode: a change of these alone is dropped.
Overlooked == {"cluster", "link", "core_id"}

Finish(new, done) ==
  db' = [End(db, new) EXCEPT !.failed = FALSE, !.requests = @ + 1, !.whole = done]

Kept(new, calls) == new.err /\ calls.tx => new.row = db.row

Create(x, k) ==
  LET new == Insert(Begin(db, k), x, {})
  IN Finish(new, Kept(new, db.table.insert) /\ (~new.err => x \in DOMAIN new.row))

\* A caller changes one column of the row it read, which may be gone by now.
Change(x, c, k) ==
  LET old == IF x \in DOMAIN db.row THEN db.row[x] ELSE {}
      r == Differ(old, {c})
      new == Update(Begin(db, k), x, r)
  IN Finish(new, Kept(new, db.table.update)
                 /\ (~new.err /\ c \in db.table.stored \ Overlooked /\ x \in DOMAIN db.row => new.row[x] = r))

Erase(x, k) == Finish(Delete(Begin(db, k), x), TRUE)

Next ==
  /\ db.requests < MaxRequests
  /\ \E x \in Names, k \in 0..MaxCalls :
       \/ Create(x, k)
       \/ \E c \in db.table.columns : Change(x, c, k)
       \/ Erase(x, k)

Spec == Init /\ [][Next]_db

-----------------------------------------------------------------------------
\* A write that succeeds has stored what the caller changed, if the UPDATE statement
\* sets that column: no comparison takes it for a repetition.  A write in a transaction
\* that returns an error has changed nothing, also when its last step, reading the row
\* back, fails: it can be repeated.
WriteWhole == db.whole

\* Page after page, a listing shows each row that matches the selector once.
PagesCover ==
  LET t == db.table IN
  \A s \in Listings(DOMAIN db.row), size \in 1..Cardinality(Names), selector \in {AnyLabel, "labels"} :
    LET page(no) == List(t, db.row, s, selector, no, size)
    IN t.page # "all" => Covers(page, List(t, db.row, s, selector, 1, 0), size)
=============================================================================
