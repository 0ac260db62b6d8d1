------------------------------ MODULE Devices -------------------------------
(***************************************************************************)
(* The tables of devices and of their bindings to nodes.                   *)
(*   device  name -> [model, node, ready, labels, body, ver]; node stands  *)
(*           for node and driver ("" for none), labels for labels and      *)
(*           configuration, body for the rest a user writes                *)
(*   bound   <<name, model>> -> [inst, body, ver]                          *)
(* A batch is a sequence of devices as a caller sends them.  RowsAffected  *)
(* counts the rows a statement changed, as the database does by default.   *)
(***************************************************************************)
EXTENDS Paging, Calls

CONSTANTS
  Rows,       \* the devices callers send: [name, model, node, labels, body]
  Batches,    \* sequences of them
  Bindings,   \* the bindings they send: <<name, model, driver instance>>
  MaxVersion, \* bound: of the versions of all rows together
  MaxCalls    \* bound: the last call of a request that may fail

VARIABLE db

Nothing == [x \in {} |-> 0]
DeviceNames == {r.name : r \in Rows}
Models == {b[2] : b \in Bindings}
Bodies == {r.body : r \in Rows}

\* whole: history, the last request that unbinds a batch did all of it or nothing.
Init == db = [device |-> Nothing, bound |-> Nothing, whole |-> TRUE,
              left |-> 0, err |-> FALSE, failed |-> FALSE]

NamesOf(batch) == {batch[i].name : i \in DOMAIN batch}
RowOf(r, ver) == [model |-> r.model, node |-> r.node, ready |-> FALSE,
                  labels |-> r.labels, body |-> r.body, ver |-> ver]
Present(d, names) == names \cap DOMAIN d.device

\* Every device in names as f makes it.
SetAll(d, names, f(_)) ==
  [d EXCEPT !.device = [x \in DOMAIN @ |-> IF x \in names THEN f(x) ELSE @[x]]]

-----------------------------------------------------------------------------
(* Devices.                                                                *)

CreateDevice(d, r) ==
  Transact(d, Do(Refuse(d, r.name \in DOMAIN d.device),
                 [d EXCEPT !.device = Put(@, r.name, RowOf(r, 0))]))

\* One INSERT of all the rows.
BatchCreateDevice(d, batch) ==
  LET taken == NamesOf(batch) \cap DOMAIN d.device # {} \/ Cardinality(NamesOf(batch)) # Len(batch)
      row(x) == RowOf(CHOOSE r \in Range(batch) : r.name = x, 0)
  IN Transact(d, Do(Refuse(d, taken),
       [d EXCEPT !.device = [x \in DOMAIN @ \cup NamesOf(batch) |->
                               IF x \in NamesOf(batch) THEN row(x) ELSE @[x]]]))

\* EqualDevice: the protocol, which no update stores, is part of the model here.
EqualDevice(old, new) == [new EXCEPT !.ver = old.ver] = old

UpdateDevice(d, r) ==
  LET r0 == Refuse(d, r.name \notin DOMAIN d.device)
      old == r0.device[r.name]
      new == RowOf(r, old.ver + 1)
  IN Transact(d, Then(r0, IF EqualDevice(old, new) THEN r0
                          ELSE Do(r0, [r0 EXCEPT !.device[r.name] = new])))

BatchUpdateDeviceNodeAndDriver(d, names, node) ==
  LET f(x) == [d.device[x] EXCEPT !.node = node, !.ready = FALSE, !.ver = @ + 1]
  IN Transact(d, Do(d, SetAll(d, Present(d, names), f)))

\* BatchUpdateDeviceProps, BatchUpdateDeviceAttrs: one statement, no transaction.
BatchUpdateDeviceProps(d, names, body) ==
  LET f(x) == [d.device[x] EXCEPT !.body = body, !.ver = @ + 1]
  IN Do(d, SetAll(d, Present(d, names), f))

DeleteDevice(d, x) == Do(d, [d EXCEPT !.device = Drop(@, x)])

UpdateDeviceStateByName(d, names, ready) ==
  LET f(x) == [d.device[x] EXCEPT !.ready = ready] IN Do(d, SetAll(d, Present(d, names), f))

\* One statement: every row gets the node, driver and state of the last device of the
\* batch and the labels of its own (the first WHEN that fits), and no new version.
BatchUpdateDeviceTx(d, batch) ==
  LET own(x) == batch[Min({i \in DOMAIN batch : batch[i].name = x})]
      f(x) == [d.device[x] EXCEPT !.node = Last(batch).node, !.ready = FALSE,
                                  !.labels = own(x).labels]
      new == SetAll(d, Present(d, NamesOf(batch)), f)
      affected == Cardinality({x \in DOMAIN d.device : new.device[x] # d.device[x]})
      r == Do(d, new)
  IN Then(r, Refuse(r, affected # Len(batch)))

BatchUpdateDevice(d, batch) == Transact(d, BatchUpdateDeviceTx(d, batch))

-----------------------------------------------------------------------------
(* Bindings.                                                               *)

CreateNodeDevice(d, key, inst) ==
  Transact(d, Do(Refuse(d, key \in DOMAIN d.bound),
                 [d EXCEPT !.bound = Put(@, key, [inst |-> inst, body |-> 1, ver |-> 0])]))

\* EqualNodeDevice does not compare the driver instance.
UpdateNodeDevice(d, key, inst, body) ==
  LET r == Refuse(d, key \notin DOMAIN d.bound)
      old == r.bound[key]
  IN Transact(d, Then(r, IF old.body = body THEN r
       ELSE Do(r, [r EXCEPT !.bound[key] = [inst |-> inst, body |-> body, ver |-> old.ver + 1]])))

DeleteNodeDevice(d, key) == Do(d, [d EXCEPT !.bound = Drop(@, key)])

\* One INSERT, which fails as a whole if a row is there.
BatchCreateNodeDevice(d, keys, inst) ==
  Do(Refuse(d, keys \cap DOMAIN d.bound # {}),
     [d EXCEPT !.bound = [k \in DOMAIN @ \cup keys |->
        IF k \in keys THEN [inst |-> inst, body |-> 1, ver |-> 0] ELSE @[k]]])

\* The count comes after the deletion, which only a transaction undoes.
BatchDeleteNodeDevicesTx(d, model, names) ==
  LET keys == {<<x, model>> : x \in Range(names)} \cap DOMAIN d.bound
      r == Do(d, [d EXCEPT !.bound = Restrict(@, DOMAIN @ \ keys)])
  IN Then(r, Refuse(r, Cardinality(keys) # Len(names)))

\* Mutant: no transaction.
BatchUpdateDeviceAndDeleteNodeDevice_NoTx(d, batch) ==
  LET r == BatchUpdateDeviceTx(d, batch)
      names == [i \in DOMAIN batch |-> batch[i].name]
  IN Then(r, BatchDeleteNodeDevicesTx(r, batch[1].model, names))

BatchUpdateDeviceAndDeleteNodeDevice(d, batch) ==
  LET r == BatchUpdateDeviceTx(d, batch)
      names == [i \in DOMAIN batch |-> batch[i].name]
  IN Transact(d, Then(r, BatchDeleteNodeDevicesTx(r, batch[1].model, names)))

-----------------------------------------------------------------------------
(* Listings; s is the names of all devices as the database orders them.    *)

Match(d, sel, x) == sel = AnyLabel \/ d.device[x].labels = sel

\* With a selector the page is ignored; the total counts the rows of every label, and
\* is 0 when the page has none.
ListDevice(d, s, sel, no, size) ==
  LET rows == IF sel = AnyLabel THEN Limit(s, no, size) ELSE s
      ok(x) == Match(d, sel, x)
  IN [items |-> SelectSeq(rows, ok), total |-> IF rows = <<>> THEN 0 ELSE Len(s)]

ListDeviceByDeviceModel(d, s, model, sel, no, size) ==
  LET of(x) == d.device[x].model = model
      ok(x) == Match(d, sel, x)
      rows == SelectSeq(s, of)
  IN SelectSeq(IF sel = AnyLabel THEN Limit(rows, no, size) ELSE rows, ok)

\* ListDeviceByDriverAndNode; ListDeviceByProtocol is the same of another column.
ListDeviceByDriverAndNode(d, s, node, no, size) ==
  LET of(x) == d.device[x].node = node
      rows == SelectSeq(s, of)
  IN [items |-> Limit(rows, no, size), total |-> Len(rows)]

-----------------------------------------------------------------------------
VersionsOf(d) == SumFunction([x \in DOMAIN d.device |-> d.device[x].ver])
               + SumFunction([k \in DOMAIN d.bound |-> d.bound[k].ver])

\* A request of one statement, or of a transaction around one: if the statement fails
\* nothing changes.
Request(new) ==
  /\ VersionsOf(new) <= MaxVersion
  /\ db' = [End(db, new) EXCEPT !.failed = FALSE, !.whole = TRUE]

Unbound(d, batch) ==
  \A i \in DOMAIN batch :
    LET x == batch[i].name
    IN /\ x \in DOMAIN d.device /\ d.device[x].node = Last(batch).node
       /\ <<x, batch[1].model>> \notin DOMAIN d.bound

WriteDevice ==
  \/ \E r \in Rows : Request(CreateDevice(db, r)) \/ Request(UpdateDevice(db, r))
  \/ \E batch \in Batches :
       Request(BatchCreateDevice(db, batch)) \/ Request(BatchUpdateDevice(db, batch))
  \/ \E x \in DeviceNames : Request(DeleteDevice(db, x))

WriteColumns ==
  \E names \in (SUBSET DeviceNames) \ {{}} :
    \/ \E node \in {r.node : r \in Rows} : Request(BatchUpdateDeviceNodeAndDriver(db, names, node))
    \/ \E body \in Bodies : Request(BatchUpdateDeviceProps(db, names, body))
    \/ \E ready \in BOOLEAN : Request(UpdateDeviceStateByName(db, names, ready))

Bind ==
  \/ \E b \in Bindings :
       LET key == <<b[1], b[2]>> IN
       \/ Request(CreateNodeDevice(db, key, b[3]))
       \/ \E body \in Bodies : Request(UpdateNodeDevice(db, key, b[3], body))
       \/ Request(DeleteNodeDevice(db, key))
       \/ \E c \in Bindings : Request(BatchCreateNodeDevice(db, {key, <<c[1], c[2]>>}, b[3]))
  \/ \E names \in (SUBSET DeviceNames) \ {{}}, model \in Models :
       Request(BatchDeleteNodeDevicesTx(db, model, SetToSeq(names)))

Unbind(k) ==
  \E batch \in Batches :
    LET new == BatchUpdateDeviceAndDeleteNodeDevice(Begin(db, k), batch)
        done == IF new.err THEN new.device = db.device /\ new.bound = db.bound
                ELSE Unbound(new, batch)
    IN db' = [End(db, new) EXCEPT !.failed = FALSE, !.whole = done]

Next == WriteDevice \/ WriteColumns \/ Bind \/ \E k \in 0..MaxCalls : Unbind(k)

Spec == Init /\ [][Next]_db

-----------------------------------------------------------------------------
\* Unbinding a batch changes the devices and removes their bindings, or changes
\* nothing: also when a device or a binding is missing, a device is named twice, is
\* already as the batch wants it, or is of another model than the first.
UnbindWhole == db.whole

\* Page after page, a listing of devices without a selector shows each device once, and
\* a page that is not empty tells how many there are; with a selector, it shows those
\* that match.
PagesCover ==
  \A s \in Listings(DOMAIN db.device), size \in 1..(Cardinality(DeviceNames) + 1) :
    /\ LET list(no) == ListDevice(db, s, AnyLabel, no, size) IN
       /\ LET items(no) == list(no).items IN Covers(items, s, size)
       /\ \A no \in 1..Len(s) : list(no).items # <<>> => list(no).total = Len(s)
    /\ \A r \in Rows :
         LET ofModel(no) == ListDeviceByDeviceModel(db, s, r.model, AnyLabel, no, size)
             ofNode(no) == ListDeviceByDriverAndNode(db, s, r.node, no, size).items
         IN /\ Covers(ofModel, ListDeviceByDeviceModel(db, s, r.model, AnyLabel, 1, 0), size)
            /\ Covers(ofNode, ListDeviceByDriverAndNode(db, s, r.node, 1, 0).items, size)
            /\ Range(ListDevice(db, s, r.labels, 1, size).items)
                 = {x \in DOMAIN db.device : db.device[x].labels = r.labels}
=============================================================================
