---------------------------- MODULE ReportCache ----------------------------
(***************************************************************************)
(* The caches behind the node list.  Whether the list shows a node online  *)
(* depends on the time of its last report; the list reads times and        *)
(* reports from a cache instead of the shadows:                            *)
(*   shadow-<namespace>-time           a map from names to times,          *)
(*   shadow-<namespace>-<name>-report  the report of one node.             *)
(* Writing a shadow triggers ShadowCreateOrUpdateCacheSet: it stores the   *)
(* time in a map in memory, reportSaveMap, and, if it finds the tick of a  *)
(* one-second timer, moves that map into the cached one (saveCache).  A    *)
(* deletion triggers ShadowDeleteCache, and the list itself fills what it  *)
(* misses.  None of this is serialised: one action below is one access to  *)
(* a table, to the cache or to reportSaveMap.                              *)
(*                                                                         *)
(* A report is identified by its time, so one number stands for both: -1   *)
(* for none, 0 for a shadow that has no report yet (the zero time).        *)
(***************************************************************************)
EXTENDS Integers, FiniteSets

CONSTANTS
  Namespaces, Names,  \* a node is a name in a namespace
  Installed,    \* the nodes in the database when the server starts; its
                \* cache is empty then
  Overlap,      \* how many reports of one node may be served at once
  Admins,       \* goroutines serving POST, DELETE and GET of nodes
  Requests,     \* the operations of the administrator in this instance
  CacheErrors,  \* may writing a map or a report to the cache fail (freecache
                \* refuses entries above 1/1024 of its size)
  ResetLimit,   \* 10 in the code: with more reports missing all are read
  MaxTime,      \* bound: later reports carry this time
  MaxRequests   \* bound: requests of the administrator

Nodes == Namespaces \X Names
Reporters == Nodes \X (1 .. Overlap)
Procs == Reporters \cup Admins
Operations == {"Create", "Delete", "List"}

ASSUME ConstantsAssumption ==
  /\ Overlap \in Nat /\ ResetLimit \in Nat /\ MaxTime \in Nat /\ MaxRequests \in Nat
  /\ Reporters \cap Admins = {} /\ Installed \subseteq Nodes
  /\ Requests \subseteq Operations /\ CacheErrors \in BOOLEAN

VARIABLES
  nodes,          \* baetyl_node: the nodes present
  row,            \* baetyl_node_shadow: the report of each node, -1 without row
  save,           \* reportSaveMap: keyed by the name alone, -1 without entry
  timer,          \* t: "armed", "tick" in its channel, or "taken"
  timeKeys,       \* the namespaces whose map of times is cached
  times,          \* the cached maps
  data,           \* the cached reports
  timeLock,       \* CacheUpdateReportTimeLock is set
  setLock,        \* CacheReportSetLock is set
  pc, loc,        \* the goroutines
  clock, left     \* the last report time, and the requests to come

cache == <<timeKeys, times, data>>
locks == <<timeLock, setLock>>
vars == <<nodes, row, save, timer, timeKeys, times, data, timeLock, setLock, pc, loc, clock, left>>

\* -1 is no time.
EmptyMap == [k \in Names |-> -1]
Keys(m) == {k \in Names : m[k] # -1}

\* Local variables: the node (or any node of the namespace listed), its report,
\* a map of times or reports, names still to visit, the name being visited,
\* and whether the goroutine has taken the tick.
Blank == [n |-> CHOOSE n \in Nodes : TRUE, t |-> -1, map |-> EmptyMap,
          todo |-> {}, cur |-> {}, tick |-> FALSE]

Init ==
  /\ nodes = Installed /\ row = [n \in Nodes |-> IF n \in Installed THEN 0 ELSE -1]
  /\ save = EmptyMap /\ timer = "armed"
  /\ timeKeys = {} /\ times = [s \in Namespaces |-> EmptyMap]
  /\ data = [n \in Nodes |-> -1]
  /\ timeLock = FALSE /\ setLock = FALSE
  /\ pc = [p \in Procs |-> "idle"] /\ loc = [p \in Procs |-> Blank]
  /\ clock = 0 /\ left = MaxRequests

At(p, point) == pc[p] = point
Goto(p, point) == pc' = [pc EXCEPT ![p] = point]
Finish(p) == Goto(p, "idle") /\ loc' = [loc EXCEPT ![p] = Blank]
Ns(p) == loc[p].n[1]
Name(p) == loc[p].n[2]

Flushing == {p \in Procs : pc[p] \in {"read", "range", "rangedel"}}

\* Entries ks of reportSaveMap are replaced or removed: a flush that has not come
\* to them (todo) no longer finds the entries it would have saved.
Forget(l, ks) == [q \in Procs |-> [l[q] EXCEPT !.todo = IF q \in Flushing THEN @ \ ks ELSE @]]

\* SetByte of a map of times.
SetTimes(s, m) == timeKeys' = timeKeys \cup {s} /\ times' = [times EXCEPT ![s] = m]
SetFails == CacheErrors /\ UNCHANGED <<timeKeys, times>>

-----------------------------------------------------------------------------
\* UpdateReport up to the statement that writes the shadow: the report gets its
\* time, and a node without shadow gets one.
Report(p) ==
  /\ At(p, "idle") /\ p[1] \in nodes
  /\ clock' = IF clock < MaxTime THEN clock + 1 ELSE clock
  /\ loc' = [loc EXCEPT ![p].n = p[1], ![p].t = clock']
  /\ Goto(p, IF row[p[1]] = -1 THEN "newrow" ELSE "update")
  /\ UNCHANGED <<nodes, row, save, timer, cache, locks, left>>

\* DB.UpdateReport.  If the row is gone, the shadow read back is nil and the
\* handler panics when it passes it to the trigger.
UpdateShadowReport(p) ==
  /\ At(p, "update")
  /\ IF row[loc[p].n] = -1
     THEN Finish(p) /\ UNCHANGED row
     ELSE Goto(p, "store") /\ row' = [row EXCEPT ![loc[p].n] = loc[p].t] /\ UNCHANGED loc
  /\ UNCHANGED <<nodes, save, timer, cache, locks, clock, left>>

\* DB.Create of a shadow; likewise if the row exists already.
CreateShadow(p) ==
  /\ At(p, "newrow")
  /\ IF row[loc[p].n] # -1
     THEN Finish(p) /\ UNCHANGED row
     ELSE Goto(p, "store") /\ row' = [row EXCEPT ![loc[p].n] = loc[p].t] /\ UNCHANGED loc
  /\ UNCHANGED <<nodes, save, timer, cache, locks, clock, left>>

-----------------------------------------------------------------------------
\* Mutant: the timer is reset as soon as its tick is taken.
Store_ResetAtOnce(p) ==
  /\ At(p, "store")
  /\ save' = [save EXCEPT ![Name(p)] = loc[p].t]
  /\ IF timer = "tick"
     THEN timer' = "armed" /\ Goto(p, "load")
          /\ loc' = [Forget(loc, {Name(p)}) EXCEPT ![p].tick = TRUE]
     ELSE UNCHANGED timer /\ Goto(p, "setdata") /\ loc' = Forget(loc, {Name(p)})
  /\ UNCHANGED <<nodes, row, cache, locks, clock, left>>

\* ShadowCreateOrUpdateCacheSet up to its select.
Store(p) ==
  /\ At(p, "store")
  /\ save' = [save EXCEPT ![Name(p)] = loc[p].t]
  /\ IF timer = "tick"
     THEN timer' = "taken" /\ Goto(p, "load")
          /\ loc' = [Forget(loc, {Name(p)}) EXCEPT ![p].tick = TRUE]
     ELSE UNCHANGED timer /\ Goto(p, "setdata") /\ loc' = Forget(loc, {Name(p)})
  /\ UNCHANGED <<nodes, row, cache, locks, clock, left>>

\* The lock is taken unless it is there (one step: nobody without the tick looks
\* at it), and timeCheck is now: what reportSaveMap holds is older.  (A lock
\* older than two minutes would be removed; none gets that old.)
LockTimes(p) ==
  /\ At(p, "load")
  /\ IF timeLock
     THEN Goto(p, "setdata") /\ UNCHANGED <<timeLock, loc>>
     ELSE /\ timeLock' = TRUE /\ Goto(p, "read")
          /\ loc' = [loc EXCEPT ![p].todo = Keys(save)]
  /\ UNCHANGED <<nodes, row, save, timer, cache, setLock, clock, left>>

\* saveCache reads the cached map, if there is one.
LoadTimes(p) ==
  /\ At(p, "read") /\ Goto(p, "range")
  /\ loc' = [loc EXCEPT ![p].map = IF Ns(p) \in timeKeys THEN times[Ns(p)] ELSE EmptyMap]
  /\ UNCHANGED <<nodes, row, save, timer, cache, locks, clock, left>>

\* Range: one entry is copied to the map ...
RangeEntry(p, k) ==
  /\ At(p, "range") /\ k \in loc[p].todo
  /\ loc' = [loc EXCEPT ![p].map[k] = save[k], ![p].todo = @ \ {k}, ![p].cur = {k}]
  /\ Goto(p, "rangedel")
  /\ UNCHANGED <<nodes, row, save, timer, cache, locks, clock, left>>

\* ... and then deleted from reportSaveMap, whatever it holds by now.
RangeDelete(p) ==
  /\ At(p, "rangedel")
  /\ save' = [k \in Names |-> IF k \in loc[p].cur THEN -1 ELSE save[k]]
  /\ loc' = [Forget(loc, loc[p].cur) EXCEPT ![p].cur = {}]
  /\ Goto(p, "range")
  /\ UNCHANGED <<nodes, row, timer, cache, locks, clock, left>>

\* saveCache writes the map (a failure is only logged), and the lock is deleted.
SaveTimes(p) ==
  /\ At(p, "range") /\ loc[p].todo = {}
  /\ SetTimes(Ns(p), loc[p].map) \/ SetFails
  /\ timeLock' = FALSE
  /\ Goto(p, "setdata")
  /\ UNCHANGED <<nodes, row, save, timer, data, setLock, loc, clock, left>>

\* Mutant: the report is cached without the timer being reset on return.
SetData_NoReset(p) ==
  /\ At(p, "setdata") /\ Finish(p)
  /\ \/ data' = [data EXCEPT ![loc[p].n] = loc[p].t]
     \/ CacheErrors /\ UNCHANGED data
  /\ UNCHANGED <<nodes, row, save, timer, timeKeys, times, locks, clock, left>>

\* The report goes to the cache; on return the deferred Reset arms the timer.
SetData(p) ==
  /\ At(p, "setdata") /\ Finish(p)
  /\ \/ data' = [data EXCEPT ![loc[p].n] = loc[p].t]
     \/ CacheErrors /\ UNCHANGED data
  /\ timer' = IF loc[p].tick THEN "armed" ELSE timer
  /\ UNCHANGED <<nodes, row, save, timeKeys, times, locks, clock, left>>

\* One second later the timer sends on its channel.
Tick ==
  /\ timer = "armed" /\ timer' = "tick"
  /\ UNCHANGED <<nodes, row, save, cache, locks, pc, loc, clock, left>>

-----------------------------------------------------------------------------
Request(p, op) == At(p, "idle") /\ op \in Requests /\ left > 0 /\ left' = left - 1

\* POST node: the node row; its shadow follows at "newrow", without a report.
Create(p, n) ==
  /\ Request(p, "Create") /\ n \notin nodes
  /\ nodes' = nodes \cup {n}
  /\ loc' = [loc EXCEPT ![p].n = n, ![p].t = 0] /\ Goto(p, "newrow")
  /\ UNCHANGED <<row, save, timer, cache, locks, clock>>

\* DELETE node: the node row, then the shadow.
Delete(p, n) ==
  /\ Request(p, "Delete") /\ n \in nodes
  /\ nodes' = nodes \ {n}
  /\ loc' = [loc EXCEPT ![p].n = n] /\ Goto(p, "delrow")
  /\ UNCHANGED <<row, save, timer, cache, locks, clock>>

DeleteShadow(p) ==
  /\ At(p, "delrow") /\ Goto(p, "delload")
  /\ row' = [row EXCEPT ![loc[p].n] = -1]
  /\ UNCHANGED <<nodes, save, timer, cache, locks, loc, clock, left>>

\* ShadowDeleteCache reads the map of times and returns if there is none
\* (freecache answers a missing key with an error).
DeleteLoad(p) ==
  /\ At(p, "delload")
  /\ IF Ns(p) \in timeKeys
     THEN loc' = [loc EXCEPT ![p].map = [times[Ns(p)] EXCEPT ![Name(p)] = -1]] /\ Goto(p, "delsave")
     ELSE Finish(p)
  /\ UNCHANGED <<nodes, row, save, timer, cache, locks, clock, left>>

\* The entry leaves reportSaveMap ...
DeleteSave(p) ==
  /\ At(p, "delsave") /\ Goto(p, "delset")
  /\ save' = [save EXCEPT ![Name(p)] = -1] /\ loc' = Forget(loc, {Name(p)})
  /\ UNCHANGED <<nodes, row, timer, cache, locks, clock, left>>

\* ... and the map is written back without the node; a failure returns.
DeleteTimes(p) ==
  /\ At(p, "delset")
  /\ \/ SetTimes(Ns(p), loc[p].map) /\ Goto(p, "deldata") /\ UNCHANGED loc
     \/ SetFails /\ Finish(p)
  /\ UNCHANGED <<nodes, row, save, timer, data, locks, clock, left>>

DeleteData(p) ==
  /\ At(p, "deldata") /\ Finish(p)
  /\ data' = [data EXCEPT ![loc[p].n] = -1]
  /\ UNCHANGED <<nodes, row, save, timer, timeKeys, times, locks, clock, left>>

-----------------------------------------------------------------------------
\* GET nodes: the node rows of a namespace.
List(p, s) ==
  /\ Request(p, "List") /\ \E k \in Names : <<s, k>> \in nodes
  /\ loc' = [loc EXCEPT ![p].n = <<s, CHOOSE k \in Names : TRUE>>,
                        ![p].todo = {k \in Names : <<s, k>> \in nodes}]
  /\ Goto(p, "listtimes")
  /\ UNCHANGED <<nodes, row, save, timer, cache, locks, clock>>

\* GetAllShadowReportTime: the cached map serves if it has entries enough.
ListTimes(p) ==
  /\ At(p, "listtimes")
  /\ Goto(p, IF Ns(p) \in timeKeys /\ Cardinality(Keys(times[Ns(p)])) >= Cardinality(loc[p].todo)
             THEN "listdata" ELSE "listall")
  /\ UNCHANGED <<nodes, row, save, timer, cache, locks, loc, clock, left>>

\* SetNodeShadowCache reads all shadows; nodes without one get the zero time.
ListAll(p) ==
  LET rows == [k \in Names |-> row[<<Ns(p), k>>]]
      few == Cardinality(Keys(rows)) < Cardinality(loc[p].todo)
  IN /\ At(p, "listall") /\ Goto(p, "settimes")
     /\ loc' = [loc EXCEPT ![p].map = [k \in Names |->
                  IF rows[k] = -1 /\ few /\ k \in loc[p].todo THEN 0 ELSE rows[k]]]
     /\ UNCHANGED <<nodes, row, save, timer, cache, locks, clock, left>>

SetNodeShadowCache(p) ==
  /\ At(p, "settimes")
  /\ \/ SetTimes(Ns(p), loc[p].map) /\ Goto(p, "listdata") /\ UNCHANGED loc
     \/ SetFails /\ Finish(p)
  /\ UNCHANGED <<nodes, row, save, timer, data, locks, clock, left>>

\* GetShadowReportCacheByNames: which reports are not cached.
ListData(p) ==
  LET missing == {k \in loc[p].todo : data[<<Ns(p), k>>] = -1}
  IN /\ At(p, "listdata")
     /\ IF missing = {}
        THEN Finish(p)
        ELSE /\ Goto(p, "listread")
             /\ loc' = [loc EXCEPT ![p].todo = IF Cardinality(missing) > ResetLimit THEN @ ELSE missing]
     /\ UNCHANGED <<nodes, row, save, timer, cache, locks, clock, left>>

\* setShadowReportCacheByNames reads their shadows; no shadow counts as {}.
ListShadows(p) ==
  /\ At(p, "listread") /\ Goto(p, "listexist")
  /\ loc' = [loc EXCEPT ![p].map = [k \in Names |->
               IF row[<<Ns(p), k>>] = -1 THEN 0 ELSE row[<<Ns(p), k>>]]]
  /\ UNCHANGED <<nodes, row, save, timer, cache, locks, clock, left>>

\* Is somebody setting reports already?  Then nothing is cached.
ListExist(p) ==
  /\ At(p, "listexist")
  /\ IF setLock THEN Finish(p) ELSE Goto(p, "setflag") /\ UNCHANGED loc
  /\ UNCHANGED <<nodes, row, save, timer, cache, locks, clock, left>>

\* The lock is set and setShadowReportCache started.  The list answers and p
\* goes on as the new goroutine.
SetFlag(p) ==
  /\ At(p, "setflag") /\ Goto(p, "putdata")
  /\ setLock' = TRUE
  /\ UNCHANGED <<nodes, row, save, timer, cache, timeLock, loc, clock, left>>

PutData(p, k) ==
  /\ At(p, "putdata") /\ k \in loc[p].todo
  /\ loc' = [loc EXCEPT ![p].todo = @ \ {k}]
  /\ \/ data' = [data EXCEPT ![<<Ns(p), k>>] = loc[p].map[k]]
     \/ CacheErrors /\ UNCHANGED data
  /\ UNCHANGED <<nodes, row, save, timer, timeKeys, times, locks, pc, clock, left>>

\* Mutant: the goroutine ends without deleting the lock.
PutDone_KeepsLock(p) ==
  /\ At(p, "putdata") /\ loc[p].todo = {} /\ Finish(p)
  /\ UNCHANGED <<nodes, row, save, timer, cache, locks, clock, left>>

PutDone(p) ==
  /\ At(p, "putdata") /\ loc[p].todo = {} /\ Finish(p)
  /\ setLock' = FALSE
  /\ UNCHANGED <<nodes, row, save, timer, cache, timeLock, clock, left>>

-----------------------------------------------------------------------------
Range(p) == \E k \in Names : RangeEntry(p, k)
Put(p) == \E k \in Names : PutData(p, k)

Step(p) ==
  \/ UpdateShadowReport(p) \/ CreateShadow(p)
  \/ Store(p) \/ LockTimes(p) \/ LoadTimes(p) \/ Range(p) \/ RangeDelete(p) \/ SaveTimes(p) \/ SetData(p)
  \/ DeleteShadow(p) \/ DeleteLoad(p) \/ DeleteSave(p) \/ DeleteTimes(p) \/ DeleteData(p)
  \/ ListTimes(p) \/ ListAll(p) \/ SetNodeShadowCache(p) \/ ListData(p) \/ ListShadows(p)
  \/ ListExist(p) \/ SetFlag(p) \/ Put(p) \/ PutDone(p)

\* All requests are served, and no node is left to report.
Done ==
  /\ left = 0 \/ "Create" \notin Requests
  /\ nodes = {} /\ timer = "tick" /\ \A p \in Procs : At(p, "idle")
  /\ UNCHANGED vars

Next ==
  \/ Tick \/ Done
  \/ \E p \in Reporters : Report(p)
  \/ \E p \in Admins, n \in Nodes : Create(p, n) \/ Delete(p, n)
  \/ \E p \in Admins, s \in Namespaces : List(p, s)
  \/ \E p \in Procs : Step(p)

Spec == Init /\ [][Next]_vars

\* Goroutines run, the timer runs, and every node goes on reporting.  A node
\* reports every few seconds and a flush takes microseconds, so that an entry is
\* not replaced in the middle of every flush.
Fairness ==
  /\ WF_vars(Tick)
  /\ \A p \in Admins : WF_vars(Step(p))
  /\ \A p \in Reporters : WF_vars(Report(p) \/ Step(p))
  /\ \A k \in Names : []<>(\E p \in Procs : At(p, "read") /\ k \in loc[p].todo)
                       => []<>(\E p \in Procs : k \in loc[p].cur)

FairSpec == Spec /\ Fairness

-----------------------------------------------------------------------------
\* The tick of the timer, not CacheUpdateReportTimeLock, keeps flushes of
\* reportSaveMap apart: from taking the tick to the deferred Reset one goroutine
\* has it, no other flushes, and the lock is set exactly during the flush, so
\* the test of the lock in ShadowCreateOrUpdateCacheSet never finds it.
OneFlusher ==
  /\ \A p, q \in Procs : loc[p].tick /\ loc[q].tick => p = q
  /\ \A p \in Procs : p \in Flushing \/ At(p, "load") => loc[p].tick
  /\ timer = "taken" <=> \E p \in Procs : loc[p].tick
  /\ timeLock <=> Flushing # {}

\* A report time that has reached the shadow of a node reaches the map of times
\* the node list reads, itself or a later one, unless the node is deleted,
\* although flushes drop entries stored while they run and maps are written
\* back without a lock; and the report itself is cached by then.
ReportReachesList ==
  \A n \in Nodes, t \in 1 .. MaxTime :
    n \in nodes /\ row[n] = t ~>
      n \notin nodes \/ row[n] < t \/ (times[n[1]][n[2]] >= t /\ data[n] >= t)

\* CacheReportSetLock never outlives the goroutines that set it, although lists
\* may set it twice and delete it for each other: the next list is not kept
\* from filling the cache for good.
SetLockOwned == setLock => \E p \in Procs : At(p, "putdata")

\* GetShadowReportTimeCacheKey is the key of the report times of one namespace:
\* the map holds times of nodes of that namespace.
TimesOfNamespace ==
  \A s \in Namespaces, k \in Names :
    times[s][k] > 0 => <<s, k>> \in nodes
=============================================================================
