------------------------------- MODULE Tasks --------------------------------
(***************************************************************************)
(* The table of tasks and the workers that share it.  A worker takes a     *)
(* task that nobody has written for a while, locks it by raising its       *)
(* version, and reports its progress against the version it holds.  The    *)
(* worker's loop is outside this repository: what it does between the      *)
(* calls, and that it counts its own writes, follows from their arguments. *)
(***************************************************************************)
EXTENDS Naturals, Calls

CONSTANTS
  Names,     \* tasks; a name is used once
  Workers,
  MaxVersion \* bound: of a task

VARIABLE db

New == 0
Processing == 1
NeedRetry == 2
Finished == 3
Failed == 4

Idle == [pc |-> "idle", task |-> "", ver |-> 0]

Init == db = [task |-> [x \in {} |-> 0], used |-> {}, worker |-> [w \in Workers |-> Idle]]

CreateTask(x) ==
  /\ x \notin db.used
  /\ db' = [db EXCEPT !.used = @ \cup {x},
                      !.task = Put(@, x, [ver |-> 0, status |-> New, old |-> FALSE])]

\* Time passes: update_time is now older than the given seconds.
Age(x) == x \in DOMAIN db.task /\ db' = [db EXCEPT !.task[x].old = TRUE]

GetNeedProcessTask(w, x) ==
  /\ db.worker[w].pc = "idle"
  /\ x \in DOMAIN db.task /\ db.task[x].old /\ db.task[x].status < Finished
  /\ db' = [db EXCEPT !.worker[w] = [pc |-> "found", task |-> x, ver |-> db.task[x].ver]]

\* The row is still there with the version the worker knows.
Current(w) ==
  LET me == db.worker[w]
  IN me.task \in DOMAIN db.task /\ db.task[me.task].ver = me.ver

\* UPDATE ... version=version + 1, which also renews update_time.
AcquireTaskLock(w) ==
  LET me == db.worker[w] IN
  /\ me.pc = "found"
  /\ me.ver < MaxVersion
  /\ db' = IF Current(w)
           THEN [db EXCEPT !.task[me.task].ver = @ + 1, !.task[me.task].old = FALSE,
                           !.worker[w] = [me EXCEPT !.pc = "work", !.ver = @ + 1]]
           ELSE [db EXCEPT !.worker[w] = Idle]

\* Mutant: WHERE name=? alone.
UpdateTask_AnyVersion(w, status) ==
  LET me == db.worker[w] IN
  /\ me.pc = "work"
  /\ me.ver < MaxVersion
  /\ db' = IF me.task \in DOMAIN db.task
           THEN [db EXCEPT !.task[me.task] = [ver |-> @.ver + 1, status |-> status, old |-> FALSE],
                           !.worker[w] = Idle]
           ELSE [db EXCEPT !.worker[w] = Idle]

\* The worker goes on only if its write counted and the task is not done.
UpdateTask(w, status) ==
  LET me == db.worker[w] IN
  /\ me.pc = "work"
  /\ me.ver < MaxVersion
  /\ db' = IF Current(w)
           THEN [db EXCEPT !.task[me.task] = [ver |-> me.ver + 1, status |-> status, old |-> FALSE],
                           !.worker[w] = IF status = Processing THEN [me EXCEPT !.ver = @ + 1] ELSE Idle]
           ELSE [db EXCEPT !.worker[w] = Idle]

DeleteTask(x) == x \in DOMAIN db.task /\ db' = [db EXCEPT !.task = Drop(@, x)]

Crash(w) == db.worker[w].pc # "idle" /\ db' = [db EXCEPT !.worker[w] = Idle]

Next ==
  \/ \E x \in Names : CreateTask(x) \/ Age(x) \/ DeleteTask(x)
  \/ \E w \in Workers :
       \/ \E x \in Names : GetNeedProcessTask(w, x)
       \/ AcquireTaskLock(w)
       \/ \E status \in Processing..Failed : UpdateTask(w, status)
       \/ Crash(w)

Spec == Init /\ [][Next]_db

-----------------------------------------------------------------------------
\* A task that a worker reported finished or failed stays so: a worker that lost the
\* task to a timeout, and reports late, changes nothing.
FinishedStep ==
  \A x \in DOMAIN db.task \cap DOMAIN db'.task :
    db.task[x].status >= Finished => db'.task[x].status = db.task[x].status
=============================================================================
