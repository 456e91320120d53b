------------------------------ MODULE Scheduler ------------------------------
(***************************************************************************)
(* The task scheduler of the downloader (pkg/download/downloader.go): the  *)
(* list of tasks, the wait queue, the limit of running tasks, and the      *)
(* goroutines that change the status of a task: callers of the API,        *)
(* notifyRunning, start and pause handlers, watchers and the ticker.       *)
(* d.lock and each task.statusLock are modelled as locks; what is read or  *)
(* written without them happens in steps of its own.  A fetcher is only    *)
(* idle, active, done or failed: HttpDownload has what it does meanwhile.  *)
(***************************************************************************)
EXTENDS Integers, Sequences, FiniteSets, SequencesExt

CONSTANTS
  Tasks,                    \* the *Task objects of a behaviour
  Restored,                 \* those of them Setup loads from the storage
  Uploads,                  \* those whose fetcher also uploads (BitTorrent)
  Clients,                  \* goroutines that call the API, one call at a time
  Notifier, Ticker, Nobody, \* the notifyRunning goroutine inside d.lock; ticker; free
  Limits,                   \* values of MaxRunning, the first one chosen at Setup
  Ops,                      \* the calls the clients make
  Ticking,                  \* whether the ticker is looked at
  Batch, MaxCalls, \* bounds: tasks in a filter, calls,
  MaxFails, MaxErrors \* failed downloads and handlers, failed calls

ASSUME SchedulerConstants ==
  /\ Notifier \notin Clients /\ Ticker \notin Clients \union {Notifier}
  /\ Nobody \notin Clients \union {Notifier, Ticker}
  /\ IsFiniteSet(Tasks) /\ IsFiniteSet(Clients) /\ Restored \subseteq Tasks
  /\ Ticking \in BOOLEAN /\ Limits \subseteq Nat \ {0} /\ MaxCalls \in Nat /\ MaxFails \in Nat
  /\ MaxErrors \in Nat

Threads == Clients \union {Notifier}

VARIABLES
  tasks, waitTasks, maxRunning, \* d.tasks, d.waitTasks, d.cfg.MaxRunning
  status,                       \* task.Status; "none" before it is created
  lock, statusLock,             \* who holds d.lock, each task.statusLock
  call,                         \* what each client, and the notifier, is doing
  walk,                         \* the list a pauseAll of each client ranges over
  notifies,                     \* notifyRunning goroutines that want d.lock
  starts, pauses,               \* handlers of doStart and doPause not run yet
  failing,                      \* start handlers inside doOnError
  fetcher, doneCh,              \* the fetcher and the result it has to deliver
  spawned, watched,             \* watchers not begun; the one in d.watchedTasks
  missed,                       \* history: a Delete moved tasks under a pauseAll
  calls, fails, errors          \* counters of the bounds

lists    == <<tasks, waitTasks>>
locks    == <<lock, statusLock>>
handlers == <<starts, pauses, failing>>
fetching == <<fetcher, doneCh>>
watching == <<spawned, watched>>
walking  == <<walk, missed>>
bounds   == <<calls, fails, errors>>
vars == <<lists, maxRunning, status, locks, call, walking, notifies, handlers, fetching, watching,
          bounds>>

Running == {t \in ToSet(tasks) : status[t] = "running"}
remainRunningCount == maxRunning - Cardinality(Running)

\* Mutant of noSlotLeft: off by one.
overLimit == remainRunningCount < 0

noSlotLeft == remainRunningCount = 0

Least(a, b) == IF a < b THEN a ELSE b
\* Where a range over d.tasks is: the array it looks at, as long as d.tasks has
\* it too; the next place.
noWalk == [view |-> <<>>, next |-> 1, shared |-> FALSE]
idle == [pc |-> "idle", todo |-> <<>>, rest |-> <<>>, scan |-> <<>>, need |-> 0]
doing(pc, todo) == [idle EXCEPT !.pc = pc, !.todo = todo]

\* The entries of the sequence s at the positions I, in their order.
entries(s, I) ==
  [k \in 1..Cardinality(I) |-> s[CHOOSE i \in I : Cardinality({j \in I : j <= i}) = k]]

\* GetTasksByFilter: the tasks of ids that do not have one of the statuses.
filtered(ids, not) == entries(tasks, {i \in DOMAIN tasks : tasks[i] \in ids /\ status[tasks[i]] \notin not})
Batches == {ids \in SUBSET Tasks : ids # {} /\ Cardinality(ids) <= Batch}

----------------------------------------------------------------------------
(* statusMut: doStart and doPause test the status, then set it, under       *)
(* task.statusLock.  target is the task a thread is at.                     *)

target(th) == Head(IF call[th].pc = "preempting" THEN call[th].scan ELSE call[th].todo)

IsPausing(th) ==
  \/ call[th].pc \in {"pause", "pauseAll"} /\ call[th].todo # <<>>
  \/ call[th].pc = "preempting"
IsStarting(th) == call[th].pc \in {"start", "create", "run"} /\ call[th].todo # <<>>

\* The thread goes on after doStart or doPause of its target.
Proceed(th) ==
  /\ call' = [call EXCEPT ![th] =
       CASE @.pc = "preempting" -> [@ EXCEPT !.pc = "setWait"]
         [] @.pc = "create"     -> [@ EXCEPT !.pc = "watch"]
         [] @.pc = "run"        -> idle
         [] OTHER               -> [@ EXCEPT !.todo = Tail(call[th].todo)]]
  /\ lock' = IF call[th].pc \in {"create", "run"} THEN Nobody ELSE lock

PauseChecks(th) ==
  LET t == target(th) IN
  /\ IsPausing(th) /\ statusLock[t] = Nobody
  /\ IF status[t] \in {"pause", "done"}
     THEN Proceed(th) /\ UNCHANGED statusLock
     ELSE statusLock' = [statusLock EXCEPT ![t] = th] /\ UNCHANGED <<call, lock>>
  /\ UNCHANGED <<lists, maxRunning, status, notifies, handlers, fetching, watching, walking,
                 bounds>>

PauseSets(th) ==
  LET t == target(th) IN
  /\ IsPausing(th) /\ statusLock[t] = th
  /\ status' = [status EXCEPT ![t] = "pause"]
  /\ statusLock' = [statusLock EXCEPT ![t] = Nobody]
  /\ pauses' = [pauses EXCEPT ![t] = @ + 1]
  /\ Proceed(th)
  /\ UNCHANGED <<lists, maxRunning, notifies, starts, failing, fetching, watching, walking, bounds>>

\* restoreTask gives a loaded task a fetcher, and spawns a watcher whenever the
\* task is not running or done.
StartChecks(th) ==
  LET t == target(th) IN
  /\ IsStarting(th) /\ statusLock[t] = Nobody
  /\ IF status[t] \in {"running", "done"}
     THEN Proceed(th) /\ UNCHANGED <<statusLock, fetcher, spawned>>
     ELSE /\ statusLock' = [statusLock EXCEPT ![t] = th]
          /\ fetcher' = [fetcher EXCEPT ![t] = IF @ = "none" THEN "idle" ELSE @]
          /\ spawned' = [spawned EXCEPT ![t] = @ + 1]
          /\ UNCHANGED <<call, lock>>
  /\ UNCHANGED <<lists, maxRunning, status, notifies, handlers, doneCh, watched, walking, bounds>>

\* What is saved of the task cannot be read: a Continue returns the error, the
\* notifier is done; the task keeps its status.
StartFails(th) ==
  LET t == target(th) IN
  /\ IsStarting(th) /\ statusLock[t] = Nobody
  /\ status[t] \notin {"running", "done"} /\ fetcher[t] = "none" /\ errors < MaxErrors
  /\ errors' = errors + 1
  /\ IF call[th].pc = "start"
     THEN call' = [call EXCEPT ![th].todo = <<>>] /\ UNCHANGED lock
     ELSE Proceed(th)
  /\ UNCHANGED <<lists, maxRunning, status, statusLock, notifies, handlers, fetching, watching,
                 walking, calls, fails>>

StartSets(th) ==
  LET t == target(th) IN
  /\ IsStarting(th) /\ statusLock[t] = th
  /\ status' = [status EXCEPT ![t] = "running"]
  /\ statusLock' = [statusLock EXCEPT ![t] = Nobody]
  /\ starts' = [starts EXCEPT ![t] = @ + 1]
  /\ Proceed(th)
  /\ UNCHANGED <<lists, maxRunning, notifies, pauses, failing, fetching, watching, walking, bounds>>

----------------------------------------------------------------------------
(* The calls of the API *)

\* A client begins the call op and d.lock is free for its first section.
Calls(c, op) ==
  /\ op \in Ops /\ call[c].pc = "idle" /\ calls < MaxCalls /\ lock = Nobody
  /\ calls' = calls + 1
  /\ UNCHANGED <<maxRunning, statusLock, notifies, handlers, fetching, watching, fails, errors>>

\* Mutant of newStatus: NewTask leaves the status empty.
blankStatus == ""

newStatus == "ready"

\* append writes t into the array pauseAll ranges over, or moves the list to a new
\* one (which it does not while there is room behind the list).
appended(w, t, moved) ==
  IF ~w.shared THEN w
  ELSE IF moved THEN [w EXCEPT !.shared = FALSE]
  ELSE IF Len(tasks) < Len(w.view) THEN [w EXCEPT !.view[Len(tasks) + 1] = t]
  ELSE w

\* doCreate up to the end of its section of d.lock, or to doStart inside it.
doCreate(c, t) ==
  /\ Calls(c, "create") /\ status[t] = "none"
  /\ tasks' = Append(tasks, t)
  /\ \E moved \in BOOLEAN :
       /\ moved => \A d \in Clients : walk[d].shared => Len(walk[d].view) <= Len(tasks)
       /\ walk' = [d \in Clients |-> appended(walk[d], t, moved)]
  /\ UNCHANGED missed
  /\ IF noSlotLeft
     THEN /\ status' = [status EXCEPT ![t] = "wait"]
          /\ waitTasks' = Append(waitTasks, t)
          /\ call' = [call EXCEPT ![c] = doing("watch", <<t>>)]
          /\ UNCHANGED lock
     ELSE /\ status' = [status EXCEPT ![t] = newStatus]
          /\ lock' = c
          /\ call' = [call EXCEPT ![c] = doing("create", <<t>>)]
          /\ UNCHANGED waitTasks

\* go d.watch(task) at the end of doCreate
CreateWatches(c) ==
  /\ call[c].pc = "watch"
  /\ spawned' = [spawned EXCEPT ![target(c)] = @ + 1]
  /\ call' = [call EXCEPT ![c] = idle]
  /\ UNCHANGED <<lists, maxRunning, status, locks, notifies, handlers, fetching, watched, walking,
                 bounds>>

Pause(c, ids) ==
  LET found == filtered(ids, {"pause", "error", "done"}) IN
  /\ Calls(c, "pause") /\ found # <<>>
  /\ call' = [call EXCEPT ![c] = doing("pause", found)]
  /\ UNCHANGED <<lists, status, lock, walking>>

\* pauseAll empties the queue under d.lock, and ranges over d.tasks without it.
pauseAll(c) ==
  /\ Calls(c, "pauseAll")
  /\ waitTasks' = <<>>
  /\ call' = [call EXCEPT ![c] = doing("cleared", <<>>)]
  /\ UNCHANGED <<tasks, status, lock, walking>>

pauseAllBegins(c) ==
  /\ call[c].pc = "cleared"
  /\ call' = [call EXCEPT ![c].pc = "pauseAll"]
  /\ walk' = [walk EXCEPT ![c] = [view |-> tasks, next |-> 1, shared |-> TRUE]]
  /\ UNCHANGED <<lists, maxRunning, status, locks, missed, notifies, handlers, fetching, watching,
                 bounds>>

Walks(c) == call[c].pc = "pauseAll" /\ call[c].todo = <<>> /\ walk[c].next <= Len(walk[c].view)

pauseAllReads(c) ==
  /\ Walks(c)
  /\ call' = [call EXCEPT ![c].todo = <<walk[c].view[walk[c].next]>>]
  /\ walk' = [walk EXCEPT ![c].next = @ + 1]
  /\ UNCHANGED <<lists, maxRunning, status, locks, missed, notifies, handlers, fetching, watching,
                 bounds>>

Continue(c, ids) ==
  LET found == filtered(ids, {"running", "done"}) IN
  /\ Calls(c, "continue") /\ found # <<>>
  /\ call' = [call EXCEPT ![c] = doing("picked", found)]
  /\ UNCHANGED <<lists, status, lock, walking>>

\* Continue takes d.lock: how many tasks it starts, how many it preempts.
ContinueCounts(c) ==
  LET found == call[c].todo
      needRunningCount == Least(maxRunning, Len(found))
  IN
  /\ call[c].pc = "picked" /\ lock = Nobody
  /\ lock' = c
  /\ call' = [call EXCEPT ![c] =
       [pc |-> "preempt", todo |-> SubSeq(found, 1, needRunningCount),
        rest |-> SubSeq(found, needRunningCount + 1, Len(found)),
        scan |-> tasks, need |-> needRunningCount - remainRunningCount]]
  /\ UNCHANGED <<lists, maxRunning, status, statusLock, notifies, handlers, fetching, watching,
                 walking, bounds>>

Preempts(c) == call[c].pc = "preempt" /\ call[c].need > 0 /\ call[c].scan # <<>>

PreemptLooks(c) ==
  /\ Preempts(c)
  /\ call' = [call EXCEPT ![c] =
       IF status[Head(@.scan)] = "running"
       THEN [@ EXCEPT !.pc = "preempting"] ELSE [@ EXCEPT !.scan = Tail(call[c].scan)]]
  /\ UNCHANGED <<lists, maxRunning, status, locks, notifies, handlers, fetching, watching, walking,
                 bounds>>

\* After doPause: task.Status = Wait, whatever it has become meanwhile.
PreemptSetsWait(c) ==
  LET t == Head(call[c].scan) IN
  /\ call[c].pc = "setWait"
  /\ status' = [status EXCEPT ![t] = "wait"]
  /\ waitTasks' = Append(waitTasks, t)
  /\ call' = [call EXCEPT ![c] = [@ EXCEPT !.pc = "preempt", !.scan = Tail(call[c].scan), !.need = call[c].need - 1]]
  /\ UNCHANGED <<tasks, maxRunning, locks, notifies, handlers, fetching, watching, walking, bounds>>

\* Mutant of queued: the rest waits but is not in the queue.
unqueued(rest) == waitTasks

queued(rest) == waitTasks \o rest

ContinueSplits(c) ==
  LET rest == call[c].rest IN
  /\ call[c].pc = "preempt" /\ ~Preempts(c)
  /\ status' = [t \in Tasks |-> IF t \in ToSet(rest) THEN "wait" ELSE status[t]]
  /\ waitTasks' = queued(rest)
  /\ lock' = Nobody
  /\ call' = [call EXCEPT ![c] = doing("start", @.todo)]
  /\ UNCHANGED <<tasks, maxRunning, statusLock, notifies, handlers, fetching, watching, walking,
                 bounds>>

continueAll(c) ==
  LET found == filtered(Tasks, {"running", "done"})
      n == IF remainRunningCount < 0 THEN 0 ELSE Least(remainRunningCount, Len(found))
      rest == SubSeq(found, n + 1, Len(found))
  IN
  /\ Calls(c, "continueAll")
  /\ status' = [t \in Tasks |-> IF t \in ToSet(rest) THEN "wait" ELSE status[t]]
  /\ waitTasks' = queued(rest)
  /\ call' = [call EXCEPT ![c] = doing("start", SubSeq(found, 1, n))]
  /\ UNCHANGED <<tasks, lock, walking>>

ContinueBatch(c, ids) ==
  /\ Calls(c, "continueBatch")
  /\ call' = [call EXCEPT ![c] = doing("start", filtered(ids, {}))]
  /\ UNCHANGED <<lists, status, lock, walking>>

\* Mutant of queueWithout: the tasks stay in the wait queue.
queueKept(found) == waitTasks

\* The first entry of each task of found leaves the list s; found names a task once.
without(s, found) ==
  entries(s, {i \in DOMAIN s : s[i] \in ToSet(found) => \E j \in 1..(i - 1) : s[j] = s[i]})

\* Mutant of queueWithout: the first entry goes, whichever the task is.
firstRemoved(found) == SubSeq(waitTasks, 2, Len(waitTasks))

queueWithout(found) == without(waitTasks, found)

Delete(c, ids) ==
  LET found == filtered(ids, {}) IN
  /\ Calls(c, "delete") /\ found # <<>>
  /\ call' = [call EXCEPT ![c] = [doing("deletePicked", found) EXCEPT !.scan = found]]
  /\ UNCHANGED <<lists, status, lock, walking>>

\* The tasks behind t move up one place in the array pauseAll ranges over.
shifted(w, t) ==
  [w EXCEPT !.view = [p \in DOMAIN w.view |->
     IF p < Len(tasks) /\ \E i \in 1..p : tasks[i] = t THEN tasks[p + 1] ELSE w.view[p]]]

\* Delete takes d.lock again, and keeps it until all its tasks are out of the
\* lists: another Delete may have been faster.
DeleteRemoves(c) ==
  LET t == Head(call[c].scan)
      last == Len(call[c].scan) = 1
      shifts(d) == walk[d].shared /\ t \in ToSet(tasks)
  IN
  /\ \/ call[c].pc = "deletePicked" /\ lock = Nobody
     \/ call[c].pc = "deleting"
  /\ tasks' = without(tasks, <<t>>)
  /\ waitTasks' = queueWithout(<<t>>)
  /\ walk' = [d \in Clients |-> IF shifts(d) THEN shifted(walk[d], t) ELSE walk[d]]
  /\ missed' = (missed \/ \E d \in Clients : shifts(d))
  /\ lock' = IF last THEN Nobody ELSE c
  /\ call' = [call EXCEPT ![c] =
       [@ EXCEPT !.pc = IF last THEN "delete" ELSE "deleting", !.scan = Tail(call[c].scan)]]
  /\ UNCHANGED <<maxRunning, status, statusLock, notifies, handlers, fetching, watching, bounds>>

\* The list and the queue are new ones.
deleteAll(c) ==
  /\ Calls(c, "deleteAll")
  /\ tasks' = <<>> /\ waitTasks' = <<>>
  /\ walk' = [d \in Clients |-> [walk[d] EXCEPT !.shared = FALSE]]
  /\ call' = [call EXCEPT ![c] = doing("deleteAll", tasks)]
  /\ UNCHANGED <<status, lock, missed>>

closed(f) == IF f = "none" THEN "none" ELSE "idle"

\* fetcher.Close stops the fetcher as Pause does; no lock is held.
doDelete(c) ==
  /\ call[c].pc \in {"delete", "deleteAll"} /\ call[c].todo # <<>>
  /\ fetcher' = [fetcher EXCEPT ![target(c)] = closed(@)]
  /\ call' = [call EXCEPT ![c].todo = Tail(@)]
  /\ UNCHANGED <<lists, maxRunning, status, locks, notifies, handlers, doneCh, watching, walking,
                 bounds>>

\* The storage, the fetcher or the file system refuses: the call returns at once.
DeleteFails(c) ==
  /\ call[c].pc \in {"delete", "deleteAll"} /\ call[c].todo # <<>> /\ errors < MaxErrors
  /\ errors' = errors + 1
  /\ \/ fetcher' = [fetcher EXCEPT ![target(c)] = closed(@)]
     \/ UNCHANGED fetcher
  /\ call' = [call EXCEPT ![c] = idle]
  /\ UNCHANGED <<lists, maxRunning, status, locks, notifies, handlers, doneCh, watching, walking,
                 calls, fails>>

PutConfig(c, n) ==
  /\ "config" \in Ops /\ call[c].pc = "idle" /\ calls < MaxCalls
  /\ calls' = calls + 1
  /\ maxRunning' = n
  /\ UNCHANGED <<lists, status, locks, call, notifies, handlers, fetching, watching, walking, fails,
                 errors>>

\* Mutant of offersSlot: a slot that Pause or Delete freed is not offered.
offersNothing(c) == FALSE

offersSlot(c) == call[c].pc \in {"pause", "delete"}

\* The call returns; Pause and Delete with a filter call notifyRunning once.
Return(c) ==
  /\ call[c].pc \in {"pause", "pauseAll", "start", "delete", "deleteAll"} /\ call[c].todo = <<>>
  /\ ~Walks(c)
  /\ call' = [call EXCEPT ![c] = idle]
  /\ notifies' = IF offersSlot(c) THEN notifies + 1 ELSE notifies
  /\ walk' = [walk EXCEPT ![c] = noWalk]
  /\ UNCHANGED <<lists, maxRunning, status, locks, missed, handlers, fetching, watching, bounds>>

----------------------------------------------------------------------------
(* The goroutines of the downloader *)

\* notifyRunning up to doStart of the first task that waits.
notifyRunning ==
  /\ notifies > 0 /\ lock = Nobody
  /\ notifies' = notifies - 1
  /\ IF noSlotLeft \/ waitTasks = <<>>
     THEN UNCHANGED <<waitTasks, lock, call>>
     ELSE /\ waitTasks' = Tail(waitTasks)
          /\ lock' = Notifier
          /\ call' = [call EXCEPT ![Notifier] = doing("run", <<Head(waitTasks)>>)]
  /\ UNCHANGED <<tasks, maxRunning, status, statusLock, handlers, fetching, watching, walking,
                 bounds>>

\* The handler of doStart: fetcher.Start of a fetcher that is done fails, and so
\* may resolving; doOnError sets the status without statusLock.
StartHandled(t) ==
  /\ starts[t] > 0
  /\ starts' = [starts EXCEPT ![t] = @ - 1]
  /\ \/ /\ fetcher[t] # "done"
        /\ fetcher' = [fetcher EXCEPT ![t] = "active"]
        /\ doneCh' = [doneCh EXCEPT ![t] = IF fetcher[t] = "failed" THEN "empty" ELSE @]
        /\ UNCHANGED <<status, failing, fails>>
     \/ /\ fetcher[t] = "done" \/ fails < MaxFails
        /\ fails' = IF fetcher[t] = "done" THEN fails ELSE fails + 1
        /\ status' = [status EXCEPT ![t] = "error"]
        /\ failing' = [failing EXCEPT ![t] = @ + 1]
        /\ UNCHANGED fetching
  /\ UNCHANGED <<lists, maxRunning, locks, call, notifies, pauses, watching, walking, calls,
                 errors>>

\* Mutant of notifiesAfterError: the slot of a failed task is not offered.
slotKept(t) == notifies

notifiesAfterError(t) == IF status[t] = "error" THEN notifies + 1 ELSE notifies

\* doOnError after triggerOnError: an extension may have continued the task.
StartReports(t) ==
  /\ failing[t] > 0
  /\ failing' = [failing EXCEPT ![t] = @ - 1]
  /\ notifies' = notifiesAfterError(t)
  /\ UNCHANGED <<lists, maxRunning, status, locks, call, starts, pauses, fetching, watching,
                 walking, bounds>>

\* The handler of doPause.  Both take task.lock, in either order.
PauseHandled(t) ==
  /\ pauses[t] > 0
  /\ pauses' = [pauses EXCEPT ![t] = @ - 1]
  /\ fetcher' = [fetcher EXCEPT ![t] = closed(@)]
  /\ UNCHANGED <<lists, maxRunning, status, locks, call, notifies, starts, failing, doneCh,
                 watching, walking, bounds>>

FetcherEnds(t) ==
  /\ fetcher[t] = "active" /\ doneCh[t] = "empty"
  /\ \/ /\ fetcher' = [fetcher EXCEPT ![t] = "done"]
        /\ doneCh' = [doneCh EXCEPT ![t] = "ok"]
        /\ UNCHANGED fails
     \/ /\ fails < MaxFails
        /\ fails' = fails + 1
        /\ fetcher' = [fetcher EXCEPT ![t] = "failed"]
        /\ doneCh' = [doneCh EXCEPT ![t] = "err"]
  /\ UNCHANGED <<lists, maxRunning, status, locks, call, notifies, handlers, watching, walking,
                 calls, errors>>

\* Mutant of waitsFor: a task that is not running yet is not watched.
waitsForRunning(t) == watched[t] = "none" /\ status[t] = "running"

waitsFor(t) == watched[t] = "none" /\ status[t] # "done"

\* watch: one watcher a task, a second one returns at once.
WatchBegins(t) ==
  /\ spawned[t] > 0
  /\ spawned' = [spawned EXCEPT ![t] = @ - 1]
  /\ watched' = [watched EXCEPT ![t] = IF waitsFor(t) THEN "wait" ELSE @]
  /\ UNCHANGED <<lists, maxRunning, status, locks, call, notifies, handlers, fetching, walking,
                 bounds>>

\* fetcher.Wait() returns an error.
WatchFails(t) ==
  /\ watched[t] = "wait" /\ doneCh[t] = "err"
  /\ doneCh' = [doneCh EXCEPT ![t] = "empty"]
  /\ status' = [status EXCEPT ![t] = "error"]
  /\ watched' = [watched EXCEPT ![t] = "erring"]
  /\ UNCHANGED <<lists, maxRunning, locks, call, notifies, handlers, fetcher, spawned, walking,
                 bounds>>

WatchReports(t) ==
  /\ watched[t] = "erring"
  /\ notifies' = notifiesAfterError(t)
  /\ watched' = [watched EXCEPT ![t] = "none"]
  /\ UNCHANGED <<lists, maxRunning, status, locks, call, handlers, fetching, spawned, walking,
                 bounds>>

\* fetcher.Wait() returns nil: GetTask looks for the task under d.lock.
WatchFinds(t) ==
  /\ watched[t] = "wait" /\ doneCh[t] = "ok" /\ lock = Nobody
  /\ doneCh' = [doneCh EXCEPT ![t] = "empty"]
  /\ watched' = [watched EXCEPT ![t] = IF t \in ToSet(tasks) THEN "found" ELSE "none"]
  /\ UNCHANGED <<lists, maxRunning, status, locks, call, notifies, handlers, fetcher, spawned,
                 walking, bounds>>

\* Done is set without statusLock; then the hooks run.
WatchDone(t) ==
  /\ watched[t] = "found"
  /\ status' = [status EXCEPT ![t] = "done"]
  /\ notifies' = notifies + 1
  /\ watched' = [watched EXCEPT ![t] = "hooks"]
  /\ UNCHANGED <<lists, maxRunning, locks, call, handlers, fetching, spawned, walking, bounds>>

WatchEnds(t) ==
  /\ watched[t] = "hooks"
  /\ watched' = [watched EXCEPT ![t] = "none"]
  /\ UNCHANGED <<lists, maxRunning, status, locks, call, notifies, handlers, fetching, spawned,
                 walking, bounds>>

\* The ticker holds statusLock of a task that runs or uploads and asks GetTask for
\* it.  It walks over d.tasks without d.lock, so that the task may be deleted.
\* Uploading is set in doCreate and saved; uploads do not end here.
TickLocks(t) ==
  /\ Ticking /\ status[t] # "none" /\ (status[t] = "running" \/ t \in Uploads)
  /\ statusLock[t] = Nobody /\ \A u \in Tasks : statusLock[u] # Ticker
  /\ statusLock' = [statusLock EXCEPT ![t] = Ticker]
  /\ UNCHANGED <<lists, maxRunning, status, lock, call, notifies, handlers, fetching, watching,
                 walking, bounds>>

TickEnds(t) ==
  /\ statusLock[t] = Ticker /\ lock = Nobody
  /\ statusLock' = [statusLock EXCEPT ![t] = Nobody]
  /\ UNCHANGED <<lists, maxRunning, status, lock, call, notifies, handlers, fetching, watching,
                 walking, bounds>>

----------------------------------------------------------------------------

ApiCall(c) ==
  \/ \E t \in Tasks : doCreate(c, t)
  \/ \E ids \in Batches : Pause(c, ids) \/ Continue(c, ids) \/ ContinueBatch(c, ids) \/ Delete(c, ids)
  \/ pauseAll(c) \/ continueAll(c) \/ deleteAll(c)
  \/ \E n \in Limits : PutConfig(c, n)

MutStep(th) ==
  PauseChecks(th) \/ PauseSets(th) \/ StartChecks(th) \/ StartSets(th) \/ StartFails(th)

ClientStep(c) ==
  \/ MutStep(c) \/ CreateWatches(c) \/ ContinueCounts(c) \/ PreemptLooks(c) \/ PreemptSetsWait(c)
  \/ ContinueSplits(c) \/ pauseAllBegins(c) \/ pauseAllReads(c) \/ DeleteRemoves(c)
  \/ doDelete(c) \/ DeleteFails(c) \/ Return(c)

HandlerStep(t) == StartHandled(t) \/ StartReports(t) \/ PauseHandled(t)
WatchStep(t) ==
  WatchBegins(t) \/ WatchFails(t) \/ WatchReports(t) \/ WatchFinds(t) \/ WatchDone(t) \/ WatchEnds(t)

\* Setup loads tasks that have ended, or are paused now, without a fetcher.
Init ==
  /\ tasks \in SetToSeqs(Restored) /\ waitTasks = <<>> /\ maxRunning \in Limits
  /\ status \in [Tasks -> {"none", "pause", "error", "done"}]
  /\ \A t \in Tasks : status[t] # "none" <=> t \in Restored
  /\ lock = Nobody /\ statusLock = [t \in Tasks |-> Nobody]
  /\ call = [th \in Threads |-> idle] /\ notifies = 0
  /\ starts = [t \in Tasks |-> 0] /\ pauses = [t \in Tasks |-> 0] /\ failing = [t \in Tasks |-> 0]
  /\ fetcher = [t \in Tasks |-> IF t \in Restored THEN "none" ELSE "idle"]
  /\ doneCh = [t \in Tasks |-> "empty"]
  /\ spawned = [t \in Tasks |-> 0] /\ watched = [t \in Tasks |-> "none"]
  /\ walk = [c \in Clients |-> noWalk] /\ missed = FALSE
  /\ calls = 0 /\ fails = 0 /\ errors = 0

\* A step of any goroutine that is under way; the ticker apart.
Progress ==
  \/ \E c \in Clients : ClientStep(c)
  \/ notifyRunning \/ MutStep(Notifier)
  \/ \E t \in Tasks : HandlerStep(t) \/ WatchStep(t) \/ FetcherEnds(t)

Next ==
  \/ \E c \in Clients : ApiCall(c)
  \/ Progress
  \/ \E t \in Tasks : TickLocks(t) \/ TickEnds(t)

Spec == Init /\ [][Next]_vars

\* Goroutines are scheduled, a Go mutex starves nobody (the ticker takes its
\* locks for ever, hence SF), and a download ends.  Calls are not fair.
FairSpec == Spec /\ SF_vars(Progress) /\ SF_vars(\E t \in Tasks : TickEnds(t))

----------------------------------------------------------------------------
(* Properties *)

Statuses == {"none", "ready", "running", "pause", "wait", "error", "done"}

CallRecord ==
  [pc : {"idle", "pause", "pauseAll", "picked", "preempt", "preempting", "setWait",
         "start", "create", "run", "watch", "cleared", "deletePicked", "deleting", "delete",
         "deleteAll"},
   todo : Seq(Tasks), rest : Seq(Tasks), scan : Seq(Tasks), need : Int]
WalkRecord == [view : Seq(Tasks), next : Nat \ {0}, shared : BOOLEAN]

\* Every variable has its type.
TypeOK ==
  /\ tasks \in Seq(Tasks) /\ waitTasks \in Seq(Tasks) /\ maxRunning \in Limits
  /\ status \in [Tasks -> Statuses]
  /\ lock \in Threads \union {Nobody} /\ statusLock \in [Tasks -> Threads \union {Ticker, Nobody}]
  /\ call \in [Threads -> CallRecord] /\ walk \in [Clients -> WalkRecord] /\ missed \in BOOLEAN
  /\ notifies \in Nat /\ starts \in [Tasks -> Nat] /\ pauses \in [Tasks -> Nat] /\ failing \in [Tasks -> Nat]
  /\ fetcher \in [Tasks -> {"none", "idle", "active", "done", "failed"}]
  /\ doneCh \in [Tasks -> {"empty", "ok", "err"}]
  /\ spawned \in [Tasks -> Nat] /\ watched \in [Tasks -> {"none", "wait", "found", "erring", "hooks"}]
  /\ calls \in Nat /\ fails \in Nat /\ errors \in Nat

\* A task is set running only while fewer than MaxRunning tasks run.
Starts(t) == status[t] # "running" /\ status'[t] = "running"
StartsWithinLimit == [][\A t \in Tasks : Starts(t) => Cardinality(Running) < maxRunning]_vars

\* A task that was deleted is never set running.
DeletedNeverStarts == [][\A t \in Tasks : Starts(t) => t \in ToSet(tasks)]_vars

\* A task that Pause stopped runs again only through Continue.
PauseSticks == [][\A t \in Tasks : status[t] = "pause" => ~Starts(t)]_vars

\* A task whose turn will come, or that pauseAll is about to pause.
WillPause(c, t) ==
  \/ call[c].pc = "cleared"
  \/ call[c].pc = "pauseAll" /\ (\/ t \in ToSet(call[c].todo)
                               \/ \E p \in DOMAIN walk[c].view :
                                    p >= walk[c].next /\ walk[c].view[p] = t)
Queued(t) ==
  \/ t \in ToSet(waitTasks)
  \/ call[Notifier].pc = "run" /\ target(Notifier) = t
  \/ \E c \in Clients : WillPause(c, t)
AllQueued == \A t \in ToSet(tasks) : status[t] = "wait" => Queued(t)

\* A task that waits is in the wait queue, or pauseAll emptied it and is about to
\* pause the task: nothing waits for a slot it will never be offered.  With two
\* exceptions: a Delete moved the tasks of the list while pauseAll ranged over it,
\* or a loaded task that waited could not be read when its turn came.
WaitQueued == ~missed /\ errors = 0 => AllQueued

\* Not true: the Delete of one task makes pauseAll skip another one, which then
\* waits in no queue.
NoneMissed == errors = 0 => AllQueued

\* A free slot and a waiting task: somebody is about to look, unless a Delete has
\* failed, which returns without notifyRunning.
SlotNoticed ==
  errors = 0 /\ lock = Nobody /\ remainRunningCount > 0 /\ waitTasks # <<>> =>
    \/ notifies > 0
    \/ \E c \in Clients : call[c].pc \in {"pause", "delete"}
    \/ \E t \in Tasks : watched[t] = "erring" \/ failing[t] > 0

\* When the download ends the task does not stay running, unless it is deleted.
EndNoticed ==
  \A t \in Tasks :
    (status[t] = "running" /\ fetcher[t] \in {"done", "failed"})
      ~> (status[t] # "running" \/ t \notin ToSet(tasks))

\* A running task whose fetcher was stopped: the handler of a Pause ran last, the
\* status was set by the start.
Stalled(t) ==
  /\ t \in ToSet(tasks) /\ status[t] = "running" /\ fetcher[t] = "idle"
  /\ starts[t] = 0 /\ pauses[t] = 0

\* Every task that waits gets its turn; unless a running task is stalled, a Delete
\* moved the list under pauseAll or a call has failed (see WaitQueued).  Without
\* Continue, and where no task uploads: otherwise the ticker, which asks for d.lock
\* with statusLock in its hand, and notifyRunning, doCreate or Continue, which do
\* it the other way round, wait for each other.
WaitServed ==
  \A t \in Tasks :
    (status[t] = "wait")
      ~> \/ status[t] # "wait" \/ t \notin ToSet(tasks)
         \/ missed \/ errors > 0 \/ \E u \in Tasks : Stalled(u)

\* Continue returns.
ContinueReturns == \A c \in Clients : (call[c].pc = "picked") ~> (call[c].pc = "idle")

----------------------------------------------------------------------------
(* The inductive invariants of the safety properties *)

\* What a thread has in its hands where it needs it.
InHand ==
  \A th \in Threads :
    /\ call[th].pc \in {"create", "run", "watch"} => Len(call[th].todo) = 1
    /\ call[th].pc \in {"preempting", "setWait", "deletePicked", "deleting"} => call[th].scan # <<>>

\* d.lock is held by the thread that is inside a section of it.
LockHeld ==
  /\ \A c \in Clients : lock = c <=> call[c].pc \in {"create", "preempt", "preempting", "setWait",
                                               "deleting"}
  /\ lock = Notifier <=> call[Notifier].pc = "run"
  /\ call[Notifier].pc \in {"idle", "run"}
  /\ \A c \in Clients : call[c].pc # "run"

Distinct(s) == \A i, k \in DOMAIN s : s[i] = s[k] => i = k

\* A task is in the list once, and was created.
ListedOnce == Distinct(tasks) /\ \A t \in ToSet(tasks) : status[t] # "none"

\* The array of a pauseAll and d.tasks, when no Delete moved anything in it.
WalkKept ==
  ~missed => \A c \in Clients : walk[c].shared => Len(walk[c].view) <= Len(tasks)

\* Whatever the clients call.
SInv == TypeOK /\ InHand /\ LockHeld /\ ListedOnce /\ WalkKept /\ WaitQueued

\* The calls among which the order of the queue is kept.
NoContinue == Ops \intersect {"continue", "continueAll", "continueBatch"} = {}

AtLock(th) == call[th].pc \in {"create", "run"}

\* Without Continue a task is in the queue once, and leaves it with the list.
QueueInList ==
  /\ \A c \in Clients : call[c].pc \notin {"picked", "preempt", "preempting", "setWait", "start"}
  /\ Distinct(waitTasks) /\ ToSet(waitTasks) \subseteq ToSet(tasks)
  /\ \A th \in Threads : AtLock(th) => target(th) \in ToSet(tasks)

\* Without PutConfig too: who starts a task inside d.lock has a slot to give.
LimitKept ==
  /\ Cardinality(Running) <= maxRunning
  /\ (\E th \in Threads : AtLock(th)) => Cardinality(Running) < maxRunning

\* A task whose turn is to come: it is queued, or about to be started.
Unstarted(t) == t \in ToSet(waitTasks) \/ \E th \in Threads : AtLock(th) /\ target(th) = t

\* Nothing runs of a task before it is started the first time.
NotBegun ==
  /\ \A t \in Tasks : Unstarted(t) => status[t] \in {"wait", "ready", "pause"}
  /\ \A th \in Threads : AtLock(th) => target(th) \notin ToSet(waitTasks)
  /\ \A t \in Tasks : status[t] = "none" \/ Unstarted(t) =>
       /\ starts[t] = 0 /\ failing[t] = 0 /\ doneCh[t] = "empty"
       /\ fetcher[t] # "active" /\ watched[t] \in {"none", "wait"}

\* Without pauseAll too, and with one task in a filter: who has freed a slot and
\* not told yet.
FreedByCall == {c \in Clients : call[c].pc = "delete" \/ (call[c].pc = "pause" /\ call[c].todo = <<>>)}
FreedByError == {t \in Tasks : status[t] = "error" /\ (failing[t] > 0 \/ watched[t] = "erring")}

OneInFilter ==
  \A c \in Clients :
    /\ call[c].pc \notin {"cleared", "pauseAll", "deleting"}
    /\ call[c].pc \in {"pause", "deletePicked"} => Len(call[c].todo) <= 1
    /\ call[c].pc = "deletePicked" => Len(call[c].scan) = 1

\* While tasks wait, each free slot is about to be offered or being taken.
SlotsCounted ==
  errors = 0 /\ waitTasks # <<>> =>
    remainRunningCount <= notifies + Cardinality(FreedByCall) + Cardinality(FreedByError)
                          + (IF lock = Nobody THEN 0 ELSE 1)

=============================================================================
