------------------------------ MODULE TaskStore ------------------------------
(***************************************************************************)
(* What the downloader keeps over a restart (pkg/download/downloader.go,   *)
(* storage.go): a record of each task (bucketTask) and the state of its    *)
(* fetcher (bucketSave).  The two are written by separate transactions, by *)
(* the goroutines of Start and Pause, the watcher, the ticker and the      *)
(* callers of the API; the program may crash between any two steps, or be  *)
(* closed, and be started again.  Which task may run is Scheduler's        *)
(* business: here a call to Create starts the task or leaves it waiting.   *)
(***************************************************************************)
EXTENDS Integers, FiniteSets

CONSTANTS
  Tasks,            \* IDs of the tasks
  Clients, Nobody,  \* goroutines that call the API; nobody holds a lock
  Size,             \* bytes of each resource
  Ops,              \* the calls the clients make
  DeleteAtRest,     \* clients delete only tasks nothing is being done for
  MaxCalls, MaxRestarts, MaxFails  \* bounds

None == -1          \* no record, no file, no fetcher

VARIABLES
  rec, recRes, sav, \* bucketTask: status and "resolved" of a task; bucketSave
  open, up,         \* the storage is open; the program runs
  file,             \* bytes of the target file that are there, None: no file
  listed,           \* the tasks of d.tasks
  status, res,      \* task.Status, task.Meta.Res # nil
  fet, prog,        \* bytes the task's fetcher counts; task.Progress.Downloaded
  active, hand,     \* the fetcher downloads; it has written, not yet counted
  orphans,          \* counts of fetchers that still download, though replaced
  result,           \* what Wait will return
  slock,            \* task.statusLock
  starts, pauses,   \* handlers that wait for task.lock
  handler,          \* what the holder of task.lock is doing
  watcher,          \* watch(task)
  tick,             \* task the ticker is saving
  call,             \* what each client is doing
  cleans,           \* AutoDeleteMissingFileTasks
  kept, gone,       \* history: bytes saveTask stored; Delete has returned
  calls, restarts, fails

disk   == <<rec, recRes, sav, open, file>>
memory == <<listed, status, res, fet, prog, active, hand, orphans, result>>
locks  == <<slock, starts, pauses, handler>>
others == <<watcher, tick, call>>
past   == <<kept, gone>>
bounds == <<cleans, calls, restarts, fails>>
storeVars == <<disk, up, memory, locks, others, past, bounds>>

Statuses == {"ready", "wait", "running", "pause", "error", "done"}
Calls == {"create", "continue", "pause", "patch", "stats", "delete", "close"}
Places == {"none", "list", "pop", "save", "put", "record", "close", "storage"}
idle == [op |-> "idle", t |-> None, at |-> "none"]
Max2(a, b) == IF a > b THEN a ELSE b

----------------------------------------------------------------------------
(* The storage: each operation is a transaction, and fails once the storage *)
(* is closed.                                                                *)

PutTask(t) ==
  /\ rec' = IF open THEN [rec EXCEPT ![t] = status[t]] ELSE rec
  /\ recRes' = IF open THEN [recRes EXCEPT ![t] = res[t]] ELSE recRes

PutSave(t) ==
  /\ sav' = IF open THEN [sav EXCEPT ![t] = fet[t]] ELSE sav
  /\ kept' = IF open THEN [kept EXCEPT ![t] = fet[t]] ELSE kept

\* restoreFetcher: what the new fetcher starts from.
restored(t) == IF sav[t] = None THEN 0 ELSE sav[t]

\* restoreFetcher pops bucketSave and builds the fetcher from it.
Pop(t) ==
  /\ open
  /\ sav' = [sav EXCEPT ![t] = None]
  /\ fet' = [fet EXCEPT ![t] = restored(t)]

----------------------------------------------------------------------------
(* Start and pause *)

\* restoreTask and the new status, under statusLock.
Restore(t) == IF fet[t] = None THEN Pop(t) ELSE UNCHANGED <<sav, fet>>

Launch(t) ==
  /\ status' = [status EXCEPT ![t] = "running"]
  /\ starts' = [starts EXCEPT ![t] = @ + 1]
  /\ watcher' = [watcher EXCEPT ![t] = IF @ = "off" THEN "wait" ELSE @]

doStart(t) ==
  /\ slock[t] = Nobody
  /\ IF status[t] \in {"running", "done"}
     THEN UNCHANGED <<sav, fet, status, starts, watcher>>
     ELSE Restore(t) /\ Launch(t)

doPause(t) ==
  /\ slock[t] = Nobody
  /\ IF status[t] \in {"pause", "done"}
     THEN UNCHANGED <<status, pauses>>
     ELSE /\ status' = [status EXCEPT ![t] = "pause"]
          /\ pauses' = [pauses EXCEPT ![t] = @ + 1]

\* doOnError: the status changes in memory only.
OnError(t) ==
  /\ status' = [status EXCEPT ![t] = "error"]
  /\ handler' = [handler EXCEPT ![t] = "free"]

StartTakesLock(t) ==
  /\ handler[t] = "free" /\ starts[t] > 0
  /\ starts' = [starts EXCEPT ![t] = @ - 1]
  /\ handler' = [handler EXCEPT ![t] = "resolve"]
  /\ UNCHANGED <<disk, up, memory, slock, pauses, others, past, bounds>>

StartResolves(t) ==
  /\ handler[t] = "resolve"
  /\ \/ /\ res' = [res EXCEPT ![t] = TRUE]
        /\ handler' = [handler EXCEPT ![t] = "start"]
        /\ UNCHANGED <<status, fails>>
     \/ /\ ~res[t] /\ fails < MaxFails
        /\ fails' = fails + 1
        /\ OnError(t) /\ UNCHANGED res
  /\ UNCHANGED <<disk, up, listed, fet, prog, active, hand, orphans, result, slock, starts, pauses,
                 others, past, cleans, calls, restarts>>

\* fetcher.Start opens or creates the file and begins to download.
StartsFetcher(t) ==
  /\ handler[t] = "start"
  /\ file' = [file EXCEPT ![t] = Max2(@, 0)]
  /\ active' = [active EXCEPT ![t] = TRUE]
  /\ handler' = [handler EXCEPT ![t] = "save"]
  /\ UNCHANGED <<rec, recRes, sav, open, up, listed, status, res, fet, prog, hand, orphans, result,
                 slock, starts, pauses, others, past, bounds>>

\* Mutant of startSaves: the state of the fetcher is left to the ticker.
startSkipsSave(t) == UNCHANGED <<sav, kept>>

startSaves(t) == PutSave(t)

\* saveTask, first transaction.
StartSavesFetcher(t) ==
  /\ handler[t] = "save"
  /\ startSaves(t)
  /\ IF open THEN handler' = [handler EXCEPT ![t] = "record"] /\ UNCHANGED status
     ELSE OnError(t)
  /\ UNCHANGED <<rec, recRes, open, file, up, listed, res, fet, prog, active, hand, orphans, result,
                 slock, starts, pauses, others, gone, bounds>>

\* The second transaction of saveTask, and the only one of the pause handler,
\* whose error is only logged.
HandlerPuts(t) ==
  /\ handler[t] \in {"record", "put"}
  /\ PutTask(t)
  /\ IF open \/ handler[t] = "put"
     THEN handler' = [handler EXCEPT ![t] = "free"] /\ UNCHANGED status
     ELSE OnError(t)
  /\ UNCHANGED <<sav, open, file, up, listed, res, fet, prog, active, hand, orphans, result, slock,
                 starts, pauses, others, past, bounds>>

\* fetcher.Pause returns once nothing writes any more.
PauseHandled(t) ==
  /\ handler[t] = "free" /\ pauses[t] > 0 /\ hand[t] = 0
  /\ pauses' = [pauses EXCEPT ![t] = @ - 1]
  /\ active' = [active EXCEPT ![t] = FALSE]
  /\ handler' = [handler EXCEPT ![t] = "put"]
  /\ UNCHANGED <<disk, up, listed, status, res, fet, prog, hand, orphans, result, slock, starts, others,
                 past, bounds>>

----------------------------------------------------------------------------
(* The fetcher and the watcher *)

Writes(t) ==
  /\ active[t] /\ hand[t] = 0 /\ fet[t] < Size
  /\ file' = [file EXCEPT ![t] = Max2(@, fet[t] + 1)]
  /\ hand' = [hand EXCEPT ![t] = 1]
  /\ UNCHANGED <<rec, recRes, sav, open, up, listed, status, res, fet, prog, active, orphans, result,
                 locks, others, past, bounds>>

Counts(t) ==
  /\ hand[t] = 1
  /\ fet' = [fet EXCEPT ![t] = @ + 1]
  /\ hand' = [hand EXCEPT ![t] = 0]
  /\ UNCHANGED <<disk, up, listed, status, res, prog, active, orphans, result,
                 locks, others, past, bounds>>

FetcherEnds(t) ==
  /\ active[t] /\ hand[t] = 0 /\ result[t] = "none"
  /\ active' = [active EXCEPT ![t] = FALSE]
  /\ \/ fet[t] = Size /\ result' = [result EXCEPT ![t] = "ok"] /\ UNCHANGED fails
     \/ /\ fails < MaxFails /\ fails' = fails + 1
        /\ result' = [result EXCEPT ![t] = "error"]
  /\ UNCHANGED <<disk, up, listed, status, res, fet, prog, hand, orphans, locks, others, past,
                 cleans, calls, restarts>>

\* A replaced fetcher goes on with the file, if that is still there.
OrphanWrites(t) ==
  /\ \E n \in orphans[t] :
       /\ n < Size
       /\ file' = [file EXCEPT ![t] = IF @ = None THEN None ELSE Max2(@, n + 1)]
       /\ orphans' = [orphans EXCEPT ![t] = (@ \ {n}) \union {n + 1}]
  /\ UNCHANGED <<rec, recRes, sav, open, up, listed, status, res, fet, prog, active, hand, result,
                 locks, others, past, bounds>>

\* It ends, and the watcher may be the one that hears of it.
Heard(t, end) ==
  \/ UNCHANGED result
  \/ result[t] = "none" /\ result' = [result EXCEPT ![t] = end]

OrphanEnds(t) ==
  /\ \E n \in orphans[t] :
       /\ orphans' = [orphans EXCEPT ![t] = @ \ {n}]
       /\ \/ n = Size /\ Heard(t, "ok") /\ UNCHANGED fails
          \/ fails < MaxFails /\ fails' = fails + 1 /\ Heard(t, "error")
  /\ UNCHANGED <<disk, up, listed, status, res, fet, prog, active, hand, locks, others, past,
                 cleans, calls, restarts>>

\* Wait returns: an error, or the end of a task that may be deleted by now.
WatchReturns(t) ==
  /\ watcher[t] = "wait" /\ result[t] # "none"
  /\ result' = [result EXCEPT ![t] = "none"]
  /\ IF result[t] = "error" \/ t \notin listed
     THEN /\ watcher' = [watcher EXCEPT ![t] = "off"]
          /\ status' = [status EXCEPT ![t] = IF result[t] = "error" THEN "error" ELSE @]
     ELSE /\ watcher' = [watcher EXCEPT ![t] = "put"]
          /\ status' = [status EXCEPT ![t] = "done"]
  /\ UNCHANGED <<disk, up, listed, res, fet, prog, active, hand, orphans, locks, tick, call, past, bounds>>

WatchPuts(t) ==
  /\ watcher[t] = "put"
  /\ PutTask(t)
  /\ watcher' = [watcher EXCEPT ![t] = "off"]
  /\ UNCHANGED <<sav, open, file, up, memory, locks, tick, call, past, bounds>>

----------------------------------------------------------------------------
(* The ticker, under task.statusLock *)

\* Mutant of tickLooks: a deleted task is looked at like any other.
tickForgets(t) == fet[t] # None

\* GetTask(task.ID) != nil and task.fetcher != nil.
tickLooks(t) == t \in listed /\ fet[t] # None

\* The loop walks over a copy of d.tasks: t may have been deleted since.
TickChecks(t) ==
  /\ tick = <<>> /\ slock[t] = Nobody /\ open
  /\ status[t] = "running" /\ tickLooks(t) /\ fet[t] # prog[t]
  /\ slock' = [slock EXCEPT ![t] = "ticker"]
  /\ prog' = [prog EXCEPT ![t] = fet[t]]
  /\ tick' = <<t, "save">>
  /\ UNCHANGED <<disk, up, listed, status, res, fet, active, hand, orphans, result, starts, pauses,
                 handler, watcher, call, past, bounds>>

TickSaves(t) ==
  /\ tick = <<t, "save">>
  /\ PutSave(t)
  /\ tick' = <<t, "put">>
  /\ UNCHANGED <<rec, recRes, open, file, up, memory, locks, watcher, call, gone, bounds>>

TickPuts(t) ==
  /\ tick = <<t, "put">>
  /\ PutTask(t)
  /\ tick' = <<>>
  /\ slock' = [slock EXCEPT ![t] = Nobody]
  /\ UNCHANGED <<sav, open, file, up, memory, starts, pauses, handler, watcher, call, past, bounds>>

----------------------------------------------------------------------------
(* Calls of the API *)

At(c, op, at) == call[c].op = op /\ call[c].at = at
Go(c, at) == call' = [call EXCEPT ![c] = IF at = "end" THEN idle ELSE [@ EXCEPT !.at = at]]

Begin(c, op, t, at) ==
  /\ call[c] = idle /\ op \in Ops /\ calls < MaxCalls /\ open
  /\ calls' = calls + 1
  /\ call' = [call EXCEPT ![c] =
       IF at = "end" THEN idle ELSE [op |-> op, t |-> t, at |-> at]]

\* doCreate: the record first, then the list; the fetcher comes from Resolve or
\* has still to resolve.
Create(c, t) ==
  /\ Begin(c, "create", t, "list")
  /\ status[t] = "none" /\ rec[t] = "none" /\ ~gone[t]
  /\ \A d \in Clients : call[d].t # t
  /\ \E resolved \in BOOLEAN :
       /\ res' = [res EXCEPT ![t] = resolved]
       /\ recRes' = [recRes EXCEPT ![t] = resolved]
  /\ rec' = [rec EXCEPT ![t] = "ready"]
  /\ fet' = [fet EXCEPT ![t] = 0]
  /\ UNCHANGED <<sav, open, file, up, listed, status, prog, active, hand, orphans, result, locks, watcher,
                 tick, past, cleans, restarts, fails>>

CreateLists(c, t) ==
  /\ At(c, "create", "list") /\ call[c].t = t
  /\ listed' = listed \union {t}
  /\ \/ /\ status' = [status EXCEPT ![t] = "wait"]
        /\ watcher' = [watcher EXCEPT ![t] = "wait"]
        /\ UNCHANGED starts
     \/ Launch(t)
  /\ Go(c, "end")
  /\ UNCHANGED <<disk, up, res, fet, prog, active, hand, orphans, result, slock, pauses, handler, tick,
                 past, bounds>>

Continue(c, t) ==
  /\ Begin(c, "continue", t, "end") /\ t \in listed
  /\ doStart(t)
  /\ UNCHANGED <<rec, recRes, open, file, up, listed, res, prog, active, hand, orphans, result, slock,
                 pauses, handler, tick, past, cleans, restarts, fails>>

Pause(c, t) ==
  /\ Begin(c, "pause", t, "end") /\ t \in listed
  /\ doPause(t)
  /\ UNCHANGED <<disk, up, listed, res, fet, prog, active, hand, orphans, result, slock, starts, handler,
                 watcher, tick, past, cleans, restarts, fails>>

\* Stats and Patch look for the fetcher without a lock and restore it under
\* statusLock, without another look: one that Continue restored and started since
\* is replaced, and goes on downloading on its own.
Look(c, op, t) ==
  /\ Begin(c, op, t, IF fet[t] = None THEN "pop" ELSE IF op = "stats" THEN "end" ELSE "save")
  /\ t \in listed
  /\ UNCHANGED <<disk, up, memory, locks, watcher, tick, past, cleans, restarts, fails>>

Replace(t) ==
  /\ active' = [active EXCEPT ![t] = FALSE]
  /\ hand' = [hand EXCEPT ![t] = 0]
  /\ orphans' = [orphans EXCEPT ![t] = IF active[t] THEN @ \union {fet[t] + hand[t]} ELSE @]

LookPops(c, t) ==
  /\ call[c].at = "pop" /\ call[c].t = t /\ slock[t] = Nobody
  /\ IF open THEN Pop(t) /\ Replace(t) /\ Go(c, IF call[c].op = "stats" THEN "end" ELSE "save")
     ELSE Go(c, "end") /\ UNCHANGED <<sav, fet, active, hand, orphans>>
  /\ UNCHANGED <<rec, recRes, open, file, up, listed, status, res, prog, result,
                 locks, watcher, tick, past, bounds>>

PatchSaves(c, t) ==
  /\ At(c, "patch", "save") /\ call[c].t = t
  /\ PutSave(t)
  /\ Go(c, IF open THEN "put" ELSE "end")
  /\ UNCHANGED <<rec, recRes, open, file, up, memory, locks, watcher, tick, gone, bounds>>

PatchPuts(c, t) ==
  /\ At(c, "patch", "put") /\ call[c].t = t
  /\ PutTask(t) /\ Go(c, "end")
  /\ UNCHANGED <<sav, open, file, up, memory, locks, watcher, tick, past, bounds>>

\* Nothing is being done for t but its download.
AtRest(t) ==
  /\ handler[t] = "free" /\ starts[t] = 0 /\ pauses[t] = 0
  /\ slock[t] = Nobody /\ watcher[t] # "put"
  /\ \A d \in Clients : call[d].t # t

Delete(c, t) ==
  /\ Begin(c, "delete", t, "record") /\ t \in listed
  /\ DeleteAtRest => AtRest(t)
  /\ listed' = listed \ {t}
  /\ UNCHANGED <<disk, up, status, res, fet, prog, active, hand, orphans, result, locks, watcher, tick,
                 past, cleans, restarts, fails>>

\* Mutant of deleteSave: the state of the fetcher is left behind.
saveLeft(t) == UNCHANGED sav

deleteSave(t) == sav' = IF open THEN [sav EXCEPT ![t] = None] ELSE sav

\* doDelete: the record, the saved state, then the fetcher and the file.
DeletesRecord(c, t) ==
  /\ At(c, "delete", "record") /\ call[c].t = t
  /\ rec' = IF open THEN [rec EXCEPT ![t] = "none"] ELSE rec
  /\ Go(c, IF open THEN "save" ELSE "end")
  /\ UNCHANGED <<recRes, sav, open, file, up, memory, locks, watcher, tick, past, bounds>>

DeletesSave(c, t) ==
  /\ At(c, "delete", "save") /\ call[c].t = t
  /\ deleteSave(t)
  /\ Go(c, IF open THEN "close" ELSE "end")
  /\ UNCHANGED <<rec, recRes, open, file, up, memory, locks, watcher, tick, past, bounds>>

DeletesFile(c, t) ==
  /\ At(c, "delete", "close") /\ call[c].t = t /\ hand[t] = 0
  /\ active' = [active EXCEPT ![t] = FALSE]
  /\ \E force \in BOOLEAN : file' = [file EXCEPT ![t] = IF force /\ res[t] THEN None ELSE @]
  /\ gone' = [gone EXCEPT ![t] = TRUE]
  /\ Go(c, "end")
  /\ UNCHANGED <<rec, recRes, sav, open, up, listed, status, res, fet, prog, hand, orphans, result, locks,
                 watcher, tick, kept, bounds>>

\* Close pauses every task, whose handlers run on by themselves, and closes the
\* storage.
Close(c) ==
  /\ Begin(c, "close", None, "storage")
  /\ \A t \in listed : slock[t] = Nobody
  /\ LET paused == {t \in listed : status[t] \notin {"pause", "done"}} IN
       /\ status' = [t \in Tasks |-> IF t \in paused THEN "pause" ELSE status[t]]
       /\ pauses' = [t \in Tasks |-> IF t \in paused THEN pauses[t] + 1 ELSE pauses[t]]
  /\ UNCHANGED <<disk, up, listed, res, fet, prog, active, hand, orphans, result, slock, starts, handler,
                 watcher, tick, past, cleans, restarts, fails>>

CloseStorage(c) ==
  /\ At(c, "close", "storage")
  /\ open' = FALSE
  /\ Go(c, "end")
  /\ UNCHANGED <<rec, recRes, sav, file, up, memory, locks, watcher, tick, past, bounds>>

----------------------------------------------------------------------------
(* The end of the program, orderly or not, and the next start *)

Forget ==
  /\ listed' = {} /\ status' = [t \in Tasks |-> "none"] /\ res' = [t \in Tasks |-> FALSE]
  /\ fet' = [t \in Tasks |-> None] /\ prog' = [t \in Tasks |-> 0]
  /\ active' = [t \in Tasks |-> FALSE] /\ hand' = [t \in Tasks |-> 0]
  /\ orphans' = [t \in Tasks |-> {}]
  /\ result' = [t \in Tasks |-> "none"] /\ slock' = [t \in Tasks |-> Nobody]
  /\ starts' = [t \in Tasks |-> 0] /\ pauses' = [t \in Tasks |-> 0]
  /\ handler' = [t \in Tasks |-> "free"] /\ watcher' = [t \in Tasks |-> "off"]
  /\ tick' = <<>> /\ call' = [c \in Clients |-> idle]

Crash ==
  /\ up /\ restarts < MaxRestarts
  /\ up' = FALSE /\ open' = FALSE
  /\ restarts' = restarts + 1
  /\ Forget
  /\ UNCHANGED <<rec, recRes, sav, file, past, cleans, calls, fails>>

\* cleanupNonExistingTasks: tasks with a known resource and no file.
missing == {t \in Tasks : cleans /\ rec[t] # "none" /\ recRes[t] /\ file[t] = None}

\* Setup: only Done and Error outlive the program.
loaded(s) == IF s \in {"done", "error", "none"} THEN s ELSE "pause"

Setup ==
  /\ ~up
  /\ up' = TRUE /\ open' = TRUE
  /\ rec' = [t \in Tasks |-> IF t \in missing THEN "none" ELSE rec[t]]
  /\ sav' = [t \in Tasks |-> IF t \in missing THEN None ELSE sav[t]]
  /\ listed' = {t \in Tasks : rec[t] # "none"} \ missing
  /\ status' = [t \in Tasks |-> IF t \in missing THEN "none" ELSE loaded(rec[t])]
  /\ res' = [t \in Tasks |-> recRes[t] /\ rec[t] # "none"]
  /\ gone' = [t \in Tasks |-> gone[t] \/ t \in missing]
  /\ UNCHANGED <<recRes, file, fet, prog, active, hand, orphans, result, locks, others, kept, bounds>>

----------------------------------------------------------------------------
Init ==
  /\ rec = [t \in Tasks |-> "none"] /\ recRes = [t \in Tasks |-> FALSE]
  /\ sav = [t \in Tasks |-> None] /\ file = [t \in Tasks |-> None]
  /\ open = TRUE /\ up = TRUE
  /\ listed = {} /\ status = [t \in Tasks |-> "none"] /\ res = [t \in Tasks |-> FALSE]
  /\ fet = [t \in Tasks |-> None] /\ prog = [t \in Tasks |-> 0]
  /\ active = [t \in Tasks |-> FALSE] /\ hand = [t \in Tasks |-> 0]
  /\ orphans = [t \in Tasks |-> {}]
  /\ result = [t \in Tasks |-> "none"] /\ slock = [t \in Tasks |-> Nobody]
  /\ starts = [t \in Tasks |-> 0] /\ pauses = [t \in Tasks |-> 0]
  /\ handler = [t \in Tasks |-> "free"] /\ watcher = [t \in Tasks |-> "off"]
  /\ tick = <<>> /\ call = [c \in Clients |-> idle]
  /\ cleans \in BOOLEAN
  /\ kept = [t \in Tasks |-> None] /\ gone = [t \in Tasks |-> FALSE]
  /\ calls = 0 /\ restarts = 0 /\ fails = 0

HandlerStep(t) ==
  \/ StartTakesLock(t) \/ StartResolves(t) \/ StartsFetcher(t) \/ StartSavesFetcher(t)
  \/ HandlerPuts(t) \/ PauseHandled(t)
FetcherStep(t) ==
  Writes(t) \/ Counts(t) \/ FetcherEnds(t) \/ OrphanWrites(t) \/ OrphanEnds(t)
WatchStep(t) == WatchReturns(t) \/ WatchPuts(t)
TickStep(t) == TickChecks(t) \/ TickSaves(t) \/ TickPuts(t)

ApiStep(c, t) ==
  \/ Create(c, t) \/ CreateLists(c, t) \/ Continue(c, t) \/ Pause(c, t)
  \/ Look(c, "stats", t) \/ Look(c, "patch", t) \/ LookPops(c, t)
  \/ PatchSaves(c, t) \/ PatchPuts(c, t)
  \/ Delete(c, t) \/ DeletesRecord(c, t) \/ DeletesSave(c, t) \/ DeletesFile(c, t)

Next ==
  \/ \E t \in Tasks : HandlerStep(t) \/ FetcherStep(t) \/ WatchStep(t) \/ TickStep(t)
  \/ \E c \in Clients : (\E t \in Tasks : ApiStep(c, t)) \/ Close(c) \/ CloseStorage(c)
  \/ Crash \/ Setup

Spec == Init /\ [][Next]_storeVars

----------------------------------------------------------------------------
(* Properties *)

TypeDisk ==
  /\ rec \in [Tasks -> Statuses \union {"none"}] /\ recRes \in [Tasks -> BOOLEAN]
  /\ sav \in [Tasks -> None..Size] /\ file \in [Tasks -> None..Size]
  /\ open \in BOOLEAN /\ up \in BOOLEAN
  /\ cleans \in BOOLEAN /\ kept \in [Tasks -> None..Size] /\ gone \in [Tasks -> BOOLEAN]

TypeMemory ==
  /\ listed \subseteq Tasks
  /\ status \in [Tasks -> Statuses \union {"none"}] /\ res \in [Tasks -> BOOLEAN]
  /\ fet \in [Tasks -> None..Size] /\ prog \in [Tasks -> 0..Size]
  /\ active \in [Tasks -> BOOLEAN] /\ hand \in [Tasks -> 0..1]
  /\ orphans \in [Tasks -> SUBSET (0..Size)]
  /\ result \in [Tasks -> {"none", "ok", "error"}]

TypeWork ==
  /\ slock \in [Tasks -> {Nobody, "ticker"}]
  /\ starts \in [Tasks -> Nat] /\ pauses \in [Tasks -> Nat]
  /\ handler \in [Tasks -> {"free", "resolve", "start", "save", "record", "put"}]
  /\ watcher \in [Tasks -> {"off", "wait", "put"}]
  /\ tick \in {<<>>} \union (Tasks \X {"save", "put"})
  /\ call \in [Clients -> [op : Calls \union {"idle"}, t : Tasks \union {None}, at : Places]]

\* Every variable of the store and of the program has its type.
TypeOK == TypeDisk /\ TypeMemory /\ TypeWork

\* A task that Delete has removed does not come back, neither its record nor its
\* saved state, whatever the ticker, the watcher and a restart do.  Not so when a
\* save of the task was on its way as Delete began: TaskStore_deleted.cfg.
DeletedStaysDeleted == \A t \in Tasks : gone[t] => rec[t] = "none" /\ sav[t] = None

\* What is stored never runs ahead of the file: a resume never skips bytes, and a
\* task stored as Done is whole.
StoreBehindFile ==
  \A t \in Tasks : rec[t] # "none" =>
    /\ sav[t] <= Max2(file[t], 0)
    /\ rec[t] = "done" => file[t] = Size

\* Once the goroutine of Start has ended, a crash costs a running task no more
\* than what it downloaded since the last save: its state is in the store.
RunningIsSaved ==
  \A t \in Tasks :
    (t \in listed /\ active[t] /\ status[t] = "running" /\ handler[t] = "free" /\ starts[t] = 0)
      => sav[t] # None /\ sav[t] >= kept[t]

\* Stats and Patch restore a fetcher only if it is not loaded: none is replaced
\* while it downloads.
NoneReplaced == \A t \in Tasks : orphans[t] = {}

\* What saveTask has stored of a task can always be resumed from, out of the
\* store or out of memory, until the task ends or is deleted.
ProgressKept ==
  \A t \in Tasks : rec[t] \notin {"none", "done"} => sav[t] >= kept[t] \/ fet[t] >= kept[t]

----------------------------------------------------------------------------
(* The inductive invariant behind StoreBehindFile and DeletedStaysDeleted,   *)
(* under DeleteAtRest                                                        *)

FileBytes(t) == Max2(file[t], 0)

\* Until a task is deleted its file has what its fetchers count or hold and what
\* is stored, and is whole once the end is reported, shown or recorded.
BehindFile(t) ==
  ~gone[t] =>
    /\ sav[t] <= FileBytes(t)
    /\ fet[t] + hand[t] <= FileBytes(t)
    /\ \A n \in orphans[t] : n <= FileBytes(t)
    /\ active[t] \/ orphans[t] # {} => file[t] # None
    /\ status[t] = "done" \/ rec[t] = "done" \/ result[t] = "ok" => file[t] = Size

\* What works on a task has found or made its fetcher.
HasFetcher(t) ==
  /\ hand[t] = 1 \/ active[t] \/ starts[t] > 0 \/ handler[t] \in {"resolve", "start"} => fet[t] # None
  /\ \A c \in Clients : call[c].t = t /\ call[c].at = "list" => fet[t] # None

\* Nothing that could save t is on its way.
Settled(t) ==
  /\ t \notin listed
  /\ handler[t] = "free" /\ starts[t] = 0 /\ pauses[t] = 0
  /\ slock[t] = Nobody /\ watcher[t] # "put"

\* A deleted task is settled and so are its record, its state and its fetcher.
GoneSettled(t) ==
  gone[t] =>
    /\ Settled(t) /\ rec[t] = "none" /\ sav[t] = None /\ hand[t] = 0 /\ ~active[t]
    /\ \A c \in Clients : call[c].t # t

\* One call deletes a task: the record first, the saved state, then the file.
DeletingSettled(t) ==
  \A c \in Clients : call[c].op = "delete" /\ call[c].t = t =>
    /\ Settled(t)
    /\ \A d \in Clients : call[d].t = t => d = c
    /\ call[c].at \in {"save", "close"} => rec[t] = "none"
    /\ call[c].at = "close" => sav[t] = None

\* The ticker holds the lock of the task it saves.
TickLocks(t) == \A x \in {"save", "put"} : tick = <<t, x>> => slock[t] = "ticker"

TaskInv(t) == BehindFile(t) /\ HasFetcher(t) /\ GoneSettled(t) /\ DeletingSettled(t) /\ TickLocks(t)

\* Only Stats and Patch restore a fetcher outside Start.
PopCalls == \A c \in Clients : call[c].at = "pop" => call[c].op \in {"stats", "patch"}

\* A program that is down does nothing and remembers nothing.
Down ==
  ~up =>
    /\ ~open /\ tick = <<>> /\ \A c \in Clients : call[c] = idle
    /\ \A t \in Tasks :
         /\ Settled(t) /\ watcher[t] = "off" /\ fet[t] = None /\ hand[t] = 0
         /\ ~active[t] /\ orphans[t] = {} /\ result[t] = "none" /\ status[t] = "none"

StoreInv == TypeOK /\ PopCalls /\ Down /\ \A t \in Tasks : TaskInv(t)

----------------------------------------------------------------------------
(* What RunningIsSaved needs besides                                         *)

\* A task the program does not know of is not worked on.
Unknown(t) ==
  status[t] = "none" =>
    /\ t \notin listed /\ starts[t] = 0 /\ pauses[t] = 0 /\ handler[t] = "free"
    /\ ~active[t] /\ orphans[t] = {} /\ result[t] = "none"

\* One call creates a task, of which nothing else knows until it is listed.
CreatedByOne(t) ==
  \A c \in Clients : At(c, "create", "list") /\ call[c].t = t =>
    /\ status[t] = "none"
    /\ \A d \in Clients : call[d].t = t => d = c

\* A fetcher that downloads is about to be saved or is saved, with no less than
\* what saveTask stored last; after the storage was closed it counts as failed.
SavedOnceStarted(t) ==
  t \in listed /\ active[t] /\ handler[t] # "save" =>
    \/ sav[t] # None /\ sav[t] >= kept[t]
    \/ ~open /\ status[t] # "running"

SavedInv == \A t \in Tasks : Unknown(t) /\ CreatedByOne(t) /\ SavedOnceStarted(t)

==============================================================================
