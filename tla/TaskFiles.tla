------------------------------ MODULE TaskFiles ------------------------------
(***************************************************************************)
(* Which file a task writes (pkg/download/downloader.go, pkg/util/path.go, *)
(* internal/fetcher/fetcher.go).  The tasks of this module all want the    *)
(* same name in the same directory.  The handler of the first start looks  *)
(* for a free name under checkDuplicateLock; every other start takes the   *)
(* name the task has.  HTTP tasks; how a file is filled, and the fetcher's *)
(* own goroutines, are HttpDownload's and HttpSingle's business.           *)
(***************************************************************************)
EXTENDS Integers, FiniteSets

CONSTANTS
  FileTasks,   \* the tasks
  Resolved,    \* those created by Create, with the answer of Resolve; the others by CreateDirect
  User,        \* whoever wrote a file that was there before
  Slots,       \* MaxRunning
  OwnDeletes,  \* clients ask to remove a file only for the one task that wrote it
  MaxFileCalls, MaxFileFails, MaxFileStops \* bounds

ASSUME FileConstants == IsFiniteSet(FileTasks) /\ User \notin FileTasks

VARIABLES
  tasks,       \* d.tasks
  st,          \* task.Status; "new" before Create
  hasRes,       \* task.Meta.Res # nil
  number,      \* task.Meta.Opts.Name: 0 is the name as it came, k is "name (k)"
  stored,      \* bucketTask
  writers,     \* who wrote the file of each number, {}: there is none
  first, again,\* start handlers that wait for task.lock: isCreate or not
  at,          \* what the holder of task.lock is doing
  isCreate,    \* of that handler
  dupLock,     \* who has d.checkDuplicateLock: one, or none
  begun,       \* the tasks whose fetcher downloads or has
  named,       \* history: the tasks whose name was looked for and whose file was opened
  fileCalls, fileFails, fileStops

meta == <<hasRes, number>>
handlers == <<first, again, at, isCreate, dupLock>>
counts == <<fileCalls, fileFails, fileStops>>
fileVars == <<tasks, st, meta, stored, writers, handlers, begun, named, counts>>

Numbers == 0..Cardinality(FileTasks)
NoRecord == [st |-> "none", hasRes |-> FALSE, number |-> 0]

running == {t \in tasks : st[t] = "running"}
recordOf(t) == [st |-> st[t], hasRes |-> hasRes[t], number |-> number[t]]

----------------------------------------------------------------------------
(* The calls of the API *)

Called == fileCalls < MaxFileCalls /\ fileCalls' = fileCalls + 1

\* doStart: what the handler will do is told by the status.  u is a task that
\* Continue pauses for this one, or t.
doStart(t, u) ==
  IF st[t] \in {"running", "done"}
  THEN UNCHANGED <<st, first, again>>
  ELSE /\ st' = [st EXCEPT ![u] = "wait", ![t] = "running"]
       /\ first' = IF st[t] = "new" THEN first \union {t} ELSE first
       /\ again' = IF st[t] = "new" THEN again ELSE [again EXCEPT ![t] = @ + 1]

\* doCreate: the record is stored, and the task is started if there is a slot.
Create(t) ==
  /\ st[t] = "new" /\ Called
  /\ tasks' = tasks \union {t}
  /\ stored' = [stored EXCEPT ![t] = [st |-> "ready", hasRes |-> hasRes[t], number |-> 0]]
  /\ IF Cardinality(running) >= Slots
     THEN st' = [st EXCEPT ![t] = "wait"] /\ UNCHANGED <<first, again>>
     ELSE doStart(t, t)
  /\ UNCHANGED <<meta, writers, at, isCreate, dupLock, begun, named, fileFails, fileStops>>

\* notifyRunning
Offer(t) ==
  /\ t \in tasks /\ st[t] = "wait" /\ Cardinality(running) < Slots
  /\ doStart(t, t)
  /\ UNCHANGED <<tasks, meta, stored, writers, at, isCreate, dupLock, begun, named, counts>>

Pause(t) ==
  /\ t \in tasks /\ st[t] \in {"running", "wait"} /\ Called
  /\ st' = [st EXCEPT ![t] = "pause"]
  /\ UNCHANGED <<tasks, meta, stored, writers, handlers, begun, named, fileFails, fileStops>>

\* With no slot left, a running task goes back to wait.
Continue(t) ==
  /\ t \in tasks /\ st[t] \notin {"running", "done"} /\ Called
  /\ IF Cardinality(running) < Slots THEN doStart(t, t) ELSE \E u \in running : doStart(t, u)
  /\ UNCHANGED <<tasks, meta, stored, writers, at, isCreate, dupLock, begun, named,
                 fileFails, fileStops>>

\* doDelete: the file is told by its path.  Handlers of the task go on.
Delete(t) == \E force \in BOOLEAN :
  /\ t \in tasks /\ Called
  /\ force /\ OwnDeletes => writers[number[t]] = {t}
  /\ tasks' = tasks \ {t} /\ named' = named \ {t}
  /\ stored' = [stored EXCEPT ![t] = NoRecord]
  /\ writers' = IF force /\ hasRes[t] THEN [writers EXCEPT ![number[t]] = {}] ELSE writers
  /\ UNCHANGED <<st, meta, handlers, begun, fileFails, fileStops>>

----------------------------------------------------------------------------
(* The handler of a start, under task.lock *)

Takes(t) == \E c \in BOOLEAN :
  /\ at[t] = "free" /\ (IF c THEN t \in first ELSE again[t] > 0)
  /\ at' = [at EXCEPT ![t] = "resolve"] /\ isCreate' = [isCreate EXCEPT ![t] = c]
  /\ first' = IF c THEN first \ {t} ELSE first
  /\ again' = IF c THEN again ELSE [again EXCEPT ![t] = @ - 1]
  /\ UNCHANGED <<tasks, st, meta, stored, writers, dupLock, begun, named, counts>>

\* The handler is left: its locks are released.
Leaves(t) ==
  /\ at' = [at EXCEPT ![t] = "free"]
  /\ dupLock' = dupLock \ {t}

\* doOnError; nothing is stored.
Fails(t) ==
  /\ fileFails < MaxFileFails /\ fileFails' = fileFails + 1
  /\ st' = [st EXCEPT ![t] = "error"]
  /\ Leaves(t)

Resolves(t) ==
  /\ at[t] = "resolve"
  /\ \/ /\ hasRes' = [hasRes EXCEPT ![t] = TRUE]
        /\ at' = [at EXCEPT ![t] = IF isCreate[t] THEN "name" ELSE "start"]
        /\ UNCHANGED <<st, dupLock, fileFails>>
     \/ ~hasRes[t] /\ Fails(t) /\ UNCHANGED hasRes
  /\ UNCHANGED <<tasks, number, stored, writers, first, again, isCreate, begun, named,
                 fileCalls, fileStops>>

taken(k) == writers[k] # {}

\* CheckDuplicateAndRename: n is the number for a file of number k.
isFree(k, n) ==
  IF taken(k) THEN n # 0 /\ ~taken(n) /\ \A m \in 1..(n - 1) : taken(m) ELSE n = k

\* Mutant of locked: the lock is released once the name is found.
lockedBriefly(t) == dupLock' = {}

\* The lock is kept until the handler is left, with the file opened.
locked(t) == dupLock' = {t}

FindsName(t) == \E n \in Numbers :
  /\ at[t] = "name" /\ dupLock = {}
  /\ locked(t)
  /\ isFree(number[t], n) /\ number' = [number EXCEPT ![t] = n]
  /\ at' = [at EXCEPT ![t] = "start"]
  /\ UNCHANGED <<tasks, st, hasRes, stored, writers, first, again, isCreate, begun, named, counts>>

Writes(t) == writers' = [writers EXCEPT ![number[t]] = @ \union {t}]

\* Fetcher.Start opens the file, or creates it where there is none; Touch may
\* fail after it has.
Starts(t) ==
  /\ at[t] = "start"
  /\ \/ /\ Writes(t)
        /\ begun' = begun \union {t}
        /\ named' = IF isCreate[t] /\ t \in tasks THEN named \union {t} ELSE named
        /\ at' = [at EXCEPT ![t] = "save"]
        /\ UNCHANGED <<st, dupLock, fileFails>>
     \/ /\ Fails(t)
        /\ (~taken(number[t]) /\ Writes(t)) \/ UNCHANGED writers
        /\ UNCHANGED <<begun, named>>
  /\ UNCHANGED <<tasks, meta, stored, first, again, isCreate, fileCalls, fileStops>>

\* saveTask, also of a task that was deleted.
Saves(t) ==
  /\ at[t] = "save"
  /\ stored' = [stored EXCEPT ![t] = recordOf(t)]
  /\ Leaves(t)
  /\ UNCHANGED <<tasks, st, meta, writers, first, again, isCreate, begun, named, counts>>

----------------------------------------------------------------------------
(* The watcher, and a restart *)

Finishes(t) ==
  /\ t \in tasks \cap begun /\ st[t] = "running"
  /\ st' = [st EXCEPT ![t] = "done"]
  /\ stored' = [stored EXCEPT ![t] = [recordOf(t) EXCEPT !.st = "done"]]
  /\ UNCHANGED <<tasks, meta, writers, handlers, begun, named, counts>>

Breaks(t) ==
  /\ t \in tasks \cap begun /\ st[t] = "running"
  /\ fileFails < MaxFileFails /\ fileFails' = fileFails + 1
  /\ st' = [st EXCEPT ![t] = "error"]
  /\ UNCHANGED <<tasks, meta, stored, writers, handlers, begun, named, fileCalls, fileStops>>

\* The program ends at any point and is started again: Setup, and
\* cleanupNonExistingTasks where it is turned on.
Restart == \E clean \in BOOLEAN :
  /\ fileStops < MaxFileStops /\ fileStops' = fileStops + 1
  /\ tasks' = {t \in FileTasks : stored[t] # NoRecord
                 /\ ~(clean /\ stored[t].hasRes /\ ~taken(stored[t].number))}
  /\ stored' = [t \in FileTasks |-> IF t \in tasks' THEN stored[t] ELSE NoRecord]
  /\ st' = [t \in FileTasks |->
       IF t \in tasks' /\ stored[t].st \notin {"done", "error"} THEN "pause"
       ELSE IF t \in tasks' THEN stored[t].st ELSE st[t]]
  /\ hasRes' = [t \in FileTasks |-> IF t \in tasks' THEN stored[t].hasRes ELSE hasRes[t]]
  /\ number' = [t \in FileTasks |-> IF t \in tasks' THEN stored[t].number ELSE number[t]]
  /\ named' = {t \in named \cap tasks' : stored[t].number = number[t]}
  /\ first' = {} /\ again' = [t \in FileTasks |-> 0] /\ begun' = {}
  /\ at' = [t \in FileTasks |-> "free"] /\ dupLock' = {}
  /\ UNCHANGED <<writers, isCreate, fileCalls, fileFails>>

----------------------------------------------------------------------------
Init ==
  /\ tasks = {} /\ st = [t \in FileTasks |-> "new"]
  /\ hasRes = [t \in FileTasks |-> t \in Resolved] /\ number = [t \in FileTasks |-> 0]
  /\ stored = [t \in FileTasks |-> NoRecord]
  /\ \E old \in {{}, {User}} : writers = [k \in Numbers |-> IF k = 0 THEN old ELSE {}]
  /\ first = {} /\ again = [t \in FileTasks |-> 0]
  /\ at = [t \in FileTasks |-> "free"] /\ isCreate = [t \in FileTasks |-> FALSE]
  /\ dupLock = {} /\ begun = {} /\ named = {}
  /\ fileCalls = 0 /\ fileFails = 0 /\ fileStops = 0

Call(t) == Create(t) \/ Pause(t) \/ Continue(t) \/ Delete(t)
Handler(t) == Takes(t) \/ Resolves(t) \/ FindsName(t) \/ Starts(t) \/ Saves(t)

Next ==
  \/ \E t \in FileTasks : Call(t) \/ Offer(t) \/ Handler(t) \/ Finishes(t) \/ Breaks(t)
  \/ Restart

Spec == Init /\ [][Next]_fileVars

----------------------------------------------------------------------------
(* Properties *)

Records == [st : {"ready", "wait", "running", "pause", "error", "done"}, hasRes : BOOLEAN,
            number : Numbers]

\* Every variable has its type.
TypeOK ==
  /\ tasks \subseteq FileTasks /\ named \subseteq tasks /\ begun \subseteq FileTasks
  /\ st \in [FileTasks -> {"new", "wait", "running", "pause", "error", "done"}]
  /\ number \in [FileTasks -> Numbers] /\ hasRes \in [FileTasks -> BOOLEAN]
  /\ stored \in [FileTasks -> Records \union {NoRecord}]
  /\ writers \in [Numbers -> SUBSET (FileTasks \union {User})]
  /\ first \subseteq FileTasks /\ again \in [FileTasks -> Nat]
  /\ isCreate \in [FileTasks -> BOOLEAN]
  /\ at \in [FileTasks -> {"free", "resolve", "name", "start", "save"}]
  /\ dupLock \subseteq FileTasks

owners(k) == {t \in writers[k] \cap named : number[t] = k} \union (writers[k] \cap {User})

\* Tasks whose name was looked for have files of their own, also after pauses,
\* failures and restarts, and none of them is a file that was there before:
\* no two handlers are between the search and the opening of the file.
NamedApart == \A k \in Numbers : \A x, y \in owners(k) : x = y

\* What makes it inductive.  The lock is held from the search to the end of the
\* handler; nobody who was named has the file that was found to be missing;
\* a named task has written its file; a task is looked up once, before it is named.
searching(t) == at[t] \in {"resolve", "name", "start", "save"} /\ isCreate[t]

LockKept == \A t \in FileTasks : searching(t) /\ at[t] \in {"start", "save"} => dupLock = {t}
FoundFree == \A t \in FileTasks : searching(t) /\ at[t] = "start" => owners(number[t]) = {}
NamedWrote == \A t \in named : t \in writers[number[t]]
NamedLater == \A t \in named : t \notin first /\ (searching(t) => at[t] = "save")
OneSearch == \A t \in FileTasks :
  (t \in first => ~searching(t)) /\ (at[t] = "name" => isCreate[t])
NewIsIdle == \A t \in FileTasks :
  st[t] = "new" => t \notin tasks /\ t \notin first /\ again[t] = 0 /\ at[t] = "free"

FInv == /\ TypeOK /\ LockKept /\ FoundFree /\ NamedWrote /\ NamedLater /\ OneSearch /\ NewIsIdle
        /\ NamedApart

\* No file is written by two tasks, or by a task where there was one before.
OneFileEach == \A k \in Numbers : \A x, y \in writers[k] : x = y

\* To delete a task with its file removes no file the task has not written.
RemovesOwn == [][\A t \in tasks \ tasks', k \in Numbers :
  taken(k) /\ ~taken(k)' => t \in writers[k]]_fileVars

==============================================================================
