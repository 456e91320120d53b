------------------------------- MODULE MultiPart -------------------------------
(***************************************************************************)
(* Extraction of archives that come in parts (pkg/download/downloader.go,  *)
(* extract.go).  Each part is a task; the watcher of a part that is done   *)
(* asks whether all the parts are, and the last one claims the extraction  *)
(* for the archive.  The queue behind it runs one job at a time            *)
(* (ExtractQueue).  A .rar is a part only while there is a .r00 next to    *)
(* it: before that it is extracted like an archive of its own.             *)
(***************************************************************************)
EXTENDS Integers, FiniteSets

CONSTANTS
  Parts,               \* the tasks
  Archive,             \* the archive each is a part of: directory and base name
  Title,               \* the base name of an archive, without its directory
  Lead, Second,        \* each archive's first part; "" or the .r00 of an old style RAR
  Deletable,           \* the tasks clients delete
  MaxDeletes, MaxStops \* bounds

VARIABLES
  queuedTasks, dl, disk, \* d.tasks, task.Status, whether the file is there
  xstat, mbase,        \* Progress.ExtractStatus, MultiPartBaseName
  wpc,                 \* enqueueExtraction, run by the watcher of the part
  claims,              \* d.claimedExtractions
  jobs, job,           \* the queue's pending jobs; what its worker does
  delAfter,            \* DeleteAfterExtract
  fresh, tried,        \* history: parts finished since the last start; whole archives extracted
  deletes, stops

tasksVars == <<queuedTasks, dl, disk, deletes>>
shown == <<xstat, mbase>>
worker == <<claims, jobs, job>>
multiVars == <<tasksVars, shown, wpc, worker, delAfter, fresh, tried, stops>>

Archives == {Archive[t] : t \in Parts}
PartsOf(a) == {t \in Parts : Archive[t] = a}
NoJob == [t |-> "", kind |-> "none", at |-> "none", key |-> "", ok |-> FALSE]

\* getArchivePartInfo: old style RAR parts are told by what is on the disk.
isMultiPart(t) == Lead[Archive[t]] = t /\ Second[Archive[t]] # "" => disk[Second[Archive[t]]]

\* GetMultiPartArchiveBaseName
fullBaseName(t) == IF isMultiPart(t) THEN Archive[t] ELSE ""

----------------------------------------------------------------------------
(* Downloads *)

\* fetcher.Start creates the file.
Starts(t) ==
  /\ t \in queuedTasks /\ dl[t] = "ready"
  /\ dl' = [dl EXCEPT ![t] = "running"]
  /\ disk' = [disk EXCEPT ![t] = TRUE]
  /\ UNCHANGED <<queuedTasks, deletes, shown, wpc, worker, delAfter, fresh, tried, stops>>

\* watch: the task is done and goes on to enqueueExtraction.
Finishes(t) ==
  /\ t \in queuedTasks /\ dl[t] = "running" /\ wpc[t] = "off"
  /\ dl' = [dl EXCEPT ![t] = "done"]
  /\ wpc' = [wpc EXCEPT ![t] = "enqueue"]
  /\ fresh' = fresh \union {t}
  /\ UNCHANGED <<queuedTasks, disk, deletes, shown, worker, delAfter, tried, stops>>

Delete(t) ==
  /\ t \in queuedTasks \cap Deletable /\ deletes < MaxDeletes
  /\ queuedTasks' = queuedTasks \ {t} /\ deletes' = deletes + 1
  /\ \E force \in BOOLEAN : disk' = [disk EXCEPT ![t] = @ /\ ~force]
  /\ UNCHANGED <<dl, shown, wpc, worker, delAfter, fresh, tried, stops>>

\* The queue, the claims and the watchers are gone; the tasks were stored.
Restart ==
  /\ stops < MaxStops /\ stops' = stops + 1
  /\ dl' = [t \in Parts |-> IF dl[t] = "running" THEN "ready" ELSE dl[t]]
  /\ wpc' = [t \in Parts |-> "off"]
  /\ claims' = {} /\ jobs' = {} /\ job' = NoJob /\ fresh' = {}
  /\ UNCHANGED <<queuedTasks, disk, deletes, shown, delAfter, tried>>

----------------------------------------------------------------------------
(* The watcher of a part *)

newJob(t, kind) == [t |-> t, kind |-> kind, at |-> "begin", key |-> "", ok |-> FALSE]

enqueueSingleExtraction(t) ==
  /\ xstat' = [xstat EXCEPT ![t] = "queued"]
  /\ jobs' = jobs \union {newJob(t, "single")}
  /\ wpc' = [wpc EXCEPT ![t] = "off"]
  /\ UNCHANGED <<mbase, claims, job>>

Recognise(t) ==
  /\ wpc[t] = "enqueue"
  /\ IF isMultiPart(t)
     THEN /\ mbase' = [mbase EXCEPT ![t] = Title[Archive[t]]]
          /\ wpc' = [wpc EXCEPT ![t] = "check"]
          /\ UNCHANGED <<xstat, worker>>
     ELSE enqueueSingleExtraction(t)
  /\ UNCHANGED <<tasksVars, delAfter, fresh, tried, stops>>

\* Mutant of related: the tasks are told apart by the base name a part got when
\* it was done itself.
relatedByName(t) == {u \in queuedTasks : mbase[u] = mbase[t]}

\* checkAllMultiPartTasksDone, under d.lock.
related(t) ==
  {u \in queuedTasks : fullBaseName(t) # "" /\ fullBaseName(u) = fullBaseName(t)}

checkMultiPartArchiveReady(t) ==
  fullBaseName(t) = "" \/ (related(t) # {} /\ \A u \in related(t) : dl[u] = "done")

Check(t) ==
  /\ wpc[t] = "check"
  /\ wpc' = [wpc EXCEPT ![t] = IF checkMultiPartArchiveReady(t) THEN "claim" ELSE "wait"]
  /\ UNCHANGED <<tasksVars, shown, worker, delAfter, fresh, tried, stops>>

Waits(t) ==
  /\ wpc[t] = "wait"
  /\ xstat' = [xstat EXCEPT ![t] = "waitingParts"]
  /\ wpc' = [wpc EXCEPT ![t] = "off"]
  /\ UNCHANGED <<tasksVars, mbase, worker, delAfter, fresh, tried, stops>>

\* Mutant of claimed: the claim of another part is not looked at.
claimedByAll(key) == FALSE

claimed(key) == key \in claims

\* tryClaimMultiPartExtraction is one LoadOrStore.
Claim(t) ==
  /\ wpc[t] = "claim"
  /\ LET key == fullBaseName(t) IN
       IF claimed(key)
       THEN wpc' = [wpc EXCEPT ![t] = "handled"] /\ UNCHANGED <<xstat, claims, jobs>>
       ELSE /\ claims' = claims \union {key}
            /\ xstat' = [xstat EXCEPT ![t] = "queued"]
            /\ jobs' = jobs \union {newJob(t, "multi")}
            /\ wpc' = [wpc EXCEPT ![t] = "off"]
  /\ UNCHANGED <<tasksVars, mbase, job, delAfter, fresh, tried, stops>>

\* Another part does it: this one is done at once.
Handled(t) ==
  /\ wpc[t] = "handled"
  /\ xstat' = [xstat EXCEPT ![t] = "done"]
  /\ wpc' = [wpc EXCEPT ![t] = "off"]
  /\ UNCHANGED <<tasksVars, mbase, worker, delAfter, fresh, tried, stops>>

----------------------------------------------------------------------------
(* The worker of the queue *)

keyOf(j) == IF j.kind = "multi" THEN fullBaseName(Lead[Archive[j.t]]) ELSE ""

Begins(j) ==
  /\ job = NoJob /\ j \in jobs
  /\ jobs' = jobs \ {j}
  /\ job' = [j EXCEPT !.at = "extract", !.key = keyOf(j)]
  /\ xstat' = [xstat EXCEPT ![j.t] = "extracting"]
  /\ UNCHANGED <<tasksVars, mbase, wpc, claims, delAfter, fresh, tried, stops>>

whole(a) == \A t \in PartsOf(a) : disk[t] /\ dl[t] = "done"

\* A whole archive is extracted, unless its data or the disk is bad; a part of
\* one never is.
Extracts ==
  /\ job.at = "extract"
  /\ LET a == Archive[job.t]
         w == job.kind = "multi" /\ whole(a) IN
       /\ \E ok \in {FALSE, w} : job' = [job EXCEPT !.at = "result", !.ok = ok]
       /\ tried' = IF w THEN tried \union {a} ELSE tried
  /\ UNCHANGED <<tasksVars, shown, wpc, claims, jobs, delAfter, fresh, stops>>

\* collectMultiPartFiles: the numbered parts as far as they go without a gap.
collected(a) ==
  {t \in PartsOf(a) : disk[t] /\ (t = Lead[a] \/ Second[a] = "" \/ disk[Second[a]])}

\* handleExtractionResult
Results ==
  /\ job.at = "result"
  /\ xstat' = [xstat EXCEPT ![job.t] = IF job.ok THEN "done" ELSE "error"]
  /\ disk' = [t \in Parts |->
       disk[t] /\ ~(job.ok /\ delAfter /\ t \in collected(Archive[job.t]))]
  /\ job' = IF job.kind = "multi" THEN [job EXCEPT !.at = "update"] ELSE NoJob
  /\ UNCHANGED <<queuedTasks, dl, deletes, mbase, wpc, claims, jobs, delAfter, fresh, tried, stops>>

\* updateMultiPartTasksStatus, under d.lock.
Updates ==
  /\ job.at = "update"
  /\ xstat' = [t \in Parts |->
       IF t \in queuedTasks /\ t # job.t /\ mbase[t] = mbase[job.t]
       THEN IF job.ok THEN "done" ELSE "error"
       ELSE xstat[t]]
  /\ job' = [job EXCEPT !.at = "release"]
  /\ UNCHANGED <<tasksVars, mbase, wpc, claims, jobs, delAfter, fresh, tried, stops>>

Releases ==
  /\ job.at = "release"
  /\ claims' = claims \ {job.key}
  /\ job' = NoJob
  /\ UNCHANGED <<tasksVars, shown, wpc, jobs, delAfter, fresh, tried, stops>>

----------------------------------------------------------------------------
Init ==
  /\ queuedTasks = Parts /\ dl = [t \in Parts |-> "ready"] /\ disk = [t \in Parts |-> FALSE]
  /\ xstat = [t \in Parts |-> "none"] /\ mbase = [t \in Parts |-> ""]
  /\ wpc = [t \in Parts |-> "off"] /\ claims = {} /\ jobs = {} /\ job = NoJob
  /\ delAfter \in BOOLEAN /\ fresh = {} /\ tried = {} /\ deletes = 0 /\ stops = 0

WatchStep(t) == Recognise(t) \/ Check(t) \/ Waits(t) \/ Claim(t) \/ Handled(t)
WorkerStep == (\E j \in jobs : Begins(j)) \/ Extracts \/ Results \/ Updates \/ Releases

Next ==
  \/ \E t \in Parts : Starts(t) \/ Finishes(t) \/ Delete(t) \/ WatchStep(t)
  \/ WorkerStep \/ Restart

Fairness == WF_multiVars(WorkerStep) /\ \A t \in Parts : WF_multiVars(WatchStep(t))

Spec == Init /\ [][Next]_multiVars /\ Fairness

----------------------------------------------------------------------------
(* Properties *)

\* Every variable has its type.
TypeOK ==
  /\ queuedTasks \subseteq Parts /\ dl \in [Parts -> {"ready", "running", "done"}]
  /\ disk \in [Parts -> BOOLEAN]
  /\ xstat \in [Parts -> {"none", "queued", "extracting", "waitingParts", "done", "error"}]
  /\ wpc \in [Parts -> {"off", "enqueue", "check", "wait", "claim", "handled"}]
  /\ claims \subseteq Archives \union {""} /\ delAfter \in BOOLEAN
  /\ \A j \in jobs : j.t \in Parts /\ j.kind \in {"single", "multi"}
  /\ fresh \subseteq Parts /\ tried \subseteq Archives

working(a) == {j \in jobs \union {job} : j.kind = "multi" /\ Archive[j.t] = a}

\* However the parts finish, an archive that is whole is not in the queue twice:
\* no second extraction reads parts the first one is about to delete.
OneAtATime == \A a \in Archives : whole(a) => Cardinality(working(a)) <= 1

\* No archive is in the queue twice, whole or not.
ClaimedOnce == \A a \in Archives : Cardinality(working(a)) <= 1

complete(a) ==
  /\ PartsOf(a) \subseteq queuedTasks /\ fresh \cap PartsOf(a) # {}
  /\ \A t \in PartsOf(a) : dl[t] = "done"

\* When the last part of an archive is done, the archive is extracted with all
\* its parts there: whichever order they come in, also when some were done
\* before a restart, and though a .rar may have been taken for an archive.
WholeExtracted == \A a \in Archives : complete(a) ~> (a \in tried \/ ~complete(a))

\* Once nothing is under way, no part shows that it waits for parts that are done.
NoneWaitsForDone ==
  \A a \in Archives :
    (complete(a) /\ working(a) = {} /\ \A t \in PartsOf(a) : wpc[t] = "off")
      => \A t \in PartsOf(a) : xstat[t] # "waitingParts"

\* A part shows Done only when its own archive was extracted, or is being.
DoneIsOwn == \A t \in Parts :
  xstat[t] = "done" => Archive[t] \in tried \/ working(Archive[t]) # {}

----------------------------------------------------------------------------
(* The inductive invariant behind OneAtATime                                *)

\* The first part of an archive, and the .r00 of an old style RAR, are parts of it.
MultiConstants == \A a \in Archives :
  /\ a # "" /\ Lead[a] \in PartsOf(a)
  /\ Second[a] # "" => Second[a] \in PartsOf(a)

\* A part is deleted, or done and its file gone: the archive will never be whole.
Incomplete(a) == \E t \in PartsOf(a) :
  \/ t \notin queuedTasks /\ (dl[t] # "done" \/ ~disk[t])
  \/ dl[t] = "done" /\ ~disk[t]

JobRecords ==
  [t : Parts \union {""}, kind : {"single", "multi", "none"},
   at : {"none", "begin", "extract", "result", "update", "release"},
   key : Archives \union {""}, ok : BOOLEAN]

\* The jobs are records; those in the queue have not begun, the worker's has.
JobsFormed ==
  /\ jobs \subseteq JobRecords /\ job \in JobRecords
  /\ \A j \in jobs : j.at = "begin" /\ ~j.ok
  /\ job.at # "begin" /\ (job.kind = "none" \/ job.t \in Parts)

\* Of an archive that may become whole: a watcher has seen it as one of parts,
\* what it found when it checked stays so, and its one job holds its claim.
ClaimHeld ==
  /\ job.key # "" => job.kind = "multi" /\ job.key = Archive[job.t]
  /\ job.ok => \A t \in PartsOf(Archive[job.t]) : dl[t] = "done"
  /\ \A a \in Archives : ~Incomplete(a) =>
       /\ \A t \in PartsOf(a) : wpc[t] \in {"check", "claim"} => isMultiPart(t)
       /\ working(a) # {} => a \in claims
       /\ \A j, k \in working(a) : j = k

MultiInv == TypeOK /\ JobsFormed /\ ClaimHeld

==============================================================================
