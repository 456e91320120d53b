# Gopeed: a TLA+ verification of the download core

Gopeed (this fork adds a TorBox extension) is a download manager in Go: a
library, `pkg/download`, with protocol fetchers under `internal/protocol`, a
REST server in front of it and a Flutter interface that polls the server.  This
directory models the parts where goroutines meet: the HTTP fetcher with and
without ranges, the BitTorrent fetcher's life in the shared client, the
scheduler, what is stored of a task and survives a restart, the names of the
files, the extraction of archives and extensions.  TLC checks the models on
small instances; TLAPS proves, for every value of the constants, the safety
properties the runs check but two (section 4), under the conditions that are named with each.

    tlc -workers 2 -config HttpDownload_pause.cfg HttpDownload.tla
    tlc -workers 2 -config Parts.cfg MCParts.tla
    tlapm HttpDownloadProof.tla      # and HttpBytesProof, ExtractQueueProof, SchedulerProof,
                                 # TaskStoreProof, TaskFilesProof, PartsProof

`PROJECT.json` lists the components, the runs, a mutant of the code for every
property, the source lines of every definition, the findings, the hazards and
the theorems.

## 1. The system

A client (REST, the command line, a browser host, an extension's script) calls
the `Downloader`.  It keeps the tasks, decides which of them run, and gives each
a `Fetcher`.  The fetcher downloads with goroutines of its own and reports its
end through `Wait`.  A watcher goroutine per started task takes that report,
sets the status, runs extension hooks, scripts and webhooks, offers the free
slot to the next waiting task, and hands archives to the extraction queue.  A
ticker goroutine refreshes the progress and saves the running tasks.

| Component | State | Operations | Meets | Hard part | Correct when |
|---|---|---|---|---|---|
| HTTP fetcher, download phase (`internal/protocol/http/fetcher.go`) | connections with chunks and counters, slow-start counters, state, file, `doneCh`, prefetch file | Start, Pause, prefetch, connect, read, write, split, steal, retry, complete, Wait | scheduler (Start, Pause, Wait) | goroutines cut each other's chunks; failures in a batch; pause while writing; a second attempt while goroutines of the first are around | no byte fetched twice or lost; Done only with a whole file; Pause really stops; a result is always reported |
| HTTP fetcher, without ranges or size: Resolve, redirects, Patch | the Resolve answer and its body, redirect URL, one connection, two download loops | Resolve, `runConnectionWithResolveResp`, `runConnectionFallback`, Pause, Patch | as above | the answer of Resolve is used once; a second answer starts at the first byte | a URL is asked once; Done only with a whole file; every run ends |
| HTTP stored state (`fetcher_manager.go`) | snapshot of the connections | Store, Restore | `saveTask` | snapshot without `connMu` | what is restored never runs ahead of the file |
| Names of files (`doStart`, `path.go`) | `Meta.Opts.Name`, `checkDuplicateLock`, the files of a directory | search for a free name, open or create, force delete, clean-up | scheduler, HTTP fetcher | the search and the creation are apart; only a first start searches | no two tasks write one file |
| Task scheduler (`pkg/download/downloader.go`, `model.go`) | `tasks`, `waitTasks`, `Status` of each task, `watchedTasks`, `MaxRunning`; locks `d.lock`, `statusLock`, `task.lock` | Create, Pause, Continue, ContinueBatch, Delete (some or all), PutConfig, notifyRunning, start and pause handlers, watch, tick | fetchers, storage, queue, extensions | several locks in different orders, statuses read outside them, watchers that overlap | limit respected, deleted and paused tasks stay so, no slot is left free, every end is noticed |
| Task persistence (`storage.go`, `saveTask`, `restoreFetcher`, `Setup`) | buckets task and save | Put, Get, Pop, Delete, Close | scheduler, fetchers | crash between Pop and the next save; two transactions; save after delete | a restart has every task, and none that was deleted, and resumes from what is in the file |
| Extraction queue (`extract_queue.go`) | `jobs`, `running`, `shutdown`, WaitGroup, condition | Start, Stop, Enqueue, EnqueueAndWait, RemovePendingJob, worker | watchers, REST | Start against Stop; who closes a job's channel | one at a time, in order, each released once; Stop stops, callers return |
| Multi-part extraction (`downloader.go` 1385-1725) | claims, extract status of each part | enqueue, claim, perform, update the others | watchers, queue | parts that end together | extracted once, after all parts |
| BitTorrent fetcher (`internal/protocol/bt`) | a global client and its count, torrents, upload | Start, Pause, Patch, Stats, Wait, seeder, WaitUpload, Close | scheduler | Close twice, uploads while closing, callers before there is a torrent | Wait means complete; Delete and all that waits for it end |
| Extensions (`extension.go`, `engine`) | installed extensions, their records and storage | install, upgrade, settings, switch, delete, hooks | scheduler (hooks call Continue) | a list without a lock; read-modify-write of the storage | the user's settings stay; what is stored is what is shown |
| Pure functions (`pkg/util`, `pkg/base`, file names) | none | CheckDuplicateAndRename, matcher, CalcSize, merge | all | boundaries | agree with a reference |
| Entry points and shells (REST, `cmd`, `bind`, Flutter, webhooks, scripts, logger, test helpers) | little | forward calls | Downloader | none of their own | - |

The list with sources and the reason for each omission is in
`PROJECT.json` under `components`; the hazards, each at its line, under
`hazards`.

## 2. Modules

| Module | Models |
|---|---|
| `HttpDownload` | download phase of the HTTP fetcher for a resource with ranges |
| `HttpDownloadProof` | theorems about it |
| `HttpBytesProof` | further theorems about it: the open file, the bytes, the counters, Done |
| `HttpSingle` | the HTTP fetcher without ranges or size: Resolve, the body it leaves open, fallback requests |
| `ExtractSpec` | what the extraction queue promises: the abstract specification |
| `ExtractQueue`, `MCExtractQueue` | the extraction queue; `Implements` maps it to `ExtractSpec` |
| `ExtractQueueProof` | theorems about it, the refinement included |
| `MultiPart` | archives in parts: check, claim, extraction, status |
| `Scheduler`, `MCScheduler` | the task scheduler |
| `SchedulerProof` | theorems about it |
| `TaskStore` | records and saved states, with crash, restart and Close |
| `TaskStoreProof` | theorems about it |
| `TaskFiles` | which file a task writes |
| `TaskFilesProof` | theorems about it |
| `BtFetcher` | the BitTorrent fetcher and the shared client |
| `Extensions` | extensions, their records, triggers and storage |
| `MCParts` | `HttpSingle`, `MultiPart`, `BtFetcher`, `Extensions`, `TaskFiles` side by side |
| `PartsProof` | theorems about the five |

`MCParts` has the variables of five components and, in each behaviour, lets one of
them move (`part`, chosen in Init from `Components`) while the others stay in one initial state.
They share no state, so this is the same as five runs; the instances of the modules
and the values of their constants are in one place, and a configuration chooses
the components it is about.  `TaskFiles` is extended, the others are instances;
the properties are those of the modules, by name.

The seams between modules are the same calls seen from both sides: `Scheduler`
starts a fetcher and takes its end, `TaskStore` the same with the bytes that are written, counted
and saved, `TaskFiles` with the file that is opened; `HttpDownload`, `HttpSingle` and `BtFetcher`
are what is behind Start, Pause and Wait; `MultiPart` begins where the watcher
has set Done and uses the queue as `ExtractSpec` promises it: one job at a time.

### 2.1 HttpDownload

One action is one critical section of one goroutine, or one step outside a
lock.  The goroutines are the connections (`pc[c]`: request, await, read, write,
account, help, backoff), the download loop (`loop`), the extra waiter that
`expandConnections` spawns in every attempt (`extra[a]`), the prefetch, the
caller of Start or Pause (`op`; the downloader holds `task.lock` around both, so
there is one at a time) and the watcher in `Wait`.  `begin`, `end`, `got`
are `Chunk.Begin`, `Chunk.End`, `Chunk.Downloaded`; `total` is
`connection.Downloaded`; `spos` and `send` are the range a connection asked for and `hand` the bytes
it has read but not entered into the counters: between `read` and
`account` every other goroutine may cut the chunk, which is where the hard
cases are.  `launched`, `pending`, `ready`, `batch`, `expCh` are the slow-start
controller.  `written` is a set of file offsets, so that a byte that was only counted
differs from one that is in the file.  A sum over the connections (`SumOver`) is
the size of a set with as many elements as each connection has units, which the
library's theorems about finite sets speak of; a fold they do not.

Abstractions.  Bytes have no value.  A connection chooses among all the
connections that may be robbed, not the slowest one, and may stop helping
although a victim exists (the code compares estimated times, which the model does not
have); this allows more behaviours.  The update of the connection after an
answer and the call of the slow-start controller are one step; the end of the loop is two, the send
on `doneCh` and the deferred close of `downloadLoopDone` (`LoopCloses`).  A read finds as many bytes
as `Arrivals` says or what is left.  `ResetForRetry` is what a Start after an error does,
`StartFails` the return when the file cannot be opened.  Not modelled: a
server that answers 200 to a range request, the late goroutine of the
time-out reader, a Start on a fetcher that is running, Patch.  `WaitersDrain`
says that the extra waiter of an attempt is gone when the next Start comes:
`HttpDownload_reuse.cfg` shows what happens otherwise; `IInv` is proved without it,
and the other runs ask about the rest of the code with it.

### 2.2 ExtractQueue

One action is one critical section of `q.mu`, or a step outside it: Start is
two of them (`StartCalled`, then `Launch` for `wg.Add` and the `go`), Stop three
(set shutdown, find the WaitGroup above zero or not, be released).  `wg` has the semantics of
`sync.WaitGroup`.  `Signal` wakes some waiting worker.  `said` is a
history variable: what the last call of Start or Stop to return has promised;
`done` is the set of closed channels, `ran` the jobs that were executed.  A job is
enqueued once, as in the code, where each job is new.  `Implements` maps the
worker's job to `current`, `ran \cap done` to the abstract `ran`, and
`done \ ran` to `dropped`.

### 2.3 Scheduler

`d.lock` and each `statusLock` are variables that name their holder; what the
code reads or writes without them is an action of its own.  `statusMut`
is split into the test and the assignment, because the watcher and Continue
write `Status` without `statusLock`.  A call of the API is a record: its place `pc`, the
tasks still `todo`, those left over (`rest`), and for Continue what it is
going through (`scan`, `need`).  `starts`, `pauses`, `failing`, `spawned`
count goroutines that were begun and have not run; `watched` is the goroutine
registered in `watchedTasks`.  A fetcher is idle, active, done or failed, with
the result in `doneCh`; the start and pause handlers take `task.lock` in any
order.  The notifier stands for the `notifyRunning` goroutine that has `d.lock`.
The order of a queue after a filter (`entries`, `without`) is given by the ranks
of the positions that stay, without recursion, so that it can be proved about.

`pauseAll` empties the queue under `d.lock` and ranges over `d.tasks` without it.  `walk[c]`
is the array such a range looks at: `shared` as long as `d.tasks` has the same one, so that an
append of Create writes into it (or moves the list to a new one) and the `append` of Delete
moves the tasks behind the deleted one up by a place.  `missed` remembers that this has
happened under a `pauseAll`.  The slice header is read in one step: that its three words
race with a writer is not modelled.  Delete takes the tasks of its filter out of both lists one by one, with
`d.lock` held.

`Restored` are the tasks Setup has loaded: they have no fetcher until `doStart` restores it,
which may fail (`StartFails`: the task is out of the queue and keeps its status), as a Delete may
(`DeleteFails`: it returns without `notifyRunning`).  doPause returns no error, so the
early return of Pause after it is never taken.  `Uploads` are the tasks whose fetcher uploads:
the ticker takes their `statusLock` whatever their status is.

Abstractions.  An upload does not end.  What is stored, Resolve and
Patch are left out.  The filter of
`GetTasksByFilter` and the section of `d.lock` that follows it in Continue and
Delete are separate, as in the code.  A hook of an extension that calls Continue is
one more client.

### 2.4 HttpSingle

The fetcher for a resource without ranges, or with ranges and no size: one
connection (`cpc`, with its state, retries and last error), the download loop of
the current attempt and the one of the attempt before (`loop`), the waiters
`expandConnections` may leave (`spare`), and the caller.  `body` is the answer of Resolve while it is
open, `mode` what the connection reads: that body, a fallback request that
starts at the first byte, or a resume.  `right` is the set of offsets
that hold the right byte, `over` bytes past the end: so a second answer that is
written behind what the first one left shows.  `redir` is the URL that a
redirect led to, which may expire.  `broken` remembers that an answer broke off, was
refused with 403 or was joined to the bytes of an earlier one, the exceptions of `WholeUnlessBroken`; nothing
else sets it.  A resource with ranges but no size that is resumed asks for the chunk 0-0 and is done with one byte:
that case is `ResumedWhole`, which does not hold.  `RetryWaits` and `SpareDrains` say that a Start finds
no download loop and no waiter of the attempt before.
Failures are those of `shouldCountHTTPFailure`: refused (403), counted,
transient.

### 2.5 MultiPart

A task per part; an archive is a directory and a base name.  `wpc[t]` is the
watcher of a part in `enqueueExtraction`: recognise the part, check the others,
wait or claim.  `isMultiPart` reads the disk, as `getArchivePartInfo` does: a
`.rar` is a part only while there is a `.r00` next to it.  The worker performs a
job in steps: collect the files, extract (and delete the parts, if so
configured), store the result, update the other parts by the base name they
have, release the claim.  A restart drops the queue and the claims.  The
instance has an old style RAR of two or three parts and a part of that base name in
another directory.

### 2.6 TaskStore

The record of each task (`rec`, `recRes`), its saved state (`sav`: the bytes its
fetcher counts), the target file (`file`: the bytes in it) and the memory.  A transaction of
the storage is one step; `saveTask` is two.  The goroutines are the handlers of
Start and Pause (in any order, under `task.lock`), the watcher, the ticker, the
clients.  `Crash` may come anywhere, `Close` is the orderly end; `Setup`
loads what there is, and `cleans` turns on the removal of tasks whose file is missing.
Stats and Patch look for the fetcher (`Look`) and restore it later (`LookPops`): a fetcher
that was restored and started in between is replaced and joins the task's `orphans`, which write
and end on their own, and the watcher may be waiting for one of them.
`kept` is what `saveTask` stored last, `gone` the tasks whose Delete has returned.  Bytes are a count: the
state of a fetcher with several connections is one number here.

### 2.7 TaskFiles

All tasks want one name in one directory.  Number 0 is the name as it came, k is
"name (k)"; `writers[k]` says who wrote the file of that number, `{}` that there is none.
The handler of a start takes `task.lock`, resolves, searches for a free name
under `checkDuplicateLock` if the status was Ready (`isCreate`), opens or
creates the file, and saves; each is a step, and the lock of the search is kept until the
handler ends.  Waiting, failed, paused and restarted tasks start without a
search, with the name they have.  `doDelete` with force removes the file by its
path.  `named` are the tasks whose name was searched for and whose file was
opened.  Torrents are never renamed and are left out, as are errors of stat and files that
other programs create or remove while the program runs; the saves of the ticker and of Pause
are `TaskStore`'s.

### 2.8 BtFetcher

The global client and the torrents in it; per task the goroutine that starts or
uploads (`starter`, under `task.lock`), `Wait`, the seeder of `doUpload`,
`WaitUpload`, and `Close`, which Delete and the seeder may both be in: drop the
torrent, send the token of the upload, lower the count, close the client.  A
torrent gets its info and its files at any time, or never.  A nil torrent or
client that is used is a panic (`dead`): the program ends.  Trackers, the close
of the manager at the end of the program and the library itself are not modelled.

### 2.9 Extensions

The list of extensions as the Go slice it is (`array`, `size`: Delete shifts the
backing array under a trigger that ranges over it, and an append after a delete
writes into the same array), each extension in memory
and its record, its folder, the keys its scripts store.  Calls change memory and then
the record.  A trigger walks over the list; each script registers a
handler or not, a handler reads all keys, changes one and writes all.  A
manifest is the types of its settings; three versions add a setting and change a
type.  Fetching from git and the development mode are left out.

## 3. Runs

Safety is checked under `Spec` or `FairSpec`, liveness under `FairSpec`.
Deadlock is not checked: a download ends, an idle queue waits for a job, an idle scheduler for a call, and the bounds stop the rest.

| Run | Shows |
|---|---|
| `HttpDownload_pause` | two pauses, three starts, a failure: file open while anything runs, chunks disjoint, a paused fetcher is quiet; `IInv` and `BytesInv` are invariants |
| `HttpDownload_finish` | three connections, the second and third in one batch, a 403 at any point, a prefetch up to the whole resource: it joins without a gap and is counted, and a run never gets stuck (`RunGoesOn`) but for a 403 that is the last answer of a batch |
| `ExtractQueue_any` | two goroutines do anything, three workers in a row: `QInv`, channels closed once, Stop stops, refinement of `ExtractSpec` |
| `ExtractQueue_live` | one goroutine controls, both use: EnqueueAndWait and Stop return, Start leaves a worker |
| `Scheduler_slots` | three tasks, two clients, calls on single tasks: the limit holds, a deleted task never starts, who waits is queued, a free slot is about to be offered, unless a Delete fails |
| `Scheduler_any` | every call by two clients, loaded tasks, a failing call: a waiting task is in the wait queue or ahead of a `pauseAll`, unless a Delete moves the list under it |
| `Scheduler_live` | two clients, a failing download and the ticker, which takes its locks for ever: waiting tasks get their turn, unless a running task has lost its download (`Stalled`) |
| `TaskStore_crash` | two clients, handlers, watcher, ticker, crashes: deleted stays deleted, the store never runs ahead of the file, a running task is saved; `StoreInv` is an invariant |
| `Parts` | the safety of five components. HttpSingle: one request, Done means whole but for named exceptions. MultiPart: an archive is not in the queue twice. BtFetcher: Wait means complete. Extensions: the user's values stay, the storage has what is shown. TaskFiles: tasks that were looked up have files of their own |
| `PartsLive` | under fairness: a download without ranges ends and Pause returns; the last part gets its archive extracted; Delete of a torrent ends although the seeder closes it too |

### Where the code differs from what it says

Each line is a configuration that checks one property, which TLC finds violated
by what the code does.  The two in bold are runs of
`PROJECT.json` with the quoted lines under `findings`; the others are kept as
reproductions (with several properties, `-continue` shows each; `tlc -config <name>.cfg <module>`: the module is the name before the underscore,
`MCExtractQueue` for `ExtractQueue`, `MCParts` for `Parts`).

| Run | What happens | Against |
|---|---|---|
| **`HttpDownload_403`** | a connection refused for good keeps a chunk nobody takes over; completion skips it and reports Done | the comment that the others completed the work |
| `HttpDownload_lostprefetch` | Pause before the first Start removes the prefetched bytes and keeps their count | the comment that Start reuses them |
| `HttpDownload_reuse` | a WaitGroup with two waiters is used again before both have returned | the comment that one goroutine waits at a time |
| `HttpDownload_stale` | both waiters send the error; the watcher of the retry takes the second one | the comment on draining `doneCh` |
| `HttpDownload_stall` | one connection of a batch succeeds, the other is refused with 403 last: `batchPending` stays above zero, the loop is not signalled and waits for ever (`BatchSignals`) | the comment that the last answer, success or failure, triggers the expansion |
| `ExtractQueue_race` | Stop returns between the two halves of a Start; the next Start finds `running` set and returns, and the first one's worker leaves at once | the comment on Start |
| `ExtractQueue_stop` | Start between the worker's last section and `wg.Done` makes Stop wait for the new worker | the comment on Stop |
| `Scheduler_overrun` | Continue counts under `d.lock` and starts after it | the comment on the count |
| `Scheduler_config` | a negative number of free slots is not zero | the comment on MaxRunning |
| `Scheduler_paused` | a waiting task that is paused stays in the wait queue and starts | the test of Pause |
| `Scheduler_lockorder` | Continue holds `d.lock` and wants `statusLock`, the ticker the reverse | the comment on Continue |
| `Scheduler_skipped` | a Delete moves the list while `pauseAll`, which has emptied the queue, ranges over it: a waiting task is skipped and is in no queue (`NoneMissed`) | `pauseAll` pauses all tasks |
| `Scheduler_live` with `Uploads = {t1, t2}` | the ticker holds `statusLock` of a waiting or ready task that uploads and wants `d.lock`, notifyRunning or doCreate the reverse: both wait for ever (`WaitServed`) | a waiting task gets its turn |
| `Scheduler_lostwatch` | a watcher in the error hooks keeps the next attempt's watcher out | the test of the error hook (`EndNoticed`) |
| **`HttpSingle_cut`** | the body of the Resolve answer breaks off in the first Start: no connection counts as failed, none asks again, Done with part of the file (`DoneMeansWhole`) | the comment that the failure is transient |
| `HttpSingle_loops` | with a retry while the loop of the failed attempt is still there, its deferred close closes the new attempt's channel, which is then closed twice (`LoopClosedOnce`) | Go's rule: a panic |
| | a waiter left over from the first attempt wakes in the second, finds its context alive and sets Done on an empty file (`WholeUnlessBroken`) | Done means downloaded |
| | a resource with ranges and no size is resumed with `bytes=0-0`: Done after one byte (`ResumedWhole`) | Done means downloaded |
| `TaskFiles_wait` | a task that had to wait starts as not created, without the search for a name, and writes into another's file (`OneFileEach`) | the comments on renaming |
| `TaskFiles_remove` | a forced delete of a task that has written nothing removes the file of its path, another's (`RemovesOwn`) | a delete removes the task's own file |
| `TaskStore_replaced` | Patch or Stats looks for the fetcher without a lock; Continue restores and starts one; it is then replaced by another and downloads on, unseen (`NoneReplaced`) | the comment that it is restored if not loaded |
| `TaskStore_stats` | after a restart Stats of a paused task pops its saved state, nothing stores it again, a crash loses the progress (`ProgressKept`) | the comment on when progress is stored |
| `TaskStore_deleted` | a handler, the ticker or the watcher saves after Delete: the task is back after a restart (`DeletedStaysDeleted`) | the ticker's comment "check if task is deleted" |
| `Parts_twice` | an extraction claimed under an empty name, because the `.r00` went between the check and the claim (`ClaimedOnce`) | one claim per archive |
| | a part's watcher writes "waiting for parts" after the extraction has updated it (`NoneWaitsForDone`) | what is shown |
| `Parts_dirs` | the update after an extraction compares base names without the directory (`DoneIsOwn`) | the full path its own test uses |
| `BtFetcher_orphan` | Delete before AddTorrent: the torrent stays in the client (`NoOrphan`) | a deleted task downloads nothing |
| | Pause of a waiting task, Delete of a fetcher without client, two deletes, Progress during Patch use nil (`NoPanic`) | a panic |
| `BtFetcher_empty` | Patch with no file selected: Wait returns at once (`WaitMeansComplete`) | Done means downloaded |
| `BtFetcher_patched` | the seeder has reached its ratio with one selection; Patch selects other files before the torrent is dropped; Wait sees it dropped and returns (`WaitMeansComplete`) | Done means downloaded |
| `Parts_handler` | two triggers share the event object: a handler runs as another extension (`OwnHandler`) | the extension's own context |
| | the error of a later extension replaces the MessageError of an earlier one (`MessageReturned`) | the comment that only a MessageError is returned |
| `Parts_keys` | two scripts read, change and write all keys (`KeysKept`) | an update is lost |
| `Parts_switch` | Switch reads an extension before Delete and stores it after (`SavedAsShown`) | what was deleted stays deleted |

The passing runs
leave out what these show to break the property at hand: 403
answers and left-over waiters in the runs about completeness, a pause before
the first Start of a prefetched download, a second controller in
`ExtractQueue_live`, Continue and PutConfig in `Scheduler_slots` and `Scheduler_live`, uploads in
`Scheduler_live`.  Where the run itself meets the case, the property names it: `RunGoesOn` a
batch that ends in a 403 (`RefusedLast`); `WaitQueued` a Delete under `pauseAll` (`missed`) and a task that
could not be read; `SlotNoticed` a Delete that failed; `WaitServed` these and a `Stalled` task: Pause
set its status before a start did, and their goroutines ran the other way round, so that it is running with a
fetcher that Pause has stopped, and nobody frees its slot.  Where a fault stands as a number (`errors = 0`)
it is because the code does not repair what the fault leaves behind.
In `TaskStore_crash` and `Parts` the conditions are constants, each with its counterexample above:
`DeleteAtRest` (clients delete a task for which no handler, ticker or watcher is about to
save), `RetryWaits` and `SpareDrains` (a Start finds the loop, and the waiter, of the failed attempt gone;
`PartsLive` is checked without the second), `Alone` (install and delete of an
extension are not called while another call is under way), `EarlyPatch = FALSE`
(Patch comes after the info of the torrent) and one value of `Selections`, not empty (Patch selects a
file, and the same files each time),
`OwnDeletes` (a file is removed only for the one task that wrote it).  Without
a condition the property fails as shown; with it everything else, crashes and
failures included, is explored.

### Bounds

`Size` 7 or 8, `Buf` 1, `StealMin` 3 give two connections with chunks long
enough to split and to steal from and to end within a read (a third may be launched and
finds nothing to split); the source has 512 KiB against 8 KiB, and the assumption
`StealMin >= 2 * Buf + 1` is all the proofs need of it.  `HttpDownload_finish` has `Size` 21, `Buf` 2,
`StealMin` 5 and three connections, so that the second batch is of two and a refusal may be its
last answer; every read there finds a full buffer or what is left (`Arrivals` = {2}): 2.7 million states.
`MaxFaults`, `MaxStarts`, `MaxPauses` and `PrefetchMax` limit failures, attempts, pauses and the prefetch;
`HttpDownload_finish` prefetches all of the resource.  Three counted failures of one connection, which
end an attempt in an error, are more than these instances have; the proofs have no bound on them.  `MaxStarts` (queue) limits the workers of a
behaviour.  `Tasks` (2 or 3), `Clients` (1 or 2), `MaxCalls` (3 or 4),
`MaxFails`, `MaxErrors` and `Batch` limit the scheduler; with one slot, two tasks make one
wait, and a third shows a slot offered to the wrong one.  `Scheduler_any` has two loaded tasks and a new one,
two clients with a call each: one ranges over the list while the other appends to it or deletes from it.  Tasks and clients are
interchangeable, so the safety runs use symmetry; the live run does not.
The bounds are guards of calls and failures, never of steps that finish something.

`TaskStore_crash`: one task of two bytes (a second would share only the database), two
clients, so that one looks for a fetcher while the other restores it, three calls, two
restarts and a failure: 900 000 states in a minute.

`Parts`: two bytes and three faults
of all kinds, two starts and a pause (HttpSingle, `Retries` 2: one failure is
repeated, the second is final); three parts of an archive, one of them deletable, and a restart
(MultiPart: the first part, the one that makes it a part, and one more); two torrents in the client,
so that one may be the last (BtFetcher); two extensions, of which one registers
a handler, two callers and a trigger (Extensions); two tasks, one created with
the answer of Resolve, one slot, so that one waits, and a file that may have been there before (TaskFiles; four
calls, a failure and a restart).  900 000 states in a minute and a half.  `PartsLive` has
one fault and two calls: 104 000 states, with the temporal check a minute and a half.

### Fairness

HttpDownload states no fairness: that a run ends needs that some goroutine can go on and
that it does, and the first half is where the code can be wrong, an invariant (`RunGoesOn`: ENABLED of a
step of the loop, the connections, the waiters or Pause).  ExtractQueue: weak fairness of workers and of callers inside a
call; an extraction ends.  Scheduler: strong fairness of the step of some goroutine
under way and of the ticker's release of its locks.  It is strong because the
ticker takes its locks for ever and a Go mutex lets a waiter through; it is
asked of the goroutines together, which is less than of each.  API calls are
not fair; downloads end.  HttpSingle: weak fairness of the connection (a request and a read
end, by success or failure), of the loops and of the caller inside a call.
MultiPart: weak fairness of each watcher and of the worker.  BtFetcher: weak fairness of
Close, Wait and WaitUpload only: that the torrent library ever finds a peer, or that a seeder reaches its
ratio, is not assumed.  TaskStore, Extensions and TaskFiles state safety only.

## 4. Proofs

Checked by `tlapm`, for every value of the constants that satisfies the assumptions.
`ConstantsOK`, `StealLeavesABuffer`, `QueueConstants`, `SchedulerConstants` and
`FileConstants` are ASSUMEs: sizes and limits are numbers, sets are finite, and TLC
evaluates them in the runs.  A condition on what the environment does stands in the
theorem itself, and each has a reproduction in section 3 that shows the property to
fail without it.  In most components the property that matters is not inductive; the
strengthening is defined beside it, in its module, and said in one paragraph here.

**HttpDownload** (`HttpDownloadProof`).  `Invariance`: `Spec => []IInv`.  That
chunks are disjoint is not inductive: it needs that the bytes in hand fit the
chunk, or an update of the counters would move its beginning past its end; that
in turn needs that a split or a steal leaves the victim at least one buffer
(`StealLeavesABuffer`); that new connections of a batch have nothing in hand;
and that a slot not used yet is blank.  `Quiet` ties the loop, the caller
and the connections, for the quiet of a paused fetcher.  One lemma per action shows
that it preserves the parts it can disturb.  From `IInv`: `TypeCorrect`,
`ChunksStayDisjoint`, `InFlightStaysInside`, `LaunchedCounted` and
`PauseIsQuiet`, an action property.

`HttpBytesProof` adds four invariants to it.

- `FileStaysOpen`: `[]FileOpenWhileRunning` under `WaitersDrain`.  The file is closed by
  the loop when the WaitGroup is at zero, by Pause after it, and by a second waiter, which
  `WaitersIdle` keeps from meeting a loop that launches anything.
- `BytesInvariant`: `[]BytesInv` (an invariant of `HttpDownload_pause`), and from it
  `BytesAreKept`: `[]NoByteLost`.  An open file and a response that stands where the
  counters do (`InPlace`) make each write the right one; a byte leaves a chunk only
  when the counters pass it (`HandWritten`) or when the chunk is given up for a stolen
  one (`ChunkSpent`: nothing of it was left); before the first connection the bytes are
  the prefetch's (`PrefetchHeld`).  Assumed besides `WaitersDrain`: `PrefetchMax = 0` or
  `MaxPauses = 0`, see `HttpDownload_lostprefetch`.
- `CountsInvariant` and `CountersAddUp`: `[]Accounting`, bytes downloaded and bytes left
  are the size.  No condition: left-over waiters, lost prefetches and 403 answers do not
  disturb the counters, because a connection counts from where its request began
  and a cut moves what is left from one connection to another (`SumTake`, `SumSame`).
- `DoneIsComplete`: `[]DoneMeansComplete`.  The loop takes a download for complete when
  no connection runs and none has failed.  `EndInv` says who is gone: one whose chunk is
  spent, or one that has its retries and is counted as failed (`Ended`), or one that was
  cancelled, which the loop sees before it looks (`GoneEnded`); a second waiter carries the
  same knowledge (`WaitersEnded`).  With `NoByteLost` all bytes are then in the file.
  Assumed: no 403 among `Errors` (`HttpDownload_403` is the counterexample),
  `WaitersDrain` (`HttpDownload_reuse`) and the condition on the prefetch.

**ExtractQueue** (`ExtractQueueProof`).  `QueueInvariant`: `Spec => []QInv`.  A
channel is closed once because at most one worker is in its loop (`OneWorker`),
which depends on `running` staying set between the two halves of Start and
until the worker's last section.  `WgCounts` needs the cardinality of the set
of counted workers, which the lemmas about adding and removing one
provide.  `NeverClosedTwice`, `StopIsFinal` and `QueueTypes` follow.
`Implementation`: `Spec => Implements`, initial state to initial state, and every
step to a step of `ExtractSpec` or a stutter, under `QInv`.  `StartIsHeeded`: `[]StartWorks`,
if one goroutine calls Start and Stop (`OneController`, see `ExtractQueue_race`).  By
`StartInv` a queue that runs has a worker in its loop or a launch on its way, and one
that runs although it was shut down is being stopped; a second controller breaks it between the
halves of Start.

**Scheduler** (`SchedulerProof`).  `SchedulerInvariant`: `Spec => []SInv`, for every call of the API,
with `SchedulerTypes` and `WaitingIsQueued` (`[]WaitQueued`).  Every place that
takes a task from the queue, or sets one waiting, does it with `d.lock` held or has the task in its
hands (`InHand`); the lock is held by the thread that is in its section, and by no
other (`LockHeld`); a task is listed once (`ListedOnce`), so a filter by its ID takes all of
it; and the array a `pauseAll` ranges over is the list, or what was the list before it moved, as long as no Delete
moved the tasks in it (`WalkKept`), so whoever waited when the queue was emptied is still ahead of
it, and whoever waits since is in the queue.  The theorem says nothing of a Delete under `pauseAll`, which loses a task (`Scheduler_skipped`), nor of a
task that could not be read.  The other three leave calls out, which the reproductions show to break them:

- `DeletedStaysStopped`: `DeletedNeverStarts`, without Continue.  The queue and what
  has been taken from it are in the list (`QueueInList`); Continue picks tasks under `d.lock` and
  starts them later.
- `LimitIsKept`: `StartsWithinLimit`, without Continue and PutConfig (`Scheduler_overrun`,
  `Scheduler_config`).  Who holds `d.lock` on the way to a start has a free slot
  (`LimitKept`), and only a holder fills one.
- `FreeSlotIsNoticed`: `[]SlotNoticed`, without pauseAll too, with filters of one task
  (`Batch = 1`) and as long as no Delete fails.  While tasks wait, the free slots are no more than the notifications that
  are pending or owed, by a call, by an error, by the thread that has the lock
  (`SlotsCounted`); a task that was not started has no fetcher, watcher or handler (`NotBegun`),
  so none of them can free a slot twice.  One Pause of two running tasks frees two
  slots and notifies once; pauseAll empties the queue without a notification.

**TaskStore** (`TaskStoreProof`).  `StoreIsSound`: `Spec => []StoreInv`, from which
`StoredIsWritten` (`[]StoreBehindFile`) follows.  That the store is behind the file is not inductive by
itself: bytes have to be in the file before they are counted (`BehindFile`), by
replaced fetchers too, a fetcher that works must have been restored (`HasFetcher`), and the
end may be shown, reported and recorded of a whole file only.  All this is claimed until the task is deleted; after it the invariant says
that nothing which could save the task is on its way once it left the list (`Settled`), that one call deletes it (`DeletingSettled`), and that the ticker holds the lock
of the task it saves (`TickLocks`).  `Down` says what a crash leaves to the next
Setup.  Assumed: a size above zero, names that differ, and `DeleteAtRest`, which
`TaskStore_deleted` shows to be needed (`StoreConstants`, a hypothesis of the
theorems; the values of `TaskStore_crash` satisfy it).  `RunningStaysSaved`
(`[]RunningIsSaved`) adds `SavedInv`: a task is created by one call (`CreatedByOne`), nothing works
on one that the program does not know of (`Unknown`), and a fetcher that downloads is
about to be saved by the goroutine of its Start or is saved, with no less than what
`saveTask` stored last (`SavedOnceStarted`): the saved state is popped
only by a restore, which leaves the task with a fetcher that does not download yet, and the
Start that sets it going ends in a save.

**TaskFiles** (`TaskFilesProof`).  `FilesInvariant`: `Spec => []FInv`, and from it
`NamesStayApart`: tasks whose name was searched for never share a file.  The argument: the lock is kept
from the search until the file is opened (`LockKept`), so no other search comes
between; a number that was found free has no owner (`FoundFree`), and none can
appear, because whoever is named has written the file of its number (`NamedWrote`), which
therefore was not found missing; and a task is searched for once, before it is
named (`OneSearch`, `NamedLater`, `NewIsIdle`).  Starts without a search may open
the file, but they do not make the task named.  Assumed: the tasks are a finite set,
`User` is none of them (`FileConstants`), and `OwnDeletes`, the condition
`TaskFiles_remove` shows to be needed, which stands in the theorems.

**HttpSingle, MultiPart, BtFetcher, Extensions** (`PartsProof`).  The theorems are about
`PartsSpec`, the specification of the run `Parts`: a step of it is a step of one component
and a stutter of each other one, so each invariant is proved about the component's own
`Next`.  `PartsTypes` collects the types of all five.

- `SingleInvariant`: `[]HS!SingleInv`.  `OneLoop`: the loop of the former attempt is
  gone, the current one is open as long as it runs and closes its channel once.  `StrikesHeld`: a connection
  that has used its retries is gone.  `AnswerHeld`: in the first Start nothing but the body of
  Resolve is read.  `FileFollows`: as long as no answer broke off or was joined to
  another, the file has exactly the bytes that are counted.  From it `AnswerIsKept`
  (`[]OneRequest`) and `DoneIsWhole` (`[]WholeUnlessBroken`).  Assumed
  (`SingleConstants`): a size above zero, `RetryWaits` and `SpareDrains`; `HttpSingle_loops` has the
  counterexamples without them.
- `MultiInvariant`: `[]MP!MultiInv`, and `ExtractedOnce` (`[]OneAtATime`).  For an archive that
  may still become whole (no part is deleted or gone from the disk): a watcher that recognised a part
  will recognise it again when it claims, so the claim is made under the archive's own
  key, and its one job holds the claim until the release (`ClaimHeld`).  For an archive that is
  incomplete this fails, and `Parts_twice` shows how.  Assumed (`MultiConstants`): the first part of
  an archive, and the `.r00` that makes a `.rar` a part, are parts of it.
- `BtInvariant`: `[]BT!BtInv`, and `WaitedIsComplete` (`[]WaitMeansComplete`).  What is
  seeded has all its files; the seeder closes, and a torrent is dropped, only then or after
  a delete (`SeedsWhole`).  Assumed (`BtConstants`): Patch comes after the info and makes one selection, which is
  not empty.  `BtFetcher_empty` and `BtFetcher_patched` show the two last to be needed; the second was found when
  the invariant turned out not to be inductive for two selections.
- `ExtInvariant`: `[]EX!ExtInv`, and from it `SettingsOutlive` (`[]UserValueKept`) and
  `StorageIsShown` (`[]SavedAsShown`).  Each extension is listed once (`ListFormed`); a call is about one
  that is listed, or that its Delete has just taken out (`CallsFormed`); and what no call is
  changing is stored as it is shown, while what the user meant is in memory and in the storage
  (`StoredAsMeant`): storage.Put takes the shared extension as it is by then, so of two overlapping calls the later
  one stores both changes.  Assumed (`ExtConstants`): install and delete are
  called alone, see `Parts_switch`; versions have names of settings.

Only model-checked: the liveness properties of `ExtractQueue_live`,
`Scheduler_live` and `PartsLive`, and `RunGoesOn`, which speaks of ENABLED: both are out of the prover's reach,
as is induction over data.  `DeletedStaysDeleted` of `TaskStore_crash` is left to TLC on purpose: a proof
would need `DeleteAtRest`, which rules out the save that races with Delete, the case that matters and that the code
does not exclude (`TaskStore_deleted`).

## 5. Plan

Done in this order: HttpDownload, its invariant and proofs; ExtractSpec and
ExtractQueue with proofs; Scheduler; HttpSingle, MultiPart, BtFetcher, Extensions;
TaskStore and TaskFiles with proofs; the proofs of Scheduler, of the counters and of Done,
and of the parts.  What would add most next:

1. `FetcherSpec`: idle, active, done, failed, as `Scheduler` sees it, and
   `HttpDownload` shown to implement it; then a paused task has no active
   fetcher, and a deleted one stops.
2. The snapshot of several connections (`Store`) against the steps of `HttpDownload`.
3. `BtFetcher` with selections that change: what Wait then promises.
4. `SlotNoticed` with filters of several tasks, where a weaker statement has to be found.

## 6. Not modelled

Archive formats (third-party decoders), the JavaScript engine (an interpreter without a
state machine of its own), the decoding of file names from headers, I/O of the controller beyond the creation
of files, webhooks and scripts (I/O without a protocol); the REST server, entry points
and bindings (they forward calls one to one; the clients of `Scheduler` and `TaskStore` stand
for concurrent requests); the Flutter interface; third-party code.

Inside modelled components: a server that answers 200 to a range request, the choice of
the connection to steal from by its speed, the late goroutine of the time-out reader;
the snapshot of several connections that split while it is taken; the cache of
Resolve answers, the follow-up task of a downloaded `.torrent`, Clear, errors of the database; the close of the
BitTorrent manager and trackers; overlapping installs of one extension, git and
development mode.  Status and note of each component in `PROJECT.json` say the
same at its sources.
