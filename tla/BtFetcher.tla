------------------------------ MODULE BtFetcher ------------------------------
(***************************************************************************)
(* The BitTorrent fetcher (internal/protocol/bt/fetcher.go): one torrent   *)
(* client for the whole program, started by the first fetcher and closed   *)
(* with the last torrent; the fetchers of the tasks, each with the         *)
(* goroutine that starts it, the one that waits for the download, the one  *)
(* that seeds and closes, the one that waits for the upload, and the       *)
(* callers of Pause, Patch, Stats and Delete.  The torrent library is      *)
(* external: a torrent gets its info and its files at any time, or never.  *)
(***************************************************************************)
EXTENDS Integers, FiniteSets

CONSTANTS
  Fetchers, Files,
  Selections,   \* selections Patch is called with, invalid indices left out
  EarlyPatch,   \* Patch is called for torrents whose files are not known yet
  MaxBtCalls    \* bound

Closers == {"delete", "seeder"}

VARIABLES
  client, live,       \* the global client; torrents in it
  built, torrent,     \* task.fetcher, f.torrent are there
  info, ready,        \* the torrent's info is there; torrentReady
  starter, asUpload,  \* Start or Upload, under task.lock; addTorrent's fromUpload
  allow, have, sel,   \* AllowDataDownload; complete files; Opts.SelectFiles
  seeder,             \* doUpload
  dropped, udone,     \* torrentDropCtx is done; the token in uploadDoneCh
  waiter, upWaiter,   \* Wait and WaitUpload, called by the watcher
  closing,            \* the calls of Close
  patching,           \* Patch has set SelectFiles, not yet Progress
  finished, onHold, deleted, \* task.Status is Done, Pause; Delete was called
  short, dead,        \* history: Wait returned too early; a goroutine panicked
  btCalls

btClient == <<client, live>>
handle  == <<built, torrent, info, ready>>
runs    == <<starter, asUpload, seeder>>
data    == <<allow, have, sel>>
channels == <<dropped, udone>>
waiters == <<waiter, upWaiter>>
ends    == <<closing, patching>>
task    == <<finished, onHold, deleted>>
btVars == <<btClient, handle, runs, data, channels, waiters, ends, task, short, dead, btCalls>>

Called(f) == ~deleted[f] /\ btCalls < MaxBtCalls /\ btCalls' = btCalls + 1
isDone(f) == sel[f] \subseteq have[f]
Panics == dead' = TRUE

----------------------------------------------------------------------------
(* Start and Upload *)

\* The downloader starts the fetcher and watches it: Wait, and WaitUpload.
Starts(f) ==
  /\ Called(f) /\ starter[f] = "off" /\ ~finished[f]
  /\ built' = [built EXCEPT ![f] = TRUE]
  /\ starter' = [starter EXCEPT ![f] = IF ready[f] THEN "run" ELSE "init"]
  /\ asUpload' = [asUpload EXCEPT ![f] = FALSE]
  /\ onHold' = [onHold EXCEPT ![f] = FALSE]
  /\ waiter' = [waiter EXCEPT ![f] = "waiting"]
  /\ upWaiter' = [upWaiter EXCEPT ![f] = IF @ = "off" THEN "waiting" ELSE @]
  /\ UNCHANGED <<btClient, torrent, info, ready, seeder, data, channels, ends, finished, deleted,
                 short, dead>>

\* After a restart the downloader goes on uploading what is done.
Uploads(f) ==
  /\ Called(f) /\ starter[f] = "off" /\ finished[f] /\ ~built[f]
  /\ built' = [built EXCEPT ![f] = TRUE]
  /\ starter' = [starter EXCEPT ![f] = "init"]
  /\ asUpload' = [asUpload EXCEPT ![f] = TRUE]
  /\ upWaiter' = [upWaiter EXCEPT ![f] = "waiting"]
  /\ UNCHANGED <<btClient, torrent, info, ready, seeder, data, channels, waiter, ends, task,
                 short, dead>>

initClient(f) ==
  /\ starter[f] = "init"
  /\ client' = TRUE
  /\ starter' = [starter EXCEPT ![f] = "add"]
  /\ UNCHANGED <<live, handle, asUpload, seeder, data, channels, waiters, ends, task, short, dead,
                 btCalls>>

\* AddTorrentSpec, without the lock: the client may be gone again.
addTorrent(f) ==
  /\ starter[f] = "add"
  /\ IF client
     THEN /\ live' = live \union {f}
          /\ torrent' = [torrent EXCEPT ![f] = TRUE]
          /\ starter' = [starter EXCEPT ![f] = "info"]
          /\ UNCHANGED dead
     ELSE Panics /\ UNCHANGED <<live, torrent, starter>>
  /\ UNCHANGED <<client, built, info, ready, asUpload, seeder, data, channels, waiters, ends, task,
                 short, btCalls>>

InfoArrives(f) ==
  /\ f \in live /\ ~info[f]
  /\ info' = [info EXCEPT ![f] = TRUE]
  /\ UNCHANGED <<btClient, built, torrent, ready, runs, data, channels, waiters, ends, task, short,
                 dead, btCalls>>

\* GotInfo: the torrent is ready, and one goroutine seeds it.
GotInfo(f) ==
  /\ starter[f] = "info" /\ info[f]
  /\ ready' = [ready EXCEPT ![f] = TRUE]
  /\ seeder' = [seeder EXCEPT ![f] =
       IF @ # "off" THEN @ ELSE IF asUpload[f] THEN "seeds" ELSE "looks"]
  /\ starter' = [starter EXCEPT ![f] = IF asUpload[f] THEN "off" ELSE "run"]
  /\ UNCHANGED <<btClient, built, torrent, info, asUpload, data, channels, waiters, ends, task,
                 short, dead, btCalls>>

Runs(f) ==
  /\ starter[f] = "run"
  /\ allow' = [allow EXCEPT ![f] = TRUE]
  /\ starter' = [starter EXCEPT ![f] = "off"]
  /\ UNCHANGED <<btClient, handle, asUpload, seeder, have, sel, channels, waiters, ends, task,
                 short, dead, btCalls>>

Fetches(f) ==
  /\ f \in live /\ ready[f] /\ allow[f]
  /\ \E x \in sel[f] \ have[f] : have' = [have EXCEPT ![f] = @ \union {x}]
  /\ UNCHANGED <<btClient, handle, runs, allow, sel, channels, waiters, ends, task, short, dead,
                 btCalls>>

----------------------------------------------------------------------------
(* The goroutines that poll once a second *)

\* Wait: the torrent is dropped, or all that is selected is there.
WaitReturns(f) ==
  /\ waiter[f] = "waiting"
  /\ dropped[f] \/ (ready[f] /\ sel[f] # {} /\ isDone(f))
  /\ waiter' = [waiter EXCEPT ![f] = "returned"]
  /\ finished' = [finished EXCEPT ![f] = ~deleted[f]]
  /\ short' = (short \/ (~deleted[f] /\ (sel[f] = {} \/ ~isDone(f))))
  /\ UNCHANGED <<btClient, handle, runs, data, channels, upWaiter, ends, onHold, deleted, dead,
                 btCalls>>

\* Mutant of maySeed: seeding does not wait for the download.
maySeedAtOnce(f) == ready[f]

maySeed(f) == ready[f] /\ (seeder[f] = "seeds" \/ isDone(f))

\* doUpload: the ratio or the time is reached, and the fetcher is closed.
SeedEnds(f) ==
  /\ seeder[f] \in {"looks", "seeds"} /\ ~dropped[f] /\ maySeed(f)
  /\ seeder' = [seeder EXCEPT ![f] = "closes"]
  /\ closing' = [closing EXCEPT ![f]["seeder"] = "drop"]
  /\ UNCHANGED <<btClient, handle, starter, asUpload, data, channels, waiters, patching, task,
                 short, dead, btCalls>>

SeederEnds(f) ==
  /\ seeder[f] \in {"looks", "seeds", "closes"} /\ dropped[f] /\ closing[f]["seeder"] = "off"
  /\ seeder' = [seeder EXCEPT ![f] = "ended"]
  /\ UNCHANGED <<btClient, handle, starter, asUpload, data, channels, waiters, ends, task, short,
                 dead, btCalls>>

WaitUploadReturns(f) ==
  /\ upWaiter[f] = "waiting" /\ udone[f]
  /\ udone' = [udone EXCEPT ![f] = FALSE]
  /\ upWaiter' = [upWaiter EXCEPT ![f] = "returned"]
  /\ UNCHANGED <<btClient, handle, runs, data, dropped, waiter, ends, task, short, dead, btCalls>>

----------------------------------------------------------------------------
(* Close, by Delete and by the seeder *)

Closes(f, w, at) == closing' = [closing EXCEPT ![f][w] = at]

\* doDelete closes the fetcher if there is one.
Delete(f) ==
  /\ Called(f)
  /\ deleted' = [deleted EXCEPT ![f] = TRUE]
  /\ IF built[f] THEN Closes(f, "delete", "drop") ELSE UNCHANGED closing
  /\ UNCHANGED <<btClient, handle, runs, data, channels, waiters, patching, finished, onHold,
                 short, dead>>

\* Mutant of dropCtx: nobody is told that the torrent is dropped.
dropUntold(f) == UNCHANGED dropped

dropCtx(f) == dropped' = [dropped EXCEPT ![f] = TRUE]

\* safeDrop, which survives that there is no torrent, and torrentDropFunc.
Drops(f, w) ==
  /\ closing[f][w] = "drop"
  /\ live' = live \ {f}
  /\ dropCtx(f)
  /\ Closes(f, w, "send")
  /\ UNCHANGED <<client, handle, runs, data, udone, waiters, patching, task, short, dead, btCalls>>

\* uploadDoneCh holds one token.
Sends(f, w) ==
  /\ closing[f][w] = "send" /\ ~udone[f]
  /\ udone' = [udone EXCEPT ![f] = TRUE]
  /\ Closes(f, w, "count")
  /\ UNCHANGED <<btClient, handle, runs, data, dropped, waiters, patching, task, short, dead,
                 btCalls>>

\* len(client.Torrents()), without the lock: there may be no client any more.
Counts(f, w) ==
  /\ closing[f][w] = "count"
  /\ IF client
     THEN Closes(f, w, IF live = {} THEN "client" ELSE "off") /\ UNCHANGED dead
     ELSE Panics /\ UNCHANGED closing
  /\ UNCHANGED <<btClient, handle, runs, data, channels, waiters, patching, task, short, btCalls>>

\* closeClient takes every torrent with it that was added meanwhile.
ClosesClient(f, w) ==
  /\ closing[f][w] = "client"
  /\ client' = FALSE /\ live' = {}
  /\ Closes(f, w, "off")
  /\ UNCHANGED <<handle, runs, data, channels, waiters, patching, task, short, dead, btCalls>>

----------------------------------------------------------------------------
(* Pause, Patch, Stats, Progress *)

\* The handler of doPause, which has task.lock.  There may be no torrent.
Pause(f) ==
  /\ Called(f) /\ ~finished[f] /\ ~onHold[f] /\ starter[f] = "off"
  /\ onHold' = [onHold EXCEPT ![f] = TRUE]
  /\ IF ~built[f] THEN UNCHANGED <<allow, dead>>
     ELSE IF torrent[f] THEN allow' = [allow EXCEPT ![f] = FALSE] /\ UNCHANGED dead
     ELSE Panics /\ UNCHANGED allow
  /\ UNCHANGED <<btClient, handle, runs, have, sel, channels, waiters, ends, finished, deleted,
                 short>>

\* Stats builds the fetcher of a task that has none.
Stats(f) ==
  /\ Called(f) /\ ~built[f]
  /\ built' = [built EXCEPT ![f] = TRUE]
  /\ UNCHANGED <<btClient, torrent, info, ready, runs, data, channels, waiters, ends, task, short,
                 dead>>

\* Indices beyond the files that are known are left out.
Patch(f, S) ==
  /\ Called(f) /\ patching[f] = "no" /\ (EarlyPatch \/ ready[f])
  /\ built' = [built EXCEPT ![f] = TRUE]
  /\ LET valid == IF ready[f] THEN S ELSE {} IN
       /\ sel' = [sel EXCEPT ![f] = valid]
       /\ patching' = [patching EXCEPT ![f] =
            IF Cardinality(valid) < Cardinality(sel[f]) THEN "shorter" ELSE "same"]
  /\ UNCHANGED <<btClient, torrent, info, ready, runs, allow, have, channels, waiters, closing,
                 task, short, dead>>

PatchResets(f) ==
  /\ patching[f] # "no"
  /\ patching' = [patching EXCEPT ![f] = "no"]
  /\ UNCHANGED <<btClient, handle, runs, data, channels, waiters, closing, task, short, dead,
                 btCalls>>

\* Progress, called by the ticker, walks over the old Progress and the new
\* SelectFiles.
ProgressReads(f) ==
  /\ ready[f] /\ patching[f] = "shorter"
  /\ Panics
  /\ UNCHANGED <<btClient, handle, runs, data, channels, waiters, ends, task, short, btCalls>>

----------------------------------------------------------------------------
\* New tasks, which wait for a slot, and tasks of the program's last run.
Init ==
  /\ client = FALSE /\ live = {}
  /\ finished \in [Fetchers -> BOOLEAN]
  /\ built \in [Fetchers -> BOOLEAN] /\ (\A f \in Fetchers : finished[f] => ~built[f])
  /\ onHold = [f \in Fetchers |-> ~built[f] /\ ~finished[f]]
  /\ have = [f \in Fetchers |-> IF finished[f] THEN Files ELSE {}]
  /\ sel = [f \in Fetchers |-> Files]
  /\ torrent = [f \in Fetchers |-> FALSE] /\ info = torrent /\ ready = torrent
  /\ allow = torrent /\ dropped = torrent /\ udone = torrent /\ deleted = torrent
  /\ asUpload = torrent
  /\ starter = [f \in Fetchers |-> "off"] /\ seeder = starter /\ waiter = starter
  /\ upWaiter = starter
  /\ closing = [f \in Fetchers |-> [w \in Closers |-> "off"]]
  /\ patching = [f \in Fetchers |-> "no"]
  /\ short = FALSE /\ dead = FALSE /\ btCalls = 0

CloseStep(f) ==
  \E w \in Closers : Drops(f, w) \/ Sends(f, w) \/ Counts(f, w) \/ ClosesClient(f, w)
StartStep(f) == initClient(f) \/ addTorrent(f) \/ GotInfo(f) \/ Runs(f)
WaitStep(f) == WaitReturns(f) \/ WaitUploadReturns(f) \/ SeederEnds(f) \/ PatchResets(f)
ApiCalls(f) ==
  \/ Starts(f) \/ Uploads(f) \/ Delete(f) \/ Pause(f) \/ Stats(f)
  \/ \E S \in Selections : Patch(f, S)

\* A panic in a goroutine is the end of the program.
Next ==
  /\ ~dead
  /\ \E f \in Fetchers :
       \/ ApiCalls(f) \/ StartStep(f) \/ CloseStep(f) \/ WaitStep(f)
       \/ InfoArrives(f) \/ Fetches(f) \/ SeedEnds(f) \/ ProgressReads(f)

Fairness == \A f \in Fetchers :
  WF_btVars(~dead /\ CloseStep(f)) /\ WF_btVars(~dead /\ WaitReturns(f))
    /\ WF_btVars(~dead /\ WaitUploadReturns(f))

Spec == Init /\ [][Next]_btVars /\ Fairness

----------------------------------------------------------------------------
(* Properties *)

\* Every variable has its type.
TypeOK ==
  /\ client \in BOOLEAN /\ live \subseteq Fetchers
  /\ \A b \in {built, torrent, info, ready, asUpload, allow, dropped, udone, finished, onHold,
               deleted} : b \in [Fetchers -> BOOLEAN]
  /\ have \in [Fetchers -> SUBSET Files] /\ sel \in [Fetchers -> SUBSET Files]
  /\ starter \in [Fetchers -> {"off", "init", "add", "info", "run"}]
  /\ seeder \in [Fetchers -> {"off", "looks", "seeds", "closes", "ended"}]
  /\ waiter \in [Fetchers -> {"off", "waiting", "returned"}]
  /\ upWaiter \in [Fetchers -> {"off", "waiting", "returned"}]
  /\ closing \in [Fetchers -> [Closers -> {"off", "drop", "send", "count", "client"}]]
  /\ patching \in [Fetchers -> {"no", "shorter", "same"}]
  /\ short \in BOOLEAN /\ dead \in BOOLEAN

\* Wait returns for a task that is not deleted only when what is selected is
\* there, although the seeder may drop the torrent before Wait has looked.
WaitMeansComplete == ~short

\* Delete returns, and with it Wait and WaitUpload, also when the seeder closes
\* the fetcher at the same time; or one of them has brought the program down.
DeleteEnds == \A f \in Fetchers :
  deleted[f] ~> dead \/ (/\ closing[f]["delete"] = "off"
                         /\ waiter[f] # "waiting" /\ (built[f] => upWaiter[f] # "waiting"))

\* No goroutine panics.
NoPanic == ~dead

\* A torrent of a deleted task is not in the client, once Delete has returned.
NoOrphan == \A f \in Fetchers :
  (deleted[f] /\ closing[f]["delete"] = "off" /\ starter[f] = "off") => f \notin live

----------------------------------------------------------------------------
(* The inductive invariant behind WaitMeansComplete                         *)

\* Patch is called for torrents that are known and with one selection: a second
\* one, made while the seeder closes, is not waited for.
BtConstants ==
  /\ Files # {} /\ Selections \subseteq SUBSET Files /\ (\A S \in Selections : S # {})
  /\ EarlyPatch = FALSE /\ \A S, T \in Selections : S = T

\* What is seeded or closed by the seeder has all its files, and is dropped for
\* that reason or because the task is deleted.
SeedsWhole ==
  /\ ~short
  /\ \A f \in Fetchers :
       /\ sel[f] \in Selections \union {Files}
       /\ asUpload[f] \/ seeder[f] = "seeds" \/ (finished[f] /\ ~built[f]) => have[f] = Files
       /\ waiter[f] = "waiting" => built[f]
       /\ closing[f]["delete"] # "off" => deleted[f]
       /\ closing[f]["seeder"] # "off" => isDone(f)
       /\ dropped[f] => deleted[f] \/ isDone(f)

BtInv == TypeOK /\ SeedsWhole

==============================================================================
