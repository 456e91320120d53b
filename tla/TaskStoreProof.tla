--------------------------- MODULE TaskStoreProof ---------------------------
(***************************************************************************)
(* Proofs about TaskStore, for any number of tasks, clients, calls,        *)
(* failures, crashes and restarts, when clients delete tasks at rest.      *)
(***************************************************************************)
EXTENDS TaskStore, TLAPS

\* What the proofs need of the constants.  Without DeleteAtRest a late save
\* brings a deleted task back (TaskStore_deleted in the README).
StoreConstants == Size \in Nat \ {0} /\ None \notin Tasks /\ Nobody # "ticker" /\ DeleteAtRest

\* What the invariant says of one task, with the ranges of its numbers.
LEMMA TaskTypes ==
  ASSUME StoreInv, StoreConstants, NEW t \in Tasks
  PROVE  /\ sav[t] \in Int /\ None <= sav[t] /\ sav[t] <= Size
         /\ file[t] \in Int /\ None <= file[t] /\ file[t] <= Size
         /\ fet[t] \in Int /\ None <= fet[t] /\ fet[t] <= Size
         /\ hand[t] \in {0, 1} /\ Size \in Nat \ {0} /\ FileBytes(t) \in Nat /\ FileBytes(t) <= Size
         /\ \A n \in orphans[t] : n \in Nat /\ n <= Size
         /\ TaskInv(t)
<1>1. /\ sav[t] \in None..Size /\ file[t] \in None..Size /\ fet[t] \in None..Size
      /\ hand[t] \in 0..1 /\ Size \in Nat \ {0} /\ TaskInv(t)
      /\ orphans[t] \subseteq 0..Size
  BY DEF StoreInv, StoreConstants, TypeOK, TypeDisk, TypeMemory
<1> QED
  BY <1>1 DEF FileBytes, Max2, None

\* A step that does not touch the task u, nor a call about it.
LEMMA Untouched ==
  ASSUME NEW u \in Tasks, TaskInv(u),
         /\ rec'[u] = rec[u] /\ sav'[u] = sav[u] /\ file'[u] = file[u] /\ gone'[u] = gone[u]
         /\ status'[u] = status[u] /\ fet'[u] = fet[u] /\ hand'[u] = hand[u]
         /\ active'[u] = active[u] /\ orphans'[u] = orphans[u] /\ result'[u] = result[u],
         /\ slock'[u] = slock[u] /\ starts'[u] = starts[u] /\ pauses'[u] = pauses[u]
         /\ handler'[u] = handler[u] /\ watcher'[u] = watcher[u] /\ (u \in listed' <=> u \in listed),
         \A x \in {"save", "put"} : tick' = <<u, x>> => tick = <<u, x>>,
         \A d \in Clients : call'[d] = call[d] \/ (call[d].t # u /\ call'[d].t # u)
  PROVE  TaskInv(u)'
<1> USE DEF TaskInv
<1>1. BehindFile(u)'
  BY DEF BehindFile, FileBytes
<1>2. HasFetcher(u)'
  BY DEF HasFetcher
<1>3. Settled(u)' <=> Settled(u)
  BY DEF Settled
<1>4. GoneSettled(u)'
  BY <1>3 DEF GoneSettled
<1>5. DeletingSettled(u)'
  BY <1>3 DEF DeletingSettled
<1>6. TickLocks(u)'
  BY DEF TickLocks
<1> QED
  BY <1>1, <1>2, <1>4, <1>5, <1>6

\* Only a program that is up takes a step of its own.
LEMMA UpTask ==
  ASSUME StoreInv, NEW t \in Tasks, HandlerStep(t) \/ FetcherStep(t) \/ WatchStep(t) \/ TickStep(t)
  PROVE  up /\ up' = up /\ call' = call
<1>1. up' = up /\ call' = call
  BY DEF HandlerStep, StartTakesLock, StartResolves, StartsFetcher, StartSavesFetcher, HandlerPuts,
     PauseHandled, FetcherStep, Writes, Counts, FetcherEnds, OrphanWrites, OrphanEnds, WatchStep, WatchReturns, WatchPuts, TickStep,
     TickChecks, TickSaves, TickPuts, others
<1>2. ASSUME ~up PROVE FALSE
  <2>1. /\ handler[t] = "free" /\ starts[t] = 0 /\ pauses[t] = 0 /\ ~active[t] /\ hand[t] = 0
        /\ orphans[t] = {} /\ watcher[t] = "off" /\ tick = <<>> /\ ~open
    BY <1>2 DEF StoreInv, Down, Settled
  <2> QED
    BY <2>1 DEF HandlerStep, StartTakesLock, StartResolves, StartsFetcher, StartSavesFetcher,
       HandlerPuts,
       PauseHandled, FetcherStep, Writes, Counts, FetcherEnds, OrphanWrites, OrphanEnds, WatchStep, WatchReturns, WatchPuts, TickStep,
       TickChecks, TickSaves, TickPuts
<1> QED
  BY <1>1, <1>2

\* A step for the task t that changes no call.
LEMMA OneTask ==
  ASSUME StoreInv, NEW t \in Tasks, TypeOK', TaskInv(t)', up', call' = call,
         \A u \in Tasks : u # t =>
           /\ rec'[u] = rec[u] /\ sav'[u] = sav[u] /\ file'[u] = file[u] /\ gone'[u] = gone[u]
           /\ status'[u] = status[u] /\ fet'[u] = fet[u] /\ hand'[u] = hand[u]
           /\ active'[u] = active[u] /\ orphans'[u] = orphans[u] /\ result'[u] = result[u],
         \A u \in Tasks : u # t =>
           /\ slock'[u] = slock[u] /\ starts'[u] = starts[u] /\ pauses'[u] = pauses[u]
           /\ handler'[u] = handler[u] /\ watcher'[u] = watcher[u],
         listed' = listed, tick' = tick \/ tick' = <<>> \/ \E x \in {"save", "put"} : tick' = <<t,
                                                     x>>
  PROVE  StoreInv'
<1>1. ASSUME NEW u \in Tasks, u # t PROVE TaskInv(u)'
  <2>1. \A x \in {"save", "put"} : tick' = <<u, x>> => tick = <<u, x>>
    BY <1>1
  <2> QED
    BY <1>1, <2>1, Untouched DEF StoreInv
<1> QED
  BY <1>1 DEF StoreInv, PopCalls, Down

\* What is on its way for a task excludes that it is deleted.
LEMMA Unsettled ==
  ASSUME NEW t \in Tasks, TaskInv(t), ~Settled(t), gone' = gone, call' = call
  PROVE  GoneSettled(t)' /\ DeletingSettled(t)'
BY DEF TaskInv, GoneSettled, DeletingSettled

\* What happens to a task that stays settled, if it is, touches neither its record
\* nor its state.
LEMMA StaysSettled ==
  ASSUME NEW t \in Tasks, TaskInv(t), Settled(t) => Settled(t)', gone' = gone, call' = call,
         rec' = rec, sav' = sav, gone[t] => hand'[t] = 0 /\ ~active'[t]
  PROVE  GoneSettled(t)' /\ DeletingSettled(t)'
BY DEF TaskInv, GoneSettled, DeletingSettled

\* A goroutine of Start goes on: it already counted as something on its way.
LEMMA StartTakesLockInv ==
  ASSUME StoreInv, StoreConstants, NEW t \in Tasks, StartTakesLock(t)
  PROVE  StoreInv'
<1> USE DEF disk, memory, locks, others, past, bounds
<1>1. up' /\ call' = call
  BY UpTask DEF HandlerStep
<1>2. TypeOK'
  <2>1. TypeDisk'
    BY TaskTypes DEF StartTakesLock, StoreInv, TypeOK, TypeDisk, TypeMemory, StoreConstants,
       FileBytes, Max2, None
  <2>2. TypeMemory'
    BY TaskTypes DEF StartTakesLock, StoreInv, TypeOK, TypeMemory, Statuses
  <2>3. TypeWork'
    BY DEF StartTakesLock, StoreInv, TypeOK, TypeWork
  <2> QED
    BY <2>1, <2>2, <2>3 DEF TypeOK
<1>3. TaskInv(t)'
  <2>1. /\ UNCHANGED <<rec, sav, file, gone, status, fet, hand, active, orphans, result, slock,
                       pauses, watcher, listed, tick>>
        /\ starts'[t] = starts[t] - 1 /\ handler'[t] = "resolve"
    BY DEF StartTakesLock, StoreInv, TypeOK, TypeDisk, TypeMemory, TypeWork
  <2>2. BehindFile(t)'
    BY <2>1, TaskTypes DEF StartTakesLock, TaskInv, BehindFile, HasFetcher, GoneSettled, FileBytes,
       Max2, None
  <2>3. HasFetcher(t)'
    BY <1>1, <2>1, TaskTypes DEF StartTakesLock, TaskInv, BehindFile, HasFetcher, None

  <2>4. GoneSettled(t)' /\ DeletingSettled(t)'
    <3>1. ~Settled(t)
      BY DEF StartTakesLock, Settled
    <3> QED
      BY <1>1, <2>1, <3>1, TaskTypes, Unsettled
  <2>5. TickLocks(t)'
    BY <2>1, TaskTypes DEF TaskInv, TickLocks
  <2> QED
    BY <2>2, <2>3, <2>4, <2>5 DEF TaskInv
<1>4. /\ UNCHANGED <<rec, sav, file, gone, status, fet, hand, active, orphans, result, slock,
                     pauses, watcher, listed, tick>>
      /\ \A u \in Tasks : u # t => starts'[u] = starts[u] /\ handler'[u] = handler[u]
  BY DEF StartTakesLock, StoreInv, TypeOK, TypeDisk, TypeMemory, TypeWork
<1> QED
  BY <1>1, <1>2, <1>3, <1>4, OneTask

\* A resolve that succeeds or fails changes nothing that is stored.
LEMMA StartResolvesInv ==
  ASSUME StoreInv, StoreConstants, NEW t \in Tasks, StartResolves(t)
  PROVE  StoreInv'
<1> USE DEF disk, memory, locks, others, past, bounds
<1>1. up' /\ call' = call
  BY UpTask DEF HandlerStep
<1>2. TypeOK'
  <2>1. TypeDisk'
    BY TaskTypes DEF StartResolves, OnError, StoreInv, TypeOK, TypeDisk, TypeMemory,
       StoreConstants, FileBytes, Max2, None
  <2>2. TypeMemory'
    BY TaskTypes DEF StartResolves, OnError, StoreInv, TypeOK, TypeMemory, Statuses
  <2>3. TypeWork'
    BY DEF StartResolves, OnError, StoreInv, TypeOK, TypeWork
  <2> QED
    BY <2>1, <2>2, <2>3 DEF TypeOK
<1>3. TaskInv(t)'
  <2>1. /\ UNCHANGED <<rec, sav, file, gone, fet, hand, active, orphans, result, slock, starts,
                       pauses, watcher, listed, tick>>
        /\ handler' = [handler EXCEPT ![t] = handler'[t]]
        /\ status'[t] = status[t] \/ status'[t] = "error"
    BY DEF StartResolves, OnError, StoreInv, TypeOK, TypeDisk, TypeMemory, TypeWork
  <2>2. BehindFile(t)'
    BY <2>1, TaskTypes DEF StartResolves, TaskInv, BehindFile, HasFetcher, GoneSettled, FileBytes,
       Max2, None
  <2>3. HasFetcher(t)'
    BY <1>1, <2>1, TaskTypes DEF StartResolves, TaskInv, BehindFile, HasFetcher, None

  <2>4. GoneSettled(t)' /\ DeletingSettled(t)'
    <3>1. ~Settled(t)
      BY DEF StartResolves, Settled
    <3> QED
      BY <1>1, <2>1, <3>1, TaskTypes, Unsettled
  <2>5. TickLocks(t)'
    BY <2>1, TaskTypes DEF TaskInv, TickLocks
  <2> QED
    BY <2>2, <2>3, <2>4, <2>5 DEF TaskInv
<1>4. /\ UNCHANGED <<rec, sav, file, gone, fet, hand, active, orphans, result, slock, starts,
                     pauses, watcher, listed, tick>>
      /\ \A u \in Tasks : u # t => handler'[u] = handler[u] /\ status'[u] = status[u]
  BY DEF StartResolves, OnError, StoreInv, TypeOK, TypeDisk, TypeMemory, TypeWork
<1> QED
  BY <1>1, <1>2, <1>3, <1>4, OneTask

\* Start creates the file at most: what is there stays there.
LEMMA StartsFetcherInv ==
  ASSUME StoreInv, StoreConstants, NEW t \in Tasks, StartsFetcher(t)
  PROVE  StoreInv'
<1> USE DEF disk, memory, locks, others, past, bounds
<1>1. up' /\ call' = call
  BY UpTask DEF HandlerStep
<1>2. TypeOK'
  <2>1. TypeDisk'
    BY TaskTypes DEF StartsFetcher, StoreInv, TypeOK, TypeDisk, TypeMemory, StoreConstants,
       FileBytes, Max2, None
  <2>2. TypeMemory'
    BY TaskTypes DEF StartsFetcher, StoreInv, TypeOK, TypeMemory, Statuses
  <2>3. TypeWork'
    BY DEF StartsFetcher, StoreInv, TypeOK, TypeWork
  <2> QED
    BY <2>1, <2>2, <2>3 DEF TypeOK
<1>3. TaskInv(t)'
  <2>1. /\ UNCHANGED <<rec, sav, gone, status, fet, hand, orphans, result, slock, starts, pauses,
                       watcher, listed, tick>>
        /\ file'[t] = Max2(file[t], 0) /\ active'[t] = TRUE /\ handler'[t] = "save"
    BY DEF StartsFetcher, StoreInv, TypeOK, TypeDisk, TypeMemory, TypeWork
  <2>2. BehindFile(t)'
    BY <2>1, TaskTypes DEF StartsFetcher, TaskInv, BehindFile, HasFetcher, GoneSettled, FileBytes,
       Max2, None
  <2>3. HasFetcher(t)'
    BY <1>1, <2>1, TaskTypes DEF StartsFetcher, TaskInv, BehindFile, HasFetcher, None

  <2>4. GoneSettled(t)' /\ DeletingSettled(t)'
    <3>1. ~Settled(t)
      BY DEF StartsFetcher, Settled
    <3> QED
      BY <1>1, <2>1, <3>1, TaskTypes, Unsettled
  <2>5. TickLocks(t)'
    BY <2>1, TaskTypes DEF TaskInv, TickLocks
  <2> QED
    BY <2>2, <2>3, <2>4, <2>5 DEF TaskInv
<1>4. /\ UNCHANGED <<rec, sav, gone, status, fet, hand, orphans, result, slock, starts, pauses,
                     watcher, listed, tick>>
      /\ \A u \in Tasks : u # t =>
           /\ file'[u] = file[u] /\ active'[u] = active[u] /\ handler'[u] = handler[u]
  BY DEF StartsFetcher, StoreInv, TypeOK, TypeDisk, TypeMemory, TypeWork
<1> QED
  BY <1>1, <1>2, <1>3, <1>4, OneTask

\* What the fetcher counts is in the file, so it may be stored.
LEMMA StartSavesFetcherInv ==
  ASSUME StoreInv, StoreConstants, NEW t \in Tasks, StartSavesFetcher(t)
  PROVE  StoreInv'
<1> USE DEF disk, memory, locks, others, past, bounds
<1>1. up' /\ call' = call
  BY UpTask DEF HandlerStep
<1>2. TypeOK'
  <2>1. TypeDisk'
    BY TaskTypes DEF StartSavesFetcher, startSaves, PutSave, OnError, StoreInv, TypeOK, TypeDisk,
       TypeMemory, StoreConstants, FileBytes, Max2, None
  <2>2. TypeMemory'
    BY TaskTypes DEF StartSavesFetcher, startSaves, PutSave, OnError, StoreInv, TypeOK, TypeMemory,
       Statuses
  <2>3. TypeWork'
    BY DEF StartSavesFetcher, startSaves, PutSave, OnError, StoreInv, TypeOK, TypeWork
  <2> QED
    BY <2>1, <2>2, <2>3 DEF TypeOK
<1>3. TaskInv(t)'
  <2>1. /\ UNCHANGED <<rec, file, gone, fet, hand, active, orphans, result, slock, starts, pauses,
                       watcher, listed, tick>>
        /\ sav'[t] = (IF open THEN fet[t] ELSE sav[t])
        /\ handler'[t] = (IF open THEN "record" ELSE "free")
        /\ status'[t] = (IF open THEN status[t] ELSE "error")
    BY DEF StartSavesFetcher, startSaves, PutSave, OnError, StoreInv, TypeOK, TypeDisk, TypeMemory,
       TypeWork
  <2>2. BehindFile(t)'
    BY <2>1, TaskTypes DEF StartSavesFetcher, TaskInv, BehindFile, HasFetcher, GoneSettled,
       FileBytes, Max2, None
  <2>3. HasFetcher(t)'
    BY <1>1, <2>1, TaskTypes DEF StartSavesFetcher, TaskInv, BehindFile, HasFetcher, None

  <2>4. GoneSettled(t)' /\ DeletingSettled(t)'
    <3>1. ~Settled(t)
      BY DEF StartSavesFetcher, Settled
    <3> QED
      BY <1>1, <2>1, <3>1, TaskTypes, Unsettled
  <2>5. TickLocks(t)'
    BY <2>1, TaskTypes DEF TaskInv, TickLocks
  <2> QED
    BY <2>2, <2>3, <2>4, <2>5 DEF TaskInv
<1>4. /\ UNCHANGED <<rec, file, gone, fet, hand, active, orphans, result, slock, starts, pauses,
                     watcher, listed, tick>>
      /\ \A u \in Tasks : u # t =>
           /\ sav'[u] = sav[u] /\ handler'[u] = handler[u] /\ status'[u] = status[u]
  BY DEF StartSavesFetcher, startSaves, PutSave, OnError, StoreInv, TypeOK, TypeDisk, TypeMemory,
     TypeWork
<1> QED
  BY <1>1, <1>2, <1>3, <1>4, OneTask

\* A stored status is the one shown: "done" only of a whole file.
LEMMA HandlerPutsInv ==
  ASSUME StoreInv, StoreConstants, NEW t \in Tasks, HandlerPuts(t)
  PROVE  StoreInv'
<1> USE DEF disk, memory, locks, others, past, bounds
<1>1. up' /\ call' = call
  BY UpTask DEF HandlerStep
<1>2. TypeOK'
  <2>1. TypeDisk'
    BY TaskTypes DEF HandlerPuts, PutTask, OnError, StoreInv, TypeOK, TypeDisk, TypeMemory,
       StoreConstants, FileBytes, Max2, None
  <2>2. TypeMemory'
    BY TaskTypes DEF HandlerPuts, PutTask, OnError, StoreInv, TypeOK, TypeMemory, Statuses
  <2>3. TypeWork'
    BY DEF HandlerPuts, PutTask, OnError, StoreInv, TypeOK, TypeWork
  <2> QED
    BY <2>1, <2>2, <2>3 DEF TypeOK
<1>3. TaskInv(t)'
  <2>1. /\ UNCHANGED <<sav, file, gone, fet, hand, active, orphans, result, slock, starts, pauses,
                       watcher, listed, tick>>
        /\ rec'[t] = (IF open THEN status[t] ELSE rec[t]) /\ handler'[t] = "free"
        /\ (status'[t] = status[t] \/ status'[t] = "error")
    BY DEF HandlerPuts, PutTask, OnError, StoreInv, TypeOK, TypeDisk, TypeMemory, TypeWork
  <2>2. BehindFile(t)'
    BY <2>1, TaskTypes DEF HandlerPuts, TaskInv, BehindFile, HasFetcher, GoneSettled, FileBytes,
       Max2, None
  <2>3. HasFetcher(t)'
    BY <1>1, <2>1, TaskTypes DEF HandlerPuts, TaskInv, BehindFile, HasFetcher, None

  <2>4. GoneSettled(t)' /\ DeletingSettled(t)'
    <3>1. ~Settled(t)
      BY DEF HandlerPuts, Settled
    <3> QED
      BY <1>1, <2>1, <3>1, TaskTypes, Unsettled
  <2>5. TickLocks(t)'
    BY <2>1, TaskTypes DEF TaskInv, TickLocks
  <2> QED
    BY <2>2, <2>3, <2>4, <2>5 DEF TaskInv
<1>4. /\ UNCHANGED <<sav, file, gone, fet, hand, active, orphans, result, slock, starts, pauses,
                     watcher, listed, tick>>
      /\ \A u \in Tasks : u # t =>
           /\ rec'[u] = rec[u] /\ handler'[u] = handler[u] /\ status'[u] = status[u]
  BY DEF HandlerPuts, PutTask, OnError, StoreInv, TypeOK, TypeDisk, TypeMemory, TypeWork
<1> QED
  BY <1>1, <1>2, <1>3, <1>4, OneTask

\* Pause returns when no bytes are in hand.
LEMMA PauseHandledInv ==
  ASSUME StoreInv, StoreConstants, NEW t \in Tasks, PauseHandled(t)
  PROVE  StoreInv'
<1> USE DEF disk, memory, locks, others, past, bounds
<1>1. up' /\ call' = call
  BY UpTask DEF HandlerStep
<1>2. TypeOK'
  <2>1. TypeDisk'
    BY TaskTypes DEF PauseHandled, StoreInv, TypeOK, TypeDisk, TypeMemory, StoreConstants,
       FileBytes, Max2, None
  <2>2. TypeMemory'
    BY TaskTypes DEF PauseHandled, StoreInv, TypeOK, TypeMemory, Statuses
  <2>3. TypeWork'
    BY DEF PauseHandled, StoreInv, TypeOK, TypeWork
  <2> QED
    BY <2>1, <2>2, <2>3 DEF TypeOK
<1>3. TaskInv(t)'
  <2>1. /\ UNCHANGED <<rec, sav, file, gone, status, fet, hand, orphans, result, slock, starts,
                       watcher, listed, tick>>
        /\ pauses'[t] = pauses[t] - 1 /\ active'[t] = FALSE /\ handler'[t] = "put"
    BY DEF PauseHandled, StoreInv, TypeOK, TypeDisk, TypeMemory, TypeWork
  <2>2. BehindFile(t)'
    BY <2>1, TaskTypes DEF PauseHandled, TaskInv, BehindFile, HasFetcher, GoneSettled, FileBytes,
       Max2, None
  <2>3. HasFetcher(t)'
    BY <1>1, <2>1, TaskTypes DEF PauseHandled, TaskInv, BehindFile, HasFetcher, None

  <2>4. GoneSettled(t)' /\ DeletingSettled(t)'
    <3>1. ~Settled(t)
      BY DEF PauseHandled, Settled
    <3> QED
      BY <1>1, <2>1, <3>1, TaskTypes, Unsettled
  <2>5. TickLocks(t)'
    BY <2>1, TaskTypes DEF TaskInv, TickLocks
  <2> QED
    BY <2>2, <2>3, <2>4, <2>5 DEF TaskInv
<1>4. /\ UNCHANGED <<rec, sav, file, gone, status, fet, hand, orphans, result, slock, starts,
                     watcher, listed, tick>>
      /\ \A u \in Tasks : u # t =>
           /\ pauses'[u] = pauses[u] /\ active'[u] = active[u] /\ handler'[u] = handler[u]
  BY DEF PauseHandled, StoreInv, TypeOK, TypeDisk, TypeMemory, TypeWork
<1> QED
  BY <1>1, <1>2, <1>3, <1>4, OneTask

\* The bytes are in the file before they are counted.
LEMMA WritesInv ==
  ASSUME StoreInv, StoreConstants, NEW t \in Tasks, Writes(t)
  PROVE  StoreInv'
<1> USE DEF disk, memory, locks, others, past, bounds
<1>1. up' /\ call' = call
  BY UpTask DEF FetcherStep
<1>2. TypeOK'
  <2>1. TypeDisk'
    BY TaskTypes DEF Writes, StoreInv, TypeOK, TypeDisk, TypeMemory, StoreConstants, FileBytes,
       Max2, None
  <2>2. TypeMemory'
    BY TaskTypes DEF Writes, StoreInv, TypeOK, TypeMemory, Statuses
  <2>3. TypeWork'
    BY DEF Writes, StoreInv, TypeOK, TypeWork
  <2> QED
    BY <2>1, <2>2, <2>3 DEF TypeOK
<1>3. TaskInv(t)'
  <2>1. /\ UNCHANGED <<rec, sav, gone, status, fet, active, orphans, result, slock, starts, pauses,
                       handler, watcher, listed, tick>>
        /\ file'[t] = Max2(file[t], fet[t] + 1) /\ hand'[t] = 1
    BY DEF Writes, StoreInv, TypeOK, TypeDisk, TypeMemory, TypeWork
  <2>2. BehindFile(t)'
    BY <2>1, TaskTypes DEF Writes, TaskInv, BehindFile, HasFetcher, GoneSettled, FileBytes, Max2,
       None
  <2>3. HasFetcher(t)'
    BY <1>1, <2>1, TaskTypes DEF Writes, TaskInv, BehindFile, HasFetcher, None

  <2>4. GoneSettled(t)' /\ DeletingSettled(t)'
    BY <1>1, <2>1, TaskTypes, StaysSettled DEF Writes, Settled, TaskInv, GoneSettled
  <2>5. TickLocks(t)'
    BY <2>1, TaskTypes DEF TaskInv, TickLocks
  <2> QED
    BY <2>2, <2>3, <2>4, <2>5 DEF TaskInv
<1>4. /\ UNCHANGED <<rec, sav, gone, status, fet, active, orphans, result, slock, starts, pauses,
                     handler, watcher, listed, tick>>
      /\ \A u \in Tasks : u # t => file'[u] = file[u] /\ hand'[u] = hand[u]
  BY DEF Writes, StoreInv, TypeOK, TypeDisk, TypeMemory, TypeWork
<1> QED
  BY <1>1, <1>2, <1>3, <1>4, OneTask

\* What is counted was in hand, and so in the file.
LEMMA CountsInv ==
  ASSUME StoreInv, StoreConstants, NEW t \in Tasks, Counts(t)
  PROVE  StoreInv'
<1> USE DEF disk, memory, locks, others, past, bounds
<1>1. up' /\ call' = call
  BY UpTask DEF FetcherStep
<1>2. TypeOK'
  <2>0. hand[t] = 1 /\ fet[t] + 1 <= Size
    BY TaskTypes DEF Counts, TaskInv, BehindFile, GoneSettled
  <2>1. TypeDisk'
    BY TaskTypes DEF Counts, StoreInv, TypeOK, TypeDisk, TypeMemory, StoreConstants, FileBytes,
       Max2, None
  <2>2. TypeMemory'
    BY <2>0, TaskTypes DEF Counts, StoreInv, TypeOK, TypeMemory, Statuses, None
  <2>3. TypeWork'
    BY DEF Counts, StoreInv, TypeOK, TypeWork
  <2> QED
    BY <2>1, <2>2, <2>3 DEF TypeOK
<1>3. TaskInv(t)'
  <2>1. /\ UNCHANGED <<rec, sav, file, gone, status, active, orphans, result, slock, starts,
                       pauses, handler, watcher, listed, tick>>
        /\ fet'[t] = fet[t] + 1 /\ hand'[t] = 0
    BY DEF Counts, StoreInv, TypeOK, TypeDisk, TypeMemory, TypeWork
  <2>2. BehindFile(t)'
    BY <2>1, TaskTypes DEF Counts, TaskInv, BehindFile, HasFetcher, GoneSettled, FileBytes, Max2,
       None
  <2>3. HasFetcher(t)'
    BY <1>1, <2>1, TaskTypes DEF Counts, TaskInv, BehindFile, HasFetcher, None

  <2>4. GoneSettled(t)' /\ DeletingSettled(t)'
    BY <1>1, <2>1, TaskTypes, StaysSettled DEF Counts, Settled, TaskInv, GoneSettled
  <2>5. TickLocks(t)'
    BY <2>1, TaskTypes DEF TaskInv, TickLocks
  <2> QED
    BY <2>2, <2>3, <2>4, <2>5 DEF TaskInv
<1>4. /\ UNCHANGED <<rec, sav, file, gone, status, active, orphans, result, slock, starts, pauses,
                     handler, watcher, listed, tick>>
      /\ \A u \in Tasks : u # t => fet'[u] = fet[u] /\ hand'[u] = hand[u]
  BY DEF Counts, StoreInv, TypeOK, TypeDisk, TypeMemory, TypeWork
<1> QED
  BY <1>1, <1>2, <1>3, <1>4, OneTask

\* Wait reports the end of a whole file only.
LEMMA FetcherEndsInv ==
  ASSUME StoreInv, StoreConstants, NEW t \in Tasks, FetcherEnds(t)
  PROVE  StoreInv'
<1> USE DEF disk, memory, locks, others, past, bounds
<1>1. up' /\ call' = call
  BY UpTask DEF FetcherStep
<1>2. TypeOK'
  <2>1. TypeDisk'
    BY TaskTypes DEF FetcherEnds, StoreInv, TypeOK, TypeDisk, TypeMemory, StoreConstants,
       FileBytes, Max2, None
  <2>2. TypeMemory'
    BY TaskTypes DEF FetcherEnds, StoreInv, TypeOK, TypeMemory, Statuses
  <2>3. TypeWork'
    BY DEF FetcherEnds, StoreInv, TypeOK, TypeWork
  <2> QED
    BY <2>1, <2>2, <2>3 DEF TypeOK
<1>3. TaskInv(t)'
  <2>1. /\ UNCHANGED <<rec, sav, file, gone, status, fet, hand, orphans, slock, starts, pauses,
                       handler, watcher, listed, tick>>
        /\ active'[t] = FALSE /\ (result'[t] = "ok" => fet[t] = Size)
    BY DEF FetcherEnds, StoreInv, TypeOK, TypeDisk, TypeMemory, TypeWork
  <2>2. BehindFile(t)'
    BY <2>1, TaskTypes DEF FetcherEnds, TaskInv, BehindFile, HasFetcher, GoneSettled, FileBytes,
       Max2, None
  <2>3. HasFetcher(t)'
    BY <1>1, <2>1, TaskTypes DEF FetcherEnds, TaskInv, BehindFile, HasFetcher, None

  <2>4. GoneSettled(t)' /\ DeletingSettled(t)'
    BY <1>1, <2>1, TaskTypes, StaysSettled DEF FetcherEnds, Settled, TaskInv, GoneSettled
  <2>5. TickLocks(t)'
    BY <2>1, TaskTypes DEF TaskInv, TickLocks
  <2> QED
    BY <2>2, <2>3, <2>4, <2>5 DEF TaskInv
<1>4. /\ UNCHANGED <<rec, sav, file, gone, status, fet, hand, orphans, slock, starts, pauses,
                     handler, watcher, listed, tick>>
      /\ \A u \in Tasks : u # t => active'[u] = active[u] /\ result'[u] = result[u]
  BY DEF FetcherEnds, StoreInv, TypeOK, TypeDisk, TypeMemory, TypeWork
<1> QED
  BY <1>1, <1>2, <1>3, <1>4, OneTask

\* A replaced fetcher only adds to the file.
LEMMA OrphanWritesInv ==
  ASSUME StoreInv, StoreConstants, NEW t \in Tasks, OrphanWrites(t)
  PROVE  StoreInv'
<1> USE DEF disk, memory, locks, others, past, bounds
<1>1. up' /\ call' = call
  BY UpTask DEF FetcherStep
<1>2. TypeOK'
  <2>1. TypeDisk'
    BY TaskTypes DEF OrphanWrites, StoreInv, TypeOK, TypeDisk, TypeMemory, StoreConstants,
       FileBytes, Max2, None
  <2>2. TypeMemory'
    BY TaskTypes DEF OrphanWrites, StoreInv, TypeOK, TypeMemory, Statuses, None
  <2>3. TypeWork'
    BY DEF OrphanWrites, StoreInv, TypeOK, TypeWork
  <2> QED
    BY <2>1, <2>2, <2>3 DEF TypeOK
<1>3. TaskInv(t)'
  <2>1. /\ UNCHANGED <<rec, sav, gone, status, fet, hand, active, result, slock, starts, pauses,
                       handler, watcher, listed, tick>>
        /\ (\E n \in orphans[t] : /\ n < Size /\ orphans'[t] = (orphans[t] \ {n}) \union {n + 1}
                               /\ file'[t] = IF file[t] = None THEN None ELSE Max2(file[t], n + 1))
    BY DEF OrphanWrites, StoreInv, TypeOK, TypeDisk, TypeMemory, TypeWork
  <2>2. BehindFile(t)'
    <3>1. PICK n \in orphans[t] :
            /\ n < Size /\ orphans'[t] = (orphans[t] \ {n}) \union {n + 1}
            /\ file'[t] = IF file[t] = None THEN None ELSE Max2(file[t], n + 1)
      BY <2>1
    <3>2. ASSUME ~gone[t] PROVE /\ BehindFile(t) /\ n <= FileBytes(t)
      BY <3>2, TaskTypes DEF TaskInv, BehindFile
    <3>3. SUFFICES ASSUME ~gone[t] PROVE BehindFile(t)'
      BY <2>1 DEF BehindFile
    <3>4. /\ file[t] # None /\ file[t] \in Nat /\ file'[t] = Max2(file[t], n + 1) /\ n \in Nat
      BY <3>1, <3>2, <3>3, TaskTypes DEF BehindFile, None
    <3>5. file'[t] \in Nat /\ FileBytes(t) = file[t] /\ FileBytes(t)' = file'[t] /\ file[t] <= file'[t] /\ n + 1 <= file'[t]
      BY <3>4 DEF FileBytes, Max2
    <3>6. \A k \in orphans'[t] : k <= file'[t]
      BY <3>1, <3>2, <3>3, <3>4, <3>5, TaskTypes DEF BehindFile
    <3>7. file'[t] # None /\ (file[t] = Size => file'[t] = Size)
      BY <3>1, <3>4, TaskTypes DEF Max2, None
    <3>8. sav[t] <= file'[t] /\ fet[t] + hand[t] <= file'[t]
      BY <3>2, <3>3, <3>4, <3>5, TaskTypes DEF BehindFile
    <3> QED
      BY <2>1, <3>2, <3>3, <3>5, <3>6, <3>7, <3>8 DEF BehindFile
  <2>3. HasFetcher(t)'
    BY <1>1, <2>1, TaskTypes DEF OrphanWrites, TaskInv, BehindFile, HasFetcher, None

  <2>4. GoneSettled(t)' /\ DeletingSettled(t)'
    BY <1>1, <2>1, TaskTypes, StaysSettled DEF OrphanWrites, Settled, TaskInv, GoneSettled
  <2>5. TickLocks(t)'
    BY <2>1, TaskTypes DEF TaskInv, TickLocks
  <2> QED
    BY <2>2, <2>3, <2>4, <2>5 DEF TaskInv
<1>4. /\ UNCHANGED <<rec, sav, gone, status, fet, hand, active, result, slock, starts, pauses,
                     handler, watcher, listed, tick>>
      /\ \A u \in Tasks : u # t => file'[u] = file[u] /\ orphans'[u] = orphans[u]
  BY DEF OrphanWrites, StoreInv, TypeOK, TypeDisk, TypeMemory, TypeWork
<1> QED
  BY <1>1, <1>2, <1>3, <1>4, OneTask

\* So does it when it ends: what the watcher hears of it is true of the file.
LEMMA OrphanEndsInv ==
  ASSUME StoreInv, StoreConstants, NEW t \in Tasks, OrphanEnds(t)
  PROVE  StoreInv'
<1> USE DEF disk, memory, locks, others, past, bounds
<1>1. up' /\ call' = call
  BY UpTask DEF FetcherStep
<1>2. TypeOK'
  <2>1. TypeDisk'
    BY TaskTypes DEF OrphanEnds, Heard, StoreInv, TypeOK, TypeDisk, TypeMemory, StoreConstants,
       FileBytes, Max2, None
  <2>2. TypeMemory'
    BY TaskTypes DEF OrphanEnds, Heard, StoreInv, TypeOK, TypeMemory, Statuses
  <2>3. TypeWork'
    BY DEF OrphanEnds, Heard, StoreInv, TypeOK, TypeWork
  <2> QED
    BY <2>1, <2>2, <2>3 DEF TypeOK
<1>3. TaskInv(t)'
  <2>1. /\ UNCHANGED <<rec, sav, file, gone, status, fet, hand, active, slock, starts, pauses,
                       handler, watcher, listed, tick>>
        /\ (orphans'[t] \subseteq orphans[t])
        /\ (result'[t] = "ok" => result[t] = "ok" \/ Size \in orphans[t])
    BY DEF OrphanEnds, Heard, StoreInv, TypeOK, TypeDisk, TypeMemory, TypeWork
  <2>2. BehindFile(t)'
    BY <2>1, TaskTypes DEF OrphanEnds, TaskInv, BehindFile, HasFetcher, GoneSettled, FileBytes,
       Max2, None
  <2>3. HasFetcher(t)'
    BY <1>1, <2>1, TaskTypes DEF OrphanEnds, TaskInv, BehindFile, HasFetcher, None

  <2>4. GoneSettled(t)' /\ DeletingSettled(t)'
    BY <1>1, <2>1, TaskTypes, StaysSettled DEF OrphanEnds, Heard, Settled, TaskInv, GoneSettled
  <2>5. TickLocks(t)'
    BY <2>1, TaskTypes DEF TaskInv, TickLocks
  <2> QED
    BY <2>2, <2>3, <2>4, <2>5 DEF TaskInv
<1>4. /\ UNCHANGED <<rec, sav, file, gone, status, fet, hand, active, slock, starts, pauses,
                     handler, watcher, listed, tick>>
      /\ \A u \in Tasks : u # t => orphans'[u] = orphans[u] /\ result'[u] = result[u]
  BY DEF OrphanEnds, Heard, StoreInv, TypeOK, TypeDisk, TypeMemory, TypeWork
<1> QED
  BY <1>1, <1>2, <1>3, <1>4, OneTask

\* The watcher of a deleted task saves nothing: t is looked for in the list.
LEMMA WatchReturnsInv ==
  ASSUME StoreInv, StoreConstants, NEW t \in Tasks, WatchReturns(t)
  PROVE  StoreInv'
<1> USE DEF disk, memory, locks, others, past, bounds
<1>1. up' /\ call' = call
  BY UpTask DEF WatchStep
<1>2. TypeOK'
  <2>1. TypeDisk'
    BY TaskTypes DEF WatchReturns, StoreInv, TypeOK, TypeDisk, TypeMemory, StoreConstants,
       FileBytes, Max2, None
  <2>2. TypeMemory'
    BY TaskTypes DEF WatchReturns, StoreInv, TypeOK, TypeMemory, Statuses
  <2>3. TypeWork'
    BY DEF WatchReturns, StoreInv, TypeOK, TypeWork
  <2> QED
    BY <2>1, <2>2, <2>3 DEF TypeOK
<1>3. TaskInv(t)'
  <2>1. /\ UNCHANGED <<rec, sav, file, gone, fet, hand, active, orphans, slock, starts, pauses,
                       handler, listed, tick>>
        /\ result'[t] = "none" /\ (watcher'[t] = "put" => t \in listed)
        /\ (status'[t] = "error" \/ status'[t] = status[t] \/ (status'[t] = "done" /\ result[t] = "ok"))
    BY DEF WatchReturns, StoreInv, TypeOK, TypeDisk, TypeMemory, TypeWork
  <2>2. BehindFile(t)'
    BY <2>1, TaskTypes DEF WatchReturns, TaskInv, BehindFile, HasFetcher, GoneSettled, FileBytes,
       Max2, None
  <2>3. HasFetcher(t)'
    BY <1>1, <2>1, TaskTypes DEF WatchReturns, TaskInv, BehindFile, HasFetcher, None

  <2>4. GoneSettled(t)' /\ DeletingSettled(t)'
    BY <1>1, <2>1, TaskTypes, StaysSettled DEF WatchReturns, Settled, TaskInv, GoneSettled
  <2>5. TickLocks(t)'
    BY <2>1, TaskTypes DEF TaskInv, TickLocks
  <2> QED
    BY <2>2, <2>3, <2>4, <2>5 DEF TaskInv
<1>4. /\ UNCHANGED <<rec, sav, file, gone, fet, hand, active, orphans, slock, starts, pauses,
                     handler, listed, tick>>
      /\ \A u \in Tasks : u # t =>
           /\ result'[u] = result[u] /\ watcher'[u] = watcher[u] /\ status'[u] = status[u]
  BY DEF WatchReturns, StoreInv, TypeOK, TypeDisk, TypeMemory, TypeWork
<1> QED
  BY <1>1, <1>2, <1>3, <1>4, OneTask

\* The watcher records the end of a task that is still listed, or that waits for it.
LEMMA WatchPutsInv ==
  ASSUME StoreInv, StoreConstants, NEW t \in Tasks, WatchPuts(t)
  PROVE  StoreInv'
<1> USE DEF disk, memory, locks, others, past, bounds
<1>1. up' /\ call' = call
  BY UpTask DEF WatchStep
<1>2. TypeOK'
  <2>1. TypeDisk'
    BY TaskTypes DEF WatchPuts, PutTask, StoreInv, TypeOK, TypeDisk, TypeMemory, StoreConstants,
       FileBytes, Max2, None
  <2>2. TypeMemory'
    BY TaskTypes DEF WatchPuts, PutTask, StoreInv, TypeOK, TypeMemory, Statuses
  <2>3. TypeWork'
    BY DEF WatchPuts, PutTask, StoreInv, TypeOK, TypeWork
  <2> QED
    BY <2>1, <2>2, <2>3 DEF TypeOK
<1>3. TaskInv(t)'
  <2>1. /\ UNCHANGED <<sav, file, gone, status, fet, hand, active, orphans, result, slock, starts,
                       pauses, handler, listed, tick>>
        /\ rec'[t] = (IF open THEN status[t] ELSE rec[t]) /\ watcher'[t] = "off"
    BY DEF WatchPuts, PutTask, StoreInv, TypeOK, TypeDisk, TypeMemory, TypeWork
  <2>2. BehindFile(t)'
    BY <2>1, TaskTypes DEF WatchPuts, TaskInv, BehindFile, HasFetcher, GoneSettled, FileBytes,
       Max2, None
  <2>3. HasFetcher(t)'
    BY <1>1, <2>1, TaskTypes DEF WatchPuts, TaskInv, BehindFile, HasFetcher, None

  <2>4. GoneSettled(t)' /\ DeletingSettled(t)'
    <3>1. ~Settled(t)
      BY DEF WatchPuts, Settled
    <3> QED
      BY <1>1, <2>1, <3>1, TaskTypes, Unsettled
  <2>5. TickLocks(t)'
    BY <2>1, TaskTypes DEF TaskInv, TickLocks
  <2> QED
    BY <2>2, <2>3, <2>4, <2>5 DEF TaskInv
<1>4. /\ UNCHANGED <<sav, file, gone, status, fet, hand, active, orphans, result, slock, starts,
                     pauses, handler, listed, tick>>
      /\ \A u \in Tasks : u # t => rec'[u] = rec[u] /\ watcher'[u] = watcher[u]
  BY DEF WatchPuts, PutTask, StoreInv, TypeOK, TypeDisk, TypeMemory, TypeWork
<1> QED
  BY <1>1, <1>2, <1>3, <1>4, OneTask

\* The ticker saves a listed task, under its statusLock.
LEMMA TickChecksInv ==
  ASSUME StoreInv, StoreConstants, NEW t \in Tasks, TickChecks(t)
  PROVE  StoreInv'
<1> USE DEF disk, memory, locks, others, past, bounds
<1>1. up' /\ call' = call
  BY UpTask DEF TickStep
<1>2. TypeOK'
  <2>1. TypeDisk'
    BY TaskTypes DEF TickChecks, tickLooks, StoreInv, TypeOK, TypeDisk, TypeMemory, StoreConstants,
       FileBytes, Max2, None
  <2>2. TypeMemory'
    BY TaskTypes DEF TickChecks, tickLooks, StoreInv, TypeOK, TypeMemory, Statuses, None
  <2>3. TypeWork'
    BY DEF TickChecks, tickLooks, StoreInv, TypeOK, TypeWork
  <2> QED
    BY <2>1, <2>2, <2>3 DEF TypeOK
<1>3. TaskInv(t)'
  <2>1. /\ UNCHANGED <<rec, sav, file, gone, status, fet, hand, active, orphans, result, starts,
                       pauses, handler, watcher, listed>>
        /\ slock'[t] = "ticker" /\ tick' = <<t, "save">>
    BY DEF TickChecks, tickLooks, StoreInv, TypeOK, TypeDisk, TypeMemory, TypeWork
  <2>2. BehindFile(t)'
    BY <2>1, TaskTypes DEF TickChecks, TaskInv, BehindFile, HasFetcher, GoneSettled, FileBytes,
       Max2, None
  <2>3. HasFetcher(t)'
    BY <1>1, <2>1, TaskTypes DEF TickChecks, TaskInv, BehindFile, HasFetcher, None

  <2>4. GoneSettled(t)' /\ DeletingSettled(t)'
    <3>1. ~Settled(t)
      BY TaskTypes DEF TickChecks, Settled, tickLooks
    <3> QED
      BY <1>1, <2>1, <3>1, TaskTypes, Unsettled
  <2>5. TickLocks(t)'
    BY <2>1, TaskTypes DEF TaskInv, TickLocks, TickChecks
  <2> QED
    BY <2>2, <2>3, <2>4, <2>5 DEF TaskInv
<1>4. /\ UNCHANGED <<rec, sav, file, gone, status, fet, hand, active, orphans, result, starts,
                     pauses, handler, watcher, listed>>
      /\ \A u \in Tasks : u # t => slock'[u] = slock[u] /\ prog'[u] = prog[u]
  BY DEF TickChecks, tickLooks, StoreInv, TypeOK, TypeDisk, TypeMemory, TypeWork
<1>5. tick' = <<>> \/ \E x \in {"save", "put"} : tick' = <<t, x>>
  BY DEF TickChecks, tickLooks
<1> QED
  BY <1>1, <1>2, <1>3, <1>4, <1>5, OneTask

\* What the ticker saves is not being deleted: it holds the lock.
LEMMA TickSavesInv ==
  ASSUME StoreInv, StoreConstants, NEW t \in Tasks, TickSaves(t)
  PROVE  StoreInv'
<1> USE DEF disk, memory, locks, others, past, bounds
<1>1. up' /\ call' = call
  BY UpTask DEF TickStep
<1>2. TypeOK'
  <2>1. TypeDisk'
    BY TaskTypes DEF TickSaves, PutSave, StoreInv, TypeOK, TypeDisk, TypeMemory, StoreConstants,
       FileBytes, Max2, None
  <2>2. TypeMemory'
    BY TaskTypes DEF TickSaves, PutSave, StoreInv, TypeOK, TypeMemory, Statuses
  <2>3. TypeWork'
    BY DEF TickSaves, PutSave, StoreInv, TypeOK, TypeWork
  <2> QED
    BY <2>1, <2>2, <2>3 DEF TypeOK
<1>3. TaskInv(t)'
  <2>1. /\ UNCHANGED <<rec, file, gone, status, fet, hand, active, orphans, result, slock, starts,
                       pauses, handler, watcher, listed>>
        /\ sav'[t] = (IF open THEN fet[t] ELSE sav[t]) /\ tick' = <<t, "put">>
    BY DEF TickSaves, PutSave, StoreInv, TypeOK, TypeDisk, TypeMemory, TypeWork
  <2>2. BehindFile(t)'
    BY <2>1, TaskTypes DEF TickSaves, TaskInv, BehindFile, HasFetcher, GoneSettled, FileBytes,
       Max2, None
  <2>3. HasFetcher(t)'
    BY <1>1, <2>1, TaskTypes DEF TickSaves, TaskInv, BehindFile, HasFetcher, None

  <2>4. GoneSettled(t)' /\ DeletingSettled(t)'
    <3>1. ~Settled(t)
      BY TaskTypes DEF TickSaves, Settled, TaskInv, TickLocks, StoreConstants
    <3> QED
      BY <1>1, <2>1, <3>1, TaskTypes, Unsettled
  <2>5. TickLocks(t)'
    BY <2>1, TaskTypes DEF TaskInv, TickLocks, TickSaves
  <2> QED
    BY <2>2, <2>3, <2>4, <2>5 DEF TaskInv
<1>4. /\ UNCHANGED <<rec, file, gone, status, fet, hand, active, orphans, result, slock, starts,
                     pauses, handler, watcher, listed>>
      /\ \A u \in Tasks : u # t => sav'[u] = sav[u]
  BY DEF TickSaves, PutSave, StoreInv, TypeOK, TypeDisk, TypeMemory, TypeWork
<1>5. tick' = <<>> \/ \E x \in {"save", "put"} : tick' = <<t, x>>
  BY DEF TickSaves, PutSave
<1> QED
  BY <1>1, <1>2, <1>3, <1>4, <1>5, OneTask

\* The ticker releases the lock after its second transaction.
LEMMA TickPutsInv ==
  ASSUME StoreInv, StoreConstants, NEW t \in Tasks, TickPuts(t)
  PROVE  StoreInv'
<1> USE DEF disk, memory, locks, others, past, bounds
<1>1. up' /\ call' = call
  BY UpTask DEF TickStep
<1>2. TypeOK'
  <2>1. TypeDisk'
    BY TaskTypes DEF TickPuts, PutTask, StoreInv, TypeOK, TypeDisk, TypeMemory, StoreConstants,
       FileBytes, Max2, None
  <2>2. TypeMemory'
    BY TaskTypes DEF TickPuts, PutTask, StoreInv, TypeOK, TypeMemory, Statuses
  <2>3. TypeWork'
    BY DEF TickPuts, PutTask, StoreInv, TypeOK, TypeWork
  <2> QED
    BY <2>1, <2>2, <2>3 DEF TypeOK
<1>3. TaskInv(t)'
  <2>1. /\ UNCHANGED <<sav, file, gone, status, fet, hand, active, orphans, result, starts, pauses,
                       handler, watcher, listed>>
        /\ rec'[t] = (IF open THEN status[t] ELSE rec[t]) /\ tick' = <<>> /\ slock'[t] = Nobody
    BY DEF TickPuts, PutTask, StoreInv, TypeOK, TypeDisk, TypeMemory, TypeWork
  <2>2. BehindFile(t)'
    BY <2>1, TaskTypes DEF TickPuts, TaskInv, BehindFile, HasFetcher, GoneSettled, FileBytes, Max2,
       None
  <2>3. HasFetcher(t)'
    BY <1>1, <2>1, TaskTypes DEF TickPuts, TaskInv, BehindFile, HasFetcher, None

  <2>4. GoneSettled(t)' /\ DeletingSettled(t)'
    <3>1. ~Settled(t)
      BY TaskTypes DEF TickPuts, Settled, TaskInv, TickLocks, StoreConstants
    <3> QED
      BY <1>1, <2>1, <3>1, TaskTypes, Unsettled
  <2>5. TickLocks(t)'
    BY <2>1, TaskTypes DEF TaskInv, TickLocks, TickPuts
  <2> QED
    BY <2>2, <2>3, <2>4, <2>5 DEF TaskInv
<1>4. /\ UNCHANGED <<sav, file, gone, status, fet, hand, active, orphans, result, starts, pauses,
                     handler, watcher, listed>>
      /\ \A u \in Tasks : u # t => rec'[u] = rec[u] /\ slock'[u] = slock[u]
  BY DEF TickPuts, PutTask, StoreInv, TypeOK, TypeDisk, TypeMemory, TypeWork
<1>5. tick' = <<>> \/ \E x \in {"save", "put"} : tick' = <<t, x>>
  BY DEF TickPuts, PutTask
<1> QED
  BY <1>1, <1>2, <1>3, <1>4, <1>5, OneTask

\* A call is taken by a program that is up.
LEMMA UpCall ==
  ASSUME StoreInv, NEW c \in Clients, (\E t \in Tasks : ApiStep(c, t)) \/ Close(c) \/ CloseStorage(c)
  PROVE  up /\ up' = up
<1>1. up' = up
  BY DEF ApiStep, Create, CreateLists, Continue, Pause, Look, LookPops, PatchSaves, PatchPuts,
     Delete,
     DeletesRecord, DeletesSave, DeletesFile, Close, CloseStorage, disk
<1>2. ASSUME ~up PROVE FALSE
  <2>1. call[c] = idle /\ ~open
    BY <1>2 DEF StoreInv, Down
  <2>2. call[c].op = "idle" /\ call[c].at = "none"
    BY <2>1 DEF idle
  <2> QED
    BY <2>1, <2>2 DEF ApiStep, Create, CreateLists, Continue, Pause, Look, LookPops, PatchSaves,
       PatchPuts,
       Delete, DeletesRecord, DeletesSave, DeletesFile, Close, CloseStorage, Begin, At
<1> QED
  BY <1>1, <1>2

\* A step for the task t of a call about t.
LEMMA OneCall ==
  ASSUME StoreInv, StoreConstants, NEW t \in Tasks, NEW c \in Clients, TypeOK', TaskInv(t)', up',
         \A d \in Clients : d # c => call'[d] = call[d],
         call[c].t \in {t, None}, call'[c].t \in {t, None},
         call'[c].at = "pop" => call'[c].op \in {"stats", "patch"},
         \A u \in Tasks : u # t =>
           /\ rec'[u] = rec[u] /\ sav'[u] = sav[u] /\ file'[u] = file[u] /\ gone'[u] = gone[u]
           /\ status'[u] = status[u] /\ fet'[u] = fet[u] /\ hand'[u] = hand[u]
           /\ active'[u] = active[u] /\ orphans'[u] = orphans[u] /\ result'[u] = result[u],
         \A u \in Tasks : u # t =>
           /\ slock'[u] = slock[u] /\ starts'[u] = starts[u] /\ pauses'[u] = pauses[u]
           /\ handler'[u] = handler[u] /\ watcher'[u] = watcher[u] /\ (u \in listed' <=> u \in listed),
         tick' = tick
  PROVE  StoreInv'
<1>1. ASSUME NEW u \in Tasks, u # t PROVE TaskInv(u)'
  <2>1. \A d \in Clients : call'[d] = call[d] \/ (call[d].t # u /\ call'[d].t # u)
    BY <1>1 DEF StoreConstants
  <2> QED
    BY <1>1, <2>1, Untouched DEF StoreInv
<1>2. PopCalls'
  BY DEF StoreInv, PopCalls
<1> QED
  BY <1>1, <1>2 DEF StoreInv, Down

\* A new task has an ID nobody deletes, and a fetcher that counts nothing.
LEMMA CreateInv ==
  ASSUME StoreInv, StoreConstants, NEW t \in Tasks, NEW c \in Clients, Create(c, t)
  PROVE  StoreInv'
<1> USE DEF disk, memory, locks, others, past, bounds
<1>1. up'
  BY UpCall DEF ApiStep
<1>2. TypeOK'
  <2>1. TypeDisk'
    BY TaskTypes DEF Create, Begin, StoreInv, TypeOK, TypeDisk, TypeMemory, Statuses,
       StoreConstants, None
  <2>2. TypeMemory'
    BY TaskTypes DEF Create, Begin, StoreInv, TypeOK, TypeMemory, Statuses, None
  <2>3. TypeWork'
    BY DEF Create, Begin, StoreInv, TypeOK, TypeWork, Calls, Places, idle
  <2> QED
    BY <2>1, <2>2, <2>3 DEF TypeOK
<1>3. /\ \A d \in Clients : d # c => call'[d] = call[d]
      /\ call[c].t = None
      /\ call[c].op = "idle"
      /\ call'[c].t = t
      /\ call'[c].op = "create"
      /\ call'[c].at = "list"
  BY DEF Create, Begin, StoreInv, TypeOK, TypeWork, Calls, idle, None
<1>4. /\ UNCHANGED <<sav, file, gone, status, hand, active, orphans, result, slock, starts, pauses,
                     handler, watcher, listed, tick>>
      /\ \A u \in Tasks : u # t => rec'[u] = rec[u] /\ fet'[u] = fet[u]
  BY DEF Create, Begin, StoreInv, TypeOK, TypeDisk, TypeMemory, TypeWork
<1>5. TaskInv(t)'

  <2>1. ~gone[t] /\ \A d \in Clients : ~ (call[d].op = "delete" /\ call[d].t = t)
    BY <1>3, TaskTypes DEF Create
  <2>2. UNCHANGED <<sav, file, gone, status, hand, active, orphans, result, slock, starts, pauses,
                    handler, watcher, listed, tick>>
        /\ rec'[t] = "ready"
        /\ fet'[t] = 0
    BY <1>4 DEF Create, Begin, StoreInv, TypeOK, TypeDisk, TypeMemory, TypeWork
  <2>3. BehindFile(t)'
    BY <2>1, <2>2, <1>3, TaskTypes DEF Create, TaskInv, BehindFile, HasFetcher, FileBytes, Max2,
       None
  <2>4. HasFetcher(t)'
    BY <1>3, <2>1, <2>2, TaskTypes DEF Create, TaskInv, BehindFile, HasFetcher, None
  <2>5. GoneSettled(t)'
    BY <1>3, <2>1, <2>2, TaskTypes DEF Create, TaskInv, GoneSettled, DeletingSettled, Settled
  <2>6. DeletingSettled(t)'
    BY <1>3, <2>1, <2>2, TaskTypes DEF Create, TaskInv, DeletingSettled, Settled
  <2>7. TickLocks(t)'
    BY <2>2, TaskTypes DEF TaskInv, TickLocks
  <2> QED
    BY <2>3, <2>4, <2>5, <2>6, <2>7 DEF TaskInv
<1> QED
  BY <1>1, <1>2, <1>3, <1>4, <1>5, OneCall

\* One more goroutine of Start, and a watcher if there is none.
LEMMA LaunchTypes ==
  ASSUME TypeWork, NEW t \in Tasks, Launch(t)
  PROVE  starts' \in [Tasks -> Nat] /\ watcher' \in [Tasks -> {"off", "wait", "put"}]
<1>1. starts \in [Tasks -> Nat] /\ watcher \in [Tasks -> {"off", "wait", "put"}]
  BY DEF TypeWork
<1>2. starts' = [starts EXCEPT ![t] = @ + 1] /\ starts[t] + 1 \in Nat
  BY <1>1 DEF Launch
<1>3. watcher' = [watcher EXCEPT ![t] = IF @ = "off" THEN "wait" ELSE @]
  BY DEF Launch
<1>4. (IF watcher[t] = "off" THEN "wait" ELSE watcher[t]) \in {"off", "wait", "put"}
  BY <1>1
<1>5. starts' \in [Tasks -> Nat]
  BY <1>1, <1>2
<1> QED
  BY <1>1, <1>3, <1>4, <1>5

\* The list takes the task whose record was made by this call.
LEMMA CreateListsInv ==
  ASSUME StoreInv, StoreConstants, NEW t \in Tasks, NEW c \in Clients, CreateLists(c, t)
  PROVE  StoreInv'
<1> USE DEF disk, memory, locks, others, past, bounds
<1>1. up'
  BY UpCall DEF ApiStep
<1>2. TypeOK'
  <2>1. TypeDisk'
    BY TaskTypes DEF CreateLists, At, Go, Launch, StoreInv, TypeOK, TypeDisk, TypeMemory, Statuses,
       StoreConstants, None
  <2>2. TypeMemory'
    BY TaskTypes DEF CreateLists, At, Go, Launch, StoreInv, TypeOK, TypeMemory, Statuses, None
  <2>3. TypeWork'
    <3>1. call' \in [Clients -> [op : Calls \union {"idle"}, t : Tasks \union {None}, at : Places]]
      BY DEF CreateLists, Go, idle, StoreInv, TypeOK, TypeWork, Calls, Places
    <3>2. starts' \in [Tasks -> Nat] /\ watcher' \in [Tasks -> {"off", "wait", "put"}]
      <4>1. CASE starts' = starts /\ watcher' = [watcher EXCEPT ![t] = "wait"]
        BY <4>1 DEF StoreInv, TypeOK, TypeWork
      <4>2. CASE Launch(t)
        BY <4>2, LaunchTypes DEF StoreInv, TypeOK
      <4> QED
        BY <4>1, <4>2 DEF CreateLists
    <3>3. /\ slock' \in [Tasks -> {Nobody, "ticker"}] /\ pauses' \in [Tasks -> Nat]
          /\ handler' \in [Tasks -> {"free", "resolve", "start", "save", "record", "put"}]
          /\ tick' \in {<<>>} \union (Tasks \X {"save", "put"})
      BY DEF CreateLists, StoreInv, TypeOK, TypeWork
    <3> QED
      BY <3>1, <3>2, <3>3 DEF TypeWork
  <2> QED
    BY <2>1, <2>2, <2>3 DEF TypeOK
<1>3. /\ \A d \in Clients : d # c => call'[d] = call[d]
      /\ call[c].t = t
      /\ call[c].op = "create"
      /\ call[c].at = "list"
      /\ call'[c].t = None
      /\ call'[c].op = "idle"
      /\ call'[c].at = "none"
  BY DEF CreateLists, At, Go, Launch, StoreInv, TypeOK, TypeWork, Calls, idle, None
<1>4. /\ UNCHANGED <<rec, sav, file, gone, fet, hand, active, orphans, result, slock, pauses,
                     handler, tick>>
      /\ \A u \in Tasks : u # t =>
           /\ (u \in listed' <=> u \in listed) /\ status'[u] = status[u] /\ watcher'[u] = watcher[u]
           /\ starts'[u] = starts[u]
  BY DEF CreateLists, At, Go, Launch, StoreInv, TypeOK, TypeDisk, TypeMemory, TypeWork
<1>5. TaskInv(t)'

  <2>1. ~gone[t] /\ \A d \in Clients : ~ (call[d].op = "delete" /\ call[d].t = t)
    BY <1>3, TaskTypes DEF TaskInv, GoneSettled, DeletingSettled
  <2>2. UNCHANGED <<rec, sav, file, gone, fet, hand, active, orphans, result, slock, pauses,
                    handler, tick>>
        /\ listed' = listed \union {t}
        /\ (status'[t] \in {"wait", "running"})
    BY <1>4 DEF CreateLists, At, Go, Launch, StoreInv, TypeOK, TypeDisk, TypeMemory, TypeWork
  <2>3. BehindFile(t)'
    BY <2>1, <2>2, <1>3, TaskTypes DEF CreateLists, TaskInv, BehindFile, HasFetcher, FileBytes,
       Max2, None
  <2>4. HasFetcher(t)'
    BY <1>3, <2>1, <2>2, TaskTypes DEF CreateLists, TaskInv, BehindFile, HasFetcher, None
  <2>5. GoneSettled(t)'
    BY <1>3, <2>1, <2>2, TaskTypes DEF CreateLists, TaskInv, GoneSettled, DeletingSettled, Settled
  <2>6. DeletingSettled(t)'
    BY <1>3, <2>1, <2>2, TaskTypes DEF CreateLists, TaskInv, DeletingSettled, Settled
  <2>7. TickLocks(t)'
    BY <2>2, TaskTypes DEF TaskInv, TickLocks
  <2> QED
    BY <2>3, <2>4, <2>5, <2>6, <2>7 DEF TaskInv
<1> QED
  BY <1>1, <1>2, <1>3, <1>4, <1>5, OneCall

\* Patch saves a task it works on, which Delete at rest excludes.
LEMMA PatchSavesInv ==
  ASSUME StoreInv, StoreConstants, NEW t \in Tasks, NEW c \in Clients, PatchSaves(c, t)
  PROVE  StoreInv'
<1> USE DEF disk, memory, locks, others, past, bounds
<1>1. up'
  BY UpCall DEF ApiStep
<1>2. TypeOK'
  <2>1. TypeDisk'
    BY TaskTypes DEF PatchSaves, At, Go, PutSave, StoreInv, TypeOK, TypeDisk, TypeMemory, Statuses,
       StoreConstants, None
  <2>2. TypeMemory'
    BY TaskTypes DEF PatchSaves, At, Go, PutSave, StoreInv, TypeOK, TypeMemory, Statuses, None
  <2>3. TypeWork'
    <3>1. call' \in [Clients -> [op : Calls \union {"idle"}, t : Tasks \union {None}, at : Places]]
      <4>1. /\ call \in [Clients -> [op : Calls \union {"idle"}, t : Tasks \union {None}, at : Places]]
            /\ idle \in [op : Calls \union {"idle"}, t : Tasks \union {None}, at : Places]
        BY DEF StoreInv, TypeOK, TypeWork, idle, Places
      <4>2. \E r \in [op : Calls \union {"idle"}, t : Tasks \union {None}, at : Places] :
              call' = [call EXCEPT ![c] = r]
        BY <4>1 DEF PatchSaves, Go, Places
      <4> QED
        BY <4>1, <4>2
    <3> QED
      BY <3>1 DEF PatchSaves, StoreInv, TypeOK, TypeWork
  <2> QED
    BY <2>1, <2>2, <2>3 DEF TypeOK
<1>3. /\ \A d \in Clients : d # c => call'[d] = call[d]
      /\ call[c].t = t
      /\ call[c].op = "patch"
      /\ call[c].at = "save"
      /\ call'[c].t \in {t, None}
      /\ call'[c].at \notin {"pop", "list"}
      /\ call'[c].op # "delete"
  BY DEF PatchSaves, At, Go, PutSave, StoreInv, TypeOK, TypeWork, Calls, idle, None
<1>4. /\ UNCHANGED <<rec, file, gone, status, fet, hand, active, orphans, result, slock, starts,
                     pauses, handler, watcher, listed, tick>>
      /\ \A u \in Tasks : u # t => sav'[u] = sav[u]
  BY DEF PatchSaves, At, Go, PutSave, StoreInv, TypeOK, TypeDisk, TypeMemory, TypeWork
<1>5. TaskInv(t)'

  <2>1. ~gone[t] /\ \A d \in Clients : ~ (call[d].op = "delete" /\ call[d].t = t)
    BY <1>3, TaskTypes DEF TaskInv, GoneSettled, DeletingSettled
  <2>2. UNCHANGED <<rec, file, gone, status, fet, hand, active, orphans, result, slock, starts,
                    pauses, handler, watcher, listed, tick>>
        /\ sav'[t] = (IF open THEN fet[t] ELSE sav[t])
    BY <1>4 DEF PatchSaves, At, Go, PutSave, StoreInv, TypeOK, TypeDisk, TypeMemory, TypeWork
  <2>3. BehindFile(t)'
    BY <2>1, <2>2, <1>3, TaskTypes DEF PatchSaves, TaskInv, BehindFile, HasFetcher, FileBytes,
       Max2, None
  <2>4. HasFetcher(t)'
    BY <1>3, <2>1, <2>2, TaskTypes DEF PatchSaves, TaskInv, BehindFile, HasFetcher, None
  <2>5. GoneSettled(t)'
    BY <1>3, <2>1, <2>2, TaskTypes DEF PatchSaves, TaskInv, GoneSettled, DeletingSettled, Settled
  <2>6. DeletingSettled(t)'
    BY <1>3, <2>1, <2>2, TaskTypes DEF PatchSaves, TaskInv, DeletingSettled, Settled
  <2>7. TickLocks(t)'
    BY <2>2, TaskTypes DEF TaskInv, TickLocks
  <2> QED
    BY <2>3, <2>4, <2>5, <2>6, <2>7 DEF TaskInv
<1> QED
  BY <1>1, <1>2, <1>3, <1>4, <1>5, OneCall

\* So does its second transaction.
LEMMA PatchPutsInv ==
  ASSUME StoreInv, StoreConstants, NEW t \in Tasks, NEW c \in Clients, PatchPuts(c, t)
  PROVE  StoreInv'
<1> USE DEF disk, memory, locks, others, past, bounds
<1>1. up'
  BY UpCall DEF ApiStep
<1>2. TypeOK'
  <2>1. TypeDisk'
    BY TaskTypes DEF PatchPuts, At, Go, PutTask, StoreInv, TypeOK, TypeDisk, TypeMemory, Statuses,
       StoreConstants, None
  <2>2. TypeMemory'
    BY TaskTypes DEF PatchPuts, At, Go, PutTask, StoreInv, TypeOK, TypeMemory, Statuses, None
  <2>3. TypeWork'
    BY DEF PatchPuts, At, Go, PutTask, StoreInv, TypeOK, TypeWork, Calls, Places, idle
  <2> QED
    BY <2>1, <2>2, <2>3 DEF TypeOK
<1>3. /\ \A d \in Clients : d # c => call'[d] = call[d]
      /\ call[c].t = t
      /\ call[c].op = "patch"
      /\ call[c].at = "put"
      /\ call'[c].t = None
      /\ call'[c].op = "idle"
      /\ call'[c].at = "none"
  BY DEF PatchPuts, At, Go, PutTask, StoreInv, TypeOK, TypeWork, Calls, idle, None
<1>4. /\ UNCHANGED <<sav, file, gone, status, fet, hand, active, orphans, result, slock, starts,
                     pauses, handler, watcher, listed, tick>>
      /\ \A u \in Tasks : u # t => rec'[u] = rec[u]
  BY DEF PatchPuts, At, Go, PutTask, StoreInv, TypeOK, TypeDisk, TypeMemory, TypeWork
<1>5. TaskInv(t)'

  <2>1. ~gone[t] /\ \A d \in Clients : ~ (call[d].op = "delete" /\ call[d].t = t)
    BY <1>3, TaskTypes DEF TaskInv, GoneSettled, DeletingSettled
  <2>2. UNCHANGED <<sav, file, gone, status, fet, hand, active, orphans, result, slock, starts,
                    pauses, handler, watcher, listed, tick>>
        /\ rec'[t] = (IF open THEN status[t] ELSE rec[t])
    BY <1>4 DEF PatchPuts, At, Go, PutTask, StoreInv, TypeOK, TypeDisk, TypeMemory, TypeWork
  <2>3. BehindFile(t)'
    BY <2>1, <2>2, <1>3, TaskTypes DEF PatchPuts, TaskInv, BehindFile, HasFetcher, FileBytes, Max2,
       None
  <2>4. HasFetcher(t)'
    BY <1>3, <2>1, <2>2, TaskTypes DEF PatchPuts, TaskInv, BehindFile, HasFetcher, None
  <2>5. GoneSettled(t)'
    BY <1>3, <2>1, <2>2, TaskTypes DEF PatchPuts, TaskInv, GoneSettled, DeletingSettled, Settled
  <2>6. DeletingSettled(t)'
    BY <1>3, <2>1, <2>2, TaskTypes DEF PatchPuts, TaskInv, DeletingSettled, Settled
  <2>7. TickLocks(t)'
    BY <2>2, TaskTypes DEF TaskInv, TickLocks
  <2> QED
    BY <2>3, <2>4, <2>5, <2>6, <2>7 DEF TaskInv
<1> QED
  BY <1>1, <1>2, <1>3, <1>4, <1>5, OneCall

\* A restored fetcher counts what was stored; the one it replaces was behind the file.
LEMMA LookPopsInv ==
  ASSUME StoreInv, StoreConstants, NEW t \in Tasks, NEW c \in Clients, LookPops(c, t)
  PROVE  StoreInv'
<1> USE DEF disk, memory, locks, others, past, bounds
<1>1. up'
  BY UpCall DEF ApiStep
<1>2. TypeOK'
  <2>1. TypeDisk'
    BY TaskTypes DEF LookPops, At, Go, Pop, Replace, StoreInv, TypeOK, TypeDisk, TypeMemory,
       Statuses, StoreConstants, None, restored
  <2>2. TypeMemory'
    <3>1. CASE open
      <4>1. /\ fet' = [fet EXCEPT ![t] = restored(t)] /\ active' = [active EXCEPT ![t] = FALSE]
            /\ hand' = [hand EXCEPT ![t] = 0]
            /\ orphans' = [orphans EXCEPT ![t] = IF active[t] THEN @ \union {fet[t] + hand[t]} ELSE @]
        BY <3>1 DEF LookPops, Pop, Replace
      <4>2. active[t] => fet[t] + hand[t] \in 0..Size
        BY TaskTypes DEF TaskInv, HasFetcher, BehindFile, GoneSettled, None
      <4>3. restored(t) \in None..Size
        BY TaskTypes DEF restored, None
      <4>4. (IF active[t] THEN orphans[t] \union {fet[t] + hand[t]} ELSE orphans[t]) \in SUBSET (0..Size)
        BY <4>2 DEF StoreInv, TypeOK, TypeMemory
      <4>5. orphans' \in [Tasks -> SUBSET (0..Size)]
        BY <4>1, <4>4 DEF StoreInv, TypeOK, TypeMemory
      <4> QED
        BY <4>1, <4>3, <4>5 DEF LookPops, StoreInv, TypeOK, TypeMemory
    <3>2. CASE ~open
      BY <3>2 DEF LookPops, StoreInv, TypeOK, TypeMemory
    <3> QED
      BY <3>1, <3>2
  <2>3. TypeWork'
    <3>1. call' \in [Clients -> [op : Calls \union {"idle"}, t : Tasks \union {None}, at : Places]]
      <4>1. /\ call \in [Clients -> [op : Calls \union {"idle"}, t : Tasks \union {None}, at : Places]]
            /\ idle \in [op : Calls \union {"idle"}, t : Tasks \union {None}, at : Places]
        BY DEF StoreInv, TypeOK, TypeWork, idle, Places
      <4>2. \E r \in [op : Calls \union {"idle"}, t : Tasks \union {None}, at : Places] :
              call' = [call EXCEPT ![c] = r]
        BY <4>1 DEF LookPops, Go, Places
      <4> QED
        BY <4>1, <4>2
    <3> QED
      BY <3>1 DEF LookPops, StoreInv, TypeOK, TypeWork
  <2> QED
    BY <2>1, <2>2, <2>3 DEF TypeOK
<1>3. /\ \A d \in Clients : d # c => call'[d] = call[d]
      /\ call[c].t = t
      /\ call[c].op \in {"stats", "patch"}
      /\ call[c].at = "pop"
      /\ call'[c].t \in {t, None}
      /\ call'[c].at \notin {"pop", "list"}
      /\ call'[c].op # "delete"
  <2>1. call[c].t = t /\ call[c].at = "pop" /\ call[c].op \in {"stats", "patch"}
    BY DEF LookPops, StoreInv, PopCalls
  <2>2. \/ Go(c, "end") \/ Go(c, "save")
    BY DEF LookPops
  <2>3. call \in [Clients -> [op : Calls \union {"idle"}, t : Tasks \union {None}, at : Places]]
    BY DEF StoreInv, TypeOK, TypeWork
  <2>4. CASE Go(c, "end")
    BY <2>1, <2>3, <2>4 DEF Go, idle, None
  <2>5. CASE Go(c, "save")
    <3>1. call' = [call EXCEPT ![c] = [@ EXCEPT !.at = "save"]]
      BY <2>5 DEF Go
    <3>2. call'[c] = [call[c] EXCEPT !.at = "save"] /\ \A d \in Clients : d # c => call'[d] = call[d]
      BY <3>1, <2>3
    <3>3. call'[c].t = call[c].t /\ call'[c].op = call[c].op /\ call'[c].at = "save"
      BY <3>2, <2>3
    <3> QED
      BY <2>1, <3>2, <3>3
  <2> QED
    BY <2>2, <2>4, <2>5
<1>4. /\ UNCHANGED <<rec, file, gone, status, result, slock, starts, pauses, handler, watcher,
                     listed, tick>>
      /\ \A u \in Tasks : u # t =>
           /\ sav'[u] = sav[u] /\ fet'[u] = fet[u] /\ active'[u] = active[u]
           /\ hand'[u] = hand[u] /\ orphans'[u] = orphans[u]
  BY DEF LookPops, At, Go, Pop, Replace, StoreInv, TypeOK, TypeDisk, TypeMemory, TypeWork
<1>5. TaskInv(t)'

  <2>1. ~gone[t] /\ \A d \in Clients : ~ (call[d].op = "delete" /\ call[d].t = t)
    BY <1>3, TaskTypes DEF TaskInv, GoneSettled, DeletingSettled, StoreInv, PopCalls
  <2>2. UNCHANGED <<rec, file, gone, status, result, slock, starts, pauses, handler, watcher,
                    listed, tick>>
        /\ sav'[t] = (IF open THEN None ELSE sav[t])
        /\ fet'[t] = (IF open THEN restored(t) ELSE fet[t])
        /\ (active'[t] => active[t] /\ ~open)
        /\ hand'[t] = (IF open THEN 0 ELSE hand[t])
        /\ orphans'[t] = (IF open /\ active[t] THEN orphans[t] \union {fet[t] + hand[t]} ELSE orphans[t])
    <3>1. CASE open
      <4>1. /\ sav' = [sav EXCEPT ![t] = None] /\ fet' = [fet EXCEPT ![t] = restored(t)]
            /\ active' = [active EXCEPT ![t] = FALSE] /\ hand' = [hand EXCEPT ![t] = 0]
            /\ orphans' = [orphans EXCEPT ![t] = IF active[t] THEN @ \union {fet[t] + hand[t]} ELSE @]
        BY <3>1 DEF LookPops, Pop, Replace
      <4> QED
        BY <1>4, <3>1, <4>1 DEF StoreInv, TypeOK, TypeDisk, TypeMemory
    <3>2. CASE ~open
      BY <1>4, <3>2 DEF LookPops
    <3> QED
      BY <3>1, <3>2
  <2>3. BehindFile(t)'
    <3>1. /\ sav[t] <= FileBytes(t) /\ fet[t] + hand[t] <= FileBytes(t)
          /\ \A n \in orphans[t] : n <= FileBytes(t)
          /\ status[t] = "done" \/ rec[t] = "done" \/ result[t] = "ok" => file[t] = Size
          /\ active[t] \/ orphans[t] # {} => file[t] # None
      BY <2>1, TaskTypes DEF TaskInv, BehindFile
    <3>2. sav'[t] <= FileBytes(t) /\ fet'[t] + hand'[t] <= FileBytes(t)
      BY <2>2, <3>1, TaskTypes DEF restored, None
    <3>3. \A n \in orphans'[t] : n <= FileBytes(t)
      BY <2>2, <3>1
    <3>4. FileBytes(t)' = FileBytes(t)
      BY <2>2 DEF FileBytes
    <3>5. active'[t] \/ orphans'[t] # {} => file'[t] # None
      BY <2>2, <3>1
    <3> QED
      BY <2>2, <3>1, <3>2, <3>3, <3>4, <3>5 DEF BehindFile
  <2>4. HasFetcher(t)'
    BY <1>3, <2>1, <2>2, TaskTypes DEF LookPops, TaskInv, BehindFile, HasFetcher, None, restored
  <2>5. GoneSettled(t)'
    BY <1>3, <2>1, <2>2, TaskTypes DEF LookPops, TaskInv, GoneSettled, DeletingSettled, Settled
  <2>6. DeletingSettled(t)'
    BY <1>3, <2>1, <2>2, TaskTypes DEF LookPops, TaskInv, DeletingSettled, Settled
  <2>7. TickLocks(t)'
    BY <2>2, TaskTypes DEF TaskInv, TickLocks
  <2> QED
    BY <2>3, <2>4, <2>5, <2>6, <2>7 DEF TaskInv
<1> QED
  BY <1>1, <1>2, <1>3, <1>4, <1>5, OneCall

\* Stats and Patch begin only with a listed task.
LEMMA LookInv ==
  ASSUME StoreInv, StoreConstants, NEW t \in Tasks, NEW c \in Clients,
         NEW op \in {"stats", "patch"}, Look(c, op, t)
  PROVE  StoreInv'
<1> USE DEF disk, memory, locks, others, past, bounds
<1>1. up'
  BY UpCall DEF ApiStep
<1>2. TypeOK'
  <2>1. TypeDisk'
    BY TaskTypes DEF Look, Begin, StoreInv, TypeOK, TypeDisk, TypeMemory, Statuses, StoreConstants,
       None
  <2>2. TypeMemory'
    BY TaskTypes DEF Look, Begin, StoreInv, TypeOK, TypeMemory, Statuses, None
  <2>3. TypeWork'
    BY DEF Look, Begin, StoreInv, TypeOK, TypeWork, Calls, Places, idle
  <2> QED
    BY <2>1, <2>2, <2>3 DEF TypeOK
<1>3. /\ \A d \in Clients : d # c => call'[d] = call[d]
      /\ call[c].t = None
      /\ call[c].op = "idle"
      /\ call'[c].t \in {t, None}
      /\ call'[c].op # "delete"
      /\ call'[c].at # "list"
      /\ call'[c].at = "pop" => fet[t] = None /\ call'[c].op \in {"stats", "patch"}
  BY DEF Look, Begin, StoreInv, TypeOK, TypeWork, Calls, idle, None
<1>4. /\ UNCHANGED <<rec, sav, file, gone, status, fet, hand, active, orphans, result, slock,
                     starts, pauses, handler, watcher, listed, tick>>
  BY DEF Look, Begin, StoreInv, TypeOK, TypeDisk, TypeMemory, TypeWork
<1>5. TaskInv(t)'

  <2>1. ~gone[t] /\ \A d \in Clients : ~ (call[d].op = "delete" /\ call[d].t = t)
    BY <1>3, TaskTypes DEF TaskInv, GoneSettled, DeletingSettled, Settled, Look
  <2>2. UNCHANGED <<rec, sav, file, gone, status, fet, hand, active, orphans, result, slock,
                    starts, pauses, handler, watcher, listed, tick>>
    BY <1>4 DEF Look, Begin, StoreInv, TypeOK, TypeDisk, TypeMemory, TypeWork
  <2>3. BehindFile(t)'
    BY <2>1, <2>2, <1>3, TaskTypes DEF Look, TaskInv, BehindFile, HasFetcher, FileBytes, Max2, None
  <2>4. HasFetcher(t)'
    BY <1>3, <2>1, <2>2, TaskTypes DEF Look, TaskInv, BehindFile, HasFetcher, None
  <2>5. GoneSettled(t)'
    BY <1>3, <2>1, <2>2, TaskTypes DEF Look, TaskInv, GoneSettled, DeletingSettled, Settled
  <2>6. DeletingSettled(t)'
    BY <1>3, <2>1, <2>2, TaskTypes DEF Look, TaskInv, DeletingSettled, Settled
  <2>7. TickLocks(t)'
    BY <2>2, TaskTypes DEF TaskInv, TickLocks
  <2> QED
    BY <2>3, <2>4, <2>5, <2>6, <2>7 DEF TaskInv
<1> QED
  BY <1>1, <1>2, <1>3, <1>4, <1>5, OneCall

\* Delete at rest finds nothing on its way and leaves nothing.
LEMMA DeleteInv ==
  ASSUME StoreInv, StoreConstants, NEW t \in Tasks, NEW c \in Clients, Delete(c, t)
  PROVE  StoreInv'
<1> USE DEF disk, memory, locks, others, past, bounds
<1>1. up'
  BY UpCall DEF ApiStep
<1>2. TypeOK'
  <2>1. TypeDisk'
    BY TaskTypes DEF Delete, Begin, StoreInv, TypeOK, TypeDisk, TypeMemory, Statuses,
       StoreConstants, None
  <2>2. TypeMemory'
    BY TaskTypes DEF Delete, Begin, StoreInv, TypeOK, TypeMemory, Statuses, None
  <2>3. TypeWork'
    BY DEF Delete, Begin, StoreInv, TypeOK, TypeWork, Calls, Places, idle
  <2> QED
    BY <2>1, <2>2, <2>3 DEF TypeOK
<1>3. /\ \A d \in Clients : d # c => call'[d] = call[d]
      /\ call[c].t = None
      /\ call[c].op = "idle"
      /\ call'[c].t = t
      /\ call'[c].op = "delete"
      /\ call'[c].at = "record"
  BY DEF Delete, Begin, StoreInv, TypeOK, TypeWork, Calls, idle, None
<1>4. /\ UNCHANGED <<rec, sav, file, gone, status, fet, hand, active, orphans, result, slock,
                     starts, pauses, handler, watcher, tick>>
      /\ \A u \in Tasks : u # t => (u \in listed' <=> u \in listed)
  BY DEF Delete, Begin, StoreInv, TypeOK, TypeDisk, TypeMemory, TypeWork
<1>5. TaskInv(t)'

  <2>1. ~gone[t] /\ \A d \in Clients : ~ (call[d].op = "delete" /\ call[d].t = t)
    BY <1>3, TaskTypes DEF TaskInv, GoneSettled, DeletingSettled, Settled, Delete
  <2>2. UNCHANGED <<rec, sav, file, gone, status, fet, hand, active, orphans, result, slock,
                    starts, pauses, handler, watcher, tick>>
        /\ listed' = listed \ {t}
    BY <1>4 DEF Delete, Begin, StoreInv, TypeOK, TypeDisk, TypeMemory, TypeWork
  <2>3. BehindFile(t)'
    BY <2>1, <2>2, <1>3, TaskTypes DEF Delete, TaskInv, BehindFile, HasFetcher, FileBytes, Max2,
       None
  <2>4. HasFetcher(t)'
    BY <1>3, <2>1, <2>2, TaskTypes DEF Delete, TaskInv, BehindFile, HasFetcher, None
  <2>5. GoneSettled(t)'
    BY <1>3, <2>1, <2>2, TaskTypes DEF Delete, TaskInv, GoneSettled, DeletingSettled, Settled
  <2>6. DeletingSettled(t)'
    BY <1>3, <2>1, <2>2, TaskTypes DEF Delete, TaskInv, DeletingSettled, Settled, AtRest,
       StoreConstants
  <2>7. TickLocks(t)'
    BY <2>2, TaskTypes DEF TaskInv, TickLocks
  <2> QED
    BY <2>3, <2>4, <2>5, <2>6, <2>7 DEF TaskInv
<1> QED
  BY <1>1, <1>2, <1>3, <1>4, <1>5, OneCall

\* The record goes first, under the one call that deletes the task.
LEMMA DeletesRecordInv ==
  ASSUME StoreInv, StoreConstants, NEW t \in Tasks, NEW c \in Clients, DeletesRecord(c, t)
  PROVE  StoreInv'
<1> USE DEF disk, memory, locks, others, past, bounds
<1>1. up'
  BY UpCall DEF ApiStep
<1>2. TypeOK'
  <2>1. TypeDisk'
    BY TaskTypes DEF DeletesRecord, At, Go, StoreInv, TypeOK, TypeDisk, TypeMemory, Statuses,
       StoreConstants, None
  <2>2. TypeMemory'
    BY TaskTypes DEF DeletesRecord, At, Go, StoreInv, TypeOK, TypeMemory, Statuses, None
  <2>3. TypeWork'
    <3>1. call' \in [Clients -> [op : Calls \union {"idle"}, t : Tasks \union {None}, at : Places]]
      <4>1. /\ call \in [Clients -> [op : Calls \union {"idle"}, t : Tasks \union {None}, at : Places]]
            /\ idle \in [op : Calls \union {"idle"}, t : Tasks \union {None}, at : Places]
        BY DEF StoreInv, TypeOK, TypeWork, idle, Places
      <4>2. \E r \in [op : Calls \union {"idle"}, t : Tasks \union {None}, at : Places] :
              call' = [call EXCEPT ![c] = r]
        BY <4>1 DEF DeletesRecord, Go, Places
      <4> QED
        BY <4>1, <4>2
    <3> QED
      BY <3>1 DEF DeletesRecord, StoreInv, TypeOK, TypeWork
  <2> QED
    BY <2>1, <2>2, <2>3 DEF TypeOK
<1>3. /\ \A d \in Clients : d # c => call'[d] = call[d]
      /\ call[c].t = t
      /\ call[c].op = "delete"
      /\ call[c].at = "record"
      /\ call'[c].t = (IF open THEN t ELSE None)
      /\ call'[c].op = (IF open THEN "delete" ELSE "idle")
      /\ call'[c].at = (IF open THEN "save" ELSE "none")
  BY DEF DeletesRecord, At, Go, StoreInv, TypeOK, TypeWork, Calls, idle, None
<1>4. /\ UNCHANGED <<sav, file, gone, status, fet, hand, active, orphans, result, slock, starts,
                     pauses, handler, watcher, listed, tick>>
      /\ \A u \in Tasks : u # t => rec'[u] = rec[u]
  BY DEF DeletesRecord, At, Go, StoreInv, TypeOK, TypeDisk, TypeMemory, TypeWork
<1>5. TaskInv(t)'

  <2>1. ~gone[t]
    BY <1>3, TaskTypes DEF TaskInv, GoneSettled
  <2>2. UNCHANGED <<sav, file, gone, status, fet, hand, active, orphans, result, slock, starts,
                    pauses, handler, watcher, listed, tick>>
        /\ rec'[t] = (IF open THEN "none" ELSE rec[t])
    BY <1>4 DEF DeletesRecord, At, Go, StoreInv, TypeOK, TypeDisk, TypeMemory, TypeWork
  <2>3. BehindFile(t)'
    BY <2>1, <2>2, <1>3, TaskTypes DEF DeletesRecord, TaskInv, BehindFile, HasFetcher, FileBytes,
       Max2, None
  <2>4. HasFetcher(t)'
    BY <1>3, <2>1, <2>2, TaskTypes DEF DeletesRecord, TaskInv, BehindFile, HasFetcher, None
  <2>5. GoneSettled(t)'
    BY <1>3, <2>1, <2>2, TaskTypes DEF DeletesRecord, TaskInv, GoneSettled, DeletingSettled, Settled
  <2>6. DeletingSettled(t)'
    BY <1>3, <2>1, <2>2, TaskTypes DEF DeletesRecord, TaskInv, DeletingSettled, Settled
  <2>7. TickLocks(t)'
    BY <2>2, TaskTypes DEF TaskInv, TickLocks
  <2> QED
    BY <2>3, <2>4, <2>5, <2>6, <2>7 DEF TaskInv
<1> QED
  BY <1>1, <1>2, <1>3, <1>4, <1>5, OneCall

\* The saved state goes next.
LEMMA DeletesSaveInv ==
  ASSUME StoreInv, StoreConstants, NEW t \in Tasks, NEW c \in Clients, DeletesSave(c, t)
  PROVE  StoreInv'
<1> USE DEF disk, memory, locks, others, past, bounds
<1>1. up'
  BY UpCall DEF ApiStep
<1>2. TypeOK'
  <2>1. TypeDisk'
    BY TaskTypes DEF DeletesSave, At, Go, deleteSave, StoreInv, TypeOK, TypeDisk, TypeMemory,
       Statuses, StoreConstants, None
  <2>2. TypeMemory'
    BY TaskTypes DEF DeletesSave, At, Go, deleteSave, StoreInv, TypeOK, TypeMemory, Statuses, None
  <2>3. TypeWork'
    <3>1. call' \in [Clients -> [op : Calls \union {"idle"}, t : Tasks \union {None}, at : Places]]
      <4>1. /\ call \in [Clients -> [op : Calls \union {"idle"}, t : Tasks \union {None}, at : Places]]
            /\ idle \in [op : Calls \union {"idle"}, t : Tasks \union {None}, at : Places]
        BY DEF StoreInv, TypeOK, TypeWork, idle, Places
      <4>2. \E r \in [op : Calls \union {"idle"}, t : Tasks \union {None}, at : Places] :
              call' = [call EXCEPT ![c] = r]
        BY <4>1 DEF DeletesSave, Go, Places
      <4> QED
        BY <4>1, <4>2
    <3> QED
      BY <3>1 DEF DeletesSave, StoreInv, TypeOK, TypeWork
  <2> QED
    BY <2>1, <2>2, <2>3 DEF TypeOK
<1>3. /\ \A d \in Clients : d # c => call'[d] = call[d]
      /\ call[c].t = t
      /\ call[c].op = "delete"
      /\ call[c].at = "save"
      /\ call'[c].t = (IF open THEN t ELSE None)
      /\ call'[c].op = (IF open THEN "delete" ELSE "idle")
      /\ call'[c].at = (IF open THEN "close" ELSE "none")
  BY DEF DeletesSave, At, Go, deleteSave, StoreInv, TypeOK, TypeWork, Calls, idle, None
<1>4. /\ UNCHANGED <<rec, file, gone, status, fet, hand, active, orphans, result, slock, starts,
                     pauses, handler, watcher, listed, tick>>
      /\ \A u \in Tasks : u # t => sav'[u] = sav[u]
  BY DEF DeletesSave, At, Go, deleteSave, StoreInv, TypeOK, TypeDisk, TypeMemory, TypeWork
<1>5. TaskInv(t)'

  <2>1. ~gone[t]
    BY <1>3, TaskTypes DEF TaskInv, GoneSettled
  <2>2. UNCHANGED <<rec, file, gone, status, fet, hand, active, orphans, result, slock, starts,
                    pauses, handler, watcher, listed, tick>>
        /\ sav'[t] = (IF open THEN None ELSE sav[t])
    BY <1>4 DEF DeletesSave, At, Go, deleteSave, StoreInv, TypeOK, TypeDisk, TypeMemory, TypeWork
  <2>3. BehindFile(t)'
    BY <2>1, <2>2, <1>3, TaskTypes DEF DeletesSave, TaskInv, BehindFile, HasFetcher, FileBytes,
       Max2, None
  <2>4. HasFetcher(t)'
    BY <1>3, <2>1, <2>2, TaskTypes DEF DeletesSave, TaskInv, BehindFile, HasFetcher, None
  <2>5. GoneSettled(t)'
    BY <1>3, <2>1, <2>2, TaskTypes DEF DeletesSave, TaskInv, GoneSettled, DeletingSettled, Settled
  <2>6. DeletingSettled(t)'
    BY <1>3, <2>1, <2>2, TaskTypes DEF DeletesSave, TaskInv, DeletingSettled, Settled
  <2>7. TickLocks(t)'
    BY <2>2, TaskTypes DEF TaskInv, TickLocks
  <2> QED
    BY <2>3, <2>4, <2>5, <2>6, <2>7 DEF TaskInv
<1> QED
  BY <1>1, <1>2, <1>3, <1>4, <1>5, OneCall

\* When Delete returns all is settled, and the task may be called gone.
LEMMA DeletesFileInv ==
  ASSUME StoreInv, StoreConstants, NEW t \in Tasks, NEW c \in Clients, DeletesFile(c, t)
  PROVE  StoreInv'
<1> USE DEF disk, memory, locks, others, past, bounds
<1>1. up'
  BY UpCall DEF ApiStep
<1>2. TypeOK'
  <2>1. TypeDisk'
    BY TaskTypes DEF DeletesFile, At, Go, StoreInv, TypeOK, TypeDisk, TypeMemory, Statuses,
       StoreConstants, None
  <2>2. TypeMemory'
    BY TaskTypes DEF DeletesFile, At, Go, StoreInv, TypeOK, TypeMemory, Statuses, None
  <2>3. TypeWork'
    BY DEF DeletesFile, At, Go, StoreInv, TypeOK, TypeWork, Calls, Places, idle
  <2> QED
    BY <2>1, <2>2, <2>3 DEF TypeOK
<1>3. /\ \A d \in Clients : d # c => call'[d] = call[d]
      /\ call[c].t = t
      /\ call[c].op = "delete"
      /\ call[c].at = "close"
      /\ call'[c].t = None
      /\ call'[c].op = "idle"
      /\ call'[c].at = "none"
  BY DEF DeletesFile, At, Go, StoreInv, TypeOK, TypeWork, Calls, idle, None
<1>4. /\ UNCHANGED <<rec, sav, status, fet, hand, orphans, result, slock, starts, pauses, handler,
                     watcher, listed, tick>>
      /\ \A u \in Tasks : u # t =>
           /\ active'[u] = active[u] /\ gone'[u] = gone[u] /\ file'[u] = file[u]
  BY DEF DeletesFile, At, Go, StoreInv, TypeOK, TypeDisk, TypeMemory, TypeWork
<1>5. TaskInv(t)'

  <2>1. ~gone[t]
    BY <1>3, TaskTypes DEF TaskInv, GoneSettled
  <2>2. UNCHANGED <<rec, sav, status, fet, hand, orphans, result, slock, starts, pauses, handler,
                    watcher, listed, tick>>
        /\ active'[t] = FALSE
        /\ gone'[t] = TRUE
        /\ (file'[t] \in {None, file[t]})
    BY <1>4 DEF DeletesFile, At, Go, StoreInv, TypeOK, TypeDisk, TypeMemory, TypeWork
  <2>3. BehindFile(t)'
    BY <2>1, <2>2, <1>3, TaskTypes DEF DeletesFile, TaskInv, BehindFile, HasFetcher, FileBytes,
       Max2, None
  <2>4. HasFetcher(t)'
    BY <1>3, <2>1, <2>2, TaskTypes DEF DeletesFile, TaskInv, BehindFile, HasFetcher, None
  <2>5. GoneSettled(t)'
    <3>1. DeletingSettled(t)
      BY TaskTypes DEF TaskInv
    <3>2. Settled(t) /\ rec[t] = "none" /\ sav[t] = None /\ \A d \in Clients : call[d].t = t => d = c
      BY <3>1, <1>3 DEF DeletingSettled
    <3>3. Settled(t)' /\ rec'[t] = "none" /\ sav'[t] = None
      BY <2>2, <3>2 DEF Settled
    <3>4. hand'[t] = 0 /\ ~active'[t]
      BY <2>2 DEF DeletesFile
    <3>5. \A d \in Clients : call'[d].t # t
      BY <1>3, <3>2 DEF StoreConstants
    <3> QED
      BY <3>3, <3>4, <3>5 DEF GoneSettled
  <2>6. DeletingSettled(t)'
    BY <1>3, <2>1, <2>2, TaskTypes DEF DeletesFile, TaskInv, DeletingSettled, Settled
  <2>7. TickLocks(t)'
    BY <2>2, TaskTypes DEF TaskInv, TickLocks
  <2> QED
    BY <2>3, <2>4, <2>5, <2>6, <2>7 DEF TaskInv
<1> QED
  BY <1>1, <1>2, <1>3, <1>4, <1>5, OneCall

\* Pause takes a listed task, which nobody deletes.
LEMMA PauseInv ==
  ASSUME StoreInv, StoreConstants, NEW t \in Tasks, NEW c \in Clients, Pause(c, t)
  PROVE  StoreInv'
<1> USE DEF disk, memory, locks, others, past, bounds
<1>1. up'
  BY UpCall DEF ApiStep
<1>2. TypeOK'
  <2>1. TypeDisk'
    BY TaskTypes DEF Pause, Begin, doPause, StoreInv, TypeOK, TypeDisk, TypeMemory, Statuses,
       StoreConstants, None
  <2>2. TypeMemory'
    BY TaskTypes DEF Pause, Begin, doPause, StoreInv, TypeOK, TypeMemory, Statuses, None
  <2>3. TypeWork'
    <3>1. call' \in [Clients -> [op : Calls \union {"idle"}, t : Tasks \union {None}, at : Places]]
      BY DEF Pause, Begin, idle, StoreInv, TypeOK, TypeWork, Calls, Places
    <3>2. pauses' \in [Tasks -> Nat]
      BY DEF Pause, doPause, StoreInv, TypeOK, TypeWork
    <3> QED
      BY <3>1, <3>2 DEF Pause, StoreInv, TypeOK, TypeWork
  <2> QED
    BY <2>1, <2>2, <2>3 DEF TypeOK
<1>3. /\ \A d \in Clients : d # c => call'[d] = call[d]
      /\ call[c].t = None
      /\ call[c].op = "idle"
      /\ call'[c].t = None
      /\ call'[c].op = "idle"
      /\ call'[c].at = "none"
  BY DEF Pause, Begin, doPause, StoreInv, TypeOK, TypeWork, Calls, idle, None
<1>4. /\ UNCHANGED <<rec, sav, file, gone, fet, hand, active, orphans, result, slock, starts,
                     handler, watcher, listed, tick>>
      /\ \A u \in Tasks : u # t => status'[u] = status[u] /\ pauses'[u] = pauses[u]
  BY DEF Pause, Begin, doPause, StoreInv, TypeOK, TypeDisk, TypeMemory, TypeWork
<1>5. TaskInv(t)'

  <2>1. ~gone[t] /\ \A d \in Clients : ~ (call[d].op = "delete" /\ call[d].t = t)
    BY <1>3, TaskTypes DEF TaskInv, GoneSettled, DeletingSettled, Settled, Pause
  <2>2. UNCHANGED <<rec, sav, file, gone, fet, hand, active, orphans, result, slock, starts,
                    handler, watcher, listed, tick>>
        /\ (status'[t] \in {status[t], "pause"})
    BY <1>4 DEF Pause, Begin, doPause, StoreInv, TypeOK, TypeDisk, TypeMemory, TypeWork
  <2>3. BehindFile(t)'
    BY <2>1, <2>2, <1>3, TaskTypes DEF Pause, TaskInv, BehindFile, HasFetcher, FileBytes, Max2, None
  <2>4. HasFetcher(t)'
    BY <1>3, <2>1, <2>2, TaskTypes DEF Pause, TaskInv, BehindFile, HasFetcher, None
  <2>5. GoneSettled(t)'
    BY <1>3, <2>1, <2>2, TaskTypes DEF Pause, TaskInv, GoneSettled, DeletingSettled, Settled
  <2>6. DeletingSettled(t)'
    BY <1>3, <2>1, <2>2, TaskTypes DEF Pause, TaskInv, DeletingSettled, Settled
  <2>7. TickLocks(t)'
    BY <2>2, TaskTypes DEF TaskInv, TickLocks
  <2> QED
    BY <2>3, <2>4, <2>5, <2>6, <2>7 DEF TaskInv
<1> QED
  BY <1>1, <1>2, <1>3, <1>4, <1>5, OneCall

\* Continue restores the fetcher if there is none and starts the task.
LEMMA ContinueInv ==
  ASSUME StoreInv, StoreConstants, NEW t \in Tasks, NEW c \in Clients, Continue(c, t)
  PROVE  StoreInv'
<1> USE DEF disk, memory, locks, others, past, bounds
<1>1. up'
  BY UpCall DEF ApiStep
<1>2. TypeOK'
  <2>1. TypeDisk'
    <3>1. sav' = sav \/ sav' = [sav EXCEPT ![t] = None]
      BY DEF Continue, doStart, Restore, Pop
    <3>2. sav' \in [Tasks -> None..Size]
      BY <3>1, TaskTypes DEF StoreInv, TypeOK, TypeDisk, None
    <3> QED
      BY <3>2 DEF Continue, StoreInv, TypeOK, TypeDisk
  <2>2. TypeMemory'
    BY TaskTypes DEF Continue, Begin, doStart, Restore, Pop, Launch, StoreInv, TypeOK, TypeMemory,
       Statuses, None, restored
  <2>3. TypeWork'
    <3>1. call' \in [Clients -> [op : Calls \union {"idle"}, t : Tasks \union {None}, at : Places]]
      BY DEF Continue, Begin, idle, StoreInv, TypeOK, TypeWork, Calls, Places
    <3>2. starts' \in [Tasks -> Nat] /\ watcher' \in [Tasks -> {"off", "wait", "put"}]
      BY LaunchTypes DEF Continue, doStart, StoreInv, TypeOK, TypeWork
    <3> QED
      BY <3>1, <3>2 DEF Continue, StoreInv, TypeOK, TypeWork
  <2> QED
    BY <2>1, <2>2, <2>3 DEF TypeOK
<1>3. /\ \A d \in Clients : d # c => call'[d] = call[d]
      /\ call[c].t = None
      /\ call[c].op = "idle"
      /\ call'[c].t = None
      /\ call'[c].op = "idle"
      /\ call'[c].at = "none"
  BY DEF Continue, Begin, doStart, Restore, Pop, Launch, StoreInv, TypeOK, TypeWork, Calls, idle,
     None
<1>4. /\ UNCHANGED <<rec, file, gone, hand, active, orphans, result, slock, pauses, handler,
                     listed, tick>>
      /\ \A u \in Tasks : u # t =>
           /\ status'[u] = status[u] /\ starts'[u] = starts[u] /\ watcher'[u] = watcher[u]
           /\ sav'[u] = sav[u] /\ fet'[u] = fet[u]
  BY DEF Continue, Begin, doStart, Restore, Pop, Launch, StoreInv, TypeOK, TypeDisk, TypeMemory,
     TypeWork
<1>5. TaskInv(t)'

  <2>1. ~gone[t] /\ \A d \in Clients : ~ (call[d].op = "delete" /\ call[d].t = t)
    BY <1>3, TaskTypes DEF TaskInv, GoneSettled, DeletingSettled, Settled, Continue
  <2>2. UNCHANGED <<rec, file, gone, hand, active, orphans, result, slock, pauses, handler, listed,
                    tick>>
        /\ (status'[t] \in {status[t], "running"})
        /\ (starts'[t] > 0 => starts[t] > 0 \/ fet'[t] # None)
        /\ (\/ sav'[t] = sav[t] /\ fet'[t] = fet[t]
            \/ fet[t] = None /\ sav'[t] = None /\ fet'[t] = restored(t))
    <3>1. CASE status[t] \in {"running", "done"}
      BY <1>4, <3>1 DEF Continue, doStart
    <3>2. CASE status[t] \notin {"running", "done"}
      <4>1. Restore(t) /\ Launch(t)
        BY <3>2 DEF Continue, doStart
      <4>2. status'[t] = "running"
        BY <4>1 DEF Launch, StoreInv, TypeOK, TypeMemory
      <4>3. \/ sav'[t] = sav[t] /\ fet'[t] = fet[t] /\ fet[t] # None
            \/ fet[t] = None /\ sav'[t] = None /\ fet'[t] = restored(t)
        BY <4>1 DEF Restore, Pop, StoreInv, TypeOK, TypeDisk, TypeMemory
      <4>4. fet'[t] # None
        BY <4>3, TaskTypes DEF restored, None
      <4> QED
        BY <1>4, <4>2, <4>3, <4>4
    <3> QED
      BY <3>1, <3>2
  <2>3. BehindFile(t)'
    BY <2>1, <2>2, <1>3, TaskTypes DEF Continue, TaskInv, BehindFile, HasFetcher, FileBytes, Max2,
       None, restored
  <2>4. HasFetcher(t)'
    BY <1>3, <2>1, <2>2, TaskTypes DEF Continue, TaskInv, BehindFile, HasFetcher, None, restored
  <2>5. GoneSettled(t)'
    BY <1>3, <2>1, <2>2, TaskTypes DEF Continue, TaskInv, GoneSettled, DeletingSettled, Settled
  <2>6. DeletingSettled(t)'
    BY <1>3, <2>1, <2>2, TaskTypes DEF Continue, TaskInv, DeletingSettled, Settled
  <2>7. TickLocks(t)'
    BY <2>2, TaskTypes DEF TaskInv, TickLocks
  <2> QED
    BY <2>3, <2>4, <2>5, <2>6, <2>7 DEF TaskInv
<1> QED
  BY <1>1, <1>2, <1>3, <1>4, <1>5, OneCall

\* Close pauses only listed tasks, which nobody deletes.
LEMMA CloseInv ==
  ASSUME StoreInv, StoreConstants, NEW c \in Clients, Close(c)
  PROVE  StoreInv'
<1> USE DEF disk, memory, locks, others, past, bounds
<1> DEFINE paused == {t \in listed : status[t] \notin {"pause", "done"}}
<1>1. up'
  BY UpCall
<1>2. /\ call[c] = idle /\ call[c].t = None
      /\ call'[c].t = None /\ call'[c].op = "close" /\ call'[c].at = "storage"
      /\ \A d \in Clients : d # c => call'[d] = call[d]
  BY DEF Close, Begin, idle, StoreInv, TypeOK, TypeWork
<1>3. /\ UNCHANGED <<rec, sav, file, gone, fet, hand, active, orphans, result, slock, starts,
                     handler, watcher, listed, tick>>
      /\ status' = [t \in Tasks |-> IF t \in paused THEN "pause" ELSE status[t]]
      /\ pauses' = [t \in Tasks |-> IF t \in paused THEN pauses[t] + 1 ELSE pauses[t]]
  BY DEF Close
<1>4. TypeOK'
  <2>1. TypeDisk'
    BY DEF Close, StoreInv, TypeOK, TypeDisk
  <2>2. TypeMemory'
    BY <1>3 DEF Close, StoreInv, TypeOK, TypeMemory, Statuses
  <2>3. TypeWork'
    <3>1. call' \in [Clients -> [op : Calls \union {"idle"}, t : Tasks \union {None}, at : Places]]
      BY DEF Close, Begin, StoreInv, TypeOK, TypeWork, Calls, Places
    <3>2. pauses' \in [Tasks -> Nat]
      BY <1>3 DEF StoreInv, TypeOK, TypeWork
    <3> QED
      BY <1>3, <3>1, <3>2 DEF StoreInv, TypeOK, TypeWork
  <2> QED
    BY <2>1, <2>2, <2>3 DEF TypeOK
<1>5. ASSUME NEW u \in Tasks PROVE TaskInv(u)'
  <2>1. \A d \in Clients : call'[d] = call[d] \/ (call[d].t # u /\ call'[d].t # u)
    BY <1>2 DEF StoreConstants
  <2>2. CASE u \notin paused
    <3>1. status'[u] = status[u] /\ pauses'[u] = pauses[u]
      BY <1>3, <2>2
    <3> QED
      BY <1>3, <2>1, <3>1, Untouched DEF StoreInv
  <2>3. CASE u \in paused
    <3>1. TaskInv(u) /\ u \in listed /\ ~Settled(u) /\ status'[u] = "pause"
      BY <1>3, <2>3 DEF StoreInv, Settled
    <3>2. ~gone[u] /\ \A d \in Clients : ~ (call[d].op = "delete" /\ call[d].t = u)
      BY <3>1 DEF TaskInv, GoneSettled, DeletingSettled
    <3>3. BehindFile(u)'
      BY <1>3, <3>1 DEF TaskInv, BehindFile, FileBytes
    <3>4. HasFetcher(u)'
      BY <1>2, <1>3, <2>1, <3>1 DEF TaskInv, HasFetcher
    <3>5. GoneSettled(u)' /\ DeletingSettled(u)'
      BY <1>2, <1>3, <2>1, <3>2 DEF GoneSettled, DeletingSettled
    <3>6. TickLocks(u)'
      BY <1>3, <3>1 DEF TaskInv, TickLocks
    <3> QED
      BY <3>3, <3>4, <3>5, <3>6 DEF TaskInv
  <2> QED
    BY <2>2, <2>3
<1>6. PopCalls'
  BY <1>2 DEF StoreInv, PopCalls
<1> QED
  BY <1>1, <1>4, <1>5, <1>6 DEF StoreInv, Down

\* After Close the storage refuses every transaction.
LEMMA CloseStorageInv ==
  ASSUME StoreInv, StoreConstants, NEW c \in Clients, CloseStorage(c)
  PROVE  StoreInv'
<1> USE DEF disk, memory, locks, others, past, bounds
<1>1. up'
  BY UpCall
<1>2. /\ call'[c] = idle /\ call[c].op = "close" /\ call[c].at = "storage"
      /\ \A d \in Clients : d # c => call'[d] = call[d]
  BY DEF CloseStorage, At, Go, StoreInv, TypeOK, TypeWork
<1>3. TypeOK'
  <2>1. TypeDisk' /\ TypeMemory'
    BY DEF CloseStorage, StoreInv, TypeOK, TypeDisk, TypeMemory
  <2>2. TypeWork'
    BY DEF CloseStorage, Go, StoreInv, TypeOK, TypeWork, idle, Places
  <2> QED
    BY <2>1, <2>2 DEF TypeOK
<1>4. ASSUME NEW u \in Tasks PROVE TaskInv(u)'
  <2>1. UNCHANGED <<rec, sav, file, up, memory, locks, watcher, tick, past, bounds>> /\ TaskInv(u)
    BY DEF CloseStorage, StoreInv
  <2>2. call'[c].t = None /\ call'[c].t # u /\ call'[c].op = "idle" /\ call'[c].at = "none"
    BY <1>2 DEF idle, StoreConstants
  <2>3. BehindFile(u)' /\ TickLocks(u)' /\ (Settled(u)' <=> Settled(u))
    BY <2>1 DEF TaskInv, BehindFile, FileBytes, TickLocks, Settled
  <2>4. HasFetcher(u)'
    BY <1>2, <2>1, <2>2 DEF TaskInv, HasFetcher
  <2>5. GoneSettled(u)' /\ DeletingSettled(u)'
    BY <1>2, <2>1, <2>2, <2>3 DEF TaskInv, GoneSettled, DeletingSettled
  <2> QED
    BY <2>3, <2>4, <2>5 DEF TaskInv
<1>5. PopCalls'
  BY <1>2 DEF StoreInv, PopCalls, idle
<1> QED
  BY <1>1, <1>3, <1>4, <1>5 DEF StoreInv, Down

\* A crash keeps the store and the files and forgets all else.
LEMMA CrashInv ==
  ASSUME StoreInv, StoreConstants, Crash
  PROVE  StoreInv'
<1> USE DEF Crash, Forget, past, bounds
<1>1. TypeOK'
  <2>1. TypeDisk'
    BY DEF StoreInv, TypeOK, TypeDisk
  <2>2. TypeMemory'
    BY DEF StoreConstants, TypeMemory, None
  <2>3. TypeWork'
    BY DEF TypeWork, idle, Calls, Places
  <2> QED
    BY <2>1, <2>2, <2>3 DEF TypeOK
<1>2. \A c \in Clients : call'[c] = idle /\ call'[c].t = None /\ call'[c].op = "idle" /\ call'[c].at = "none"
  BY DEF idle
<1>3. ASSUME NEW u \in Tasks PROVE TaskInv(u)' /\ Settled(u)'
  <2>1. Settled(u)'
    BY DEF Settled
  <2>2. BehindFile(u)'
    <3>1. BehindFile(u) /\ rec' = rec /\ sav' = sav /\ file' = file /\ gone' = gone
      BY DEF StoreInv, TaskInv
    <3>2. status'[u] = "none" /\ result'[u] = "none" /\ fet'[u] = None /\ hand'[u] = 0 /\ orphans'[u] = {}
      OBVIOUS
    <3>3. FileBytes(u) \in Nat
      BY TaskTypes
    <3> QED
      BY <3>1, <3>2, <3>3 DEF BehindFile, FileBytes, None
  <2>3. HasFetcher(u)' /\ TickLocks(u)'
    BY <1>2 DEF HasFetcher, TickLocks, StoreConstants
  <2>4. GoneSettled(u)'
    BY <1>2, <2>1 DEF StoreInv, TaskInv, GoneSettled, StoreConstants
  <2>5. DeletingSettled(u)'
    BY <1>2 DEF DeletingSettled
  <2> QED
    BY <2>1, <2>2, <2>3, <2>4, <2>5 DEF TaskInv
<1>4. PopCalls' /\ Down'
  BY <1>2, <1>3 DEF PopCalls, Down
<1> QED
  BY <1>1, <1>3, <1>4 DEF StoreInv

\* What the next start finds has no fetcher and nothing on its way.
LEMMA SetupInv ==
  ASSUME StoreInv, StoreConstants, Setup
  PROVE  StoreInv'
<1> USE DEF memory, locks, others, bounds
<1>1. /\ \A c \in Clients : call'[c] = idle /\ call'[c].t = None /\ call'[c].op = "idle" /\ call'[c].at = "none"
      /\ \A t \in Tasks : /\ Settled(t) /\ watcher[t] = "off" /\ fet[t] = None /\ hand[t] = 0
                          /\ ~active[t] /\ orphans[t] = {} /\ result[t] = "none"
      /\ tick' = <<>> /\ up'
  BY DEF Setup, StoreInv, Down, idle
<1>2. TypeOK'
  <2>1. TypeDisk'
    BY DEF Setup, missing, StoreInv, TypeOK, TypeDisk, None, StoreConstants
  <2>2. TypeMemory'
    <3>1. status' \in [Tasks -> Statuses \union {"none"}]
      BY DEF Setup, missing, loaded, StoreInv, TypeOK, TypeDisk, Statuses
    <3>2. listed' \subseteq Tasks /\ res' \in [Tasks -> BOOLEAN]
      BY DEF Setup, StoreInv, TypeOK, TypeDisk
    <3> QED
      BY <3>1, <3>2 DEF Setup, StoreInv, TypeOK, TypeMemory
  <2>3. TypeWork'
    BY DEF Setup, StoreInv, TypeOK, TypeWork
  <2> QED
    BY <2>1, <2>2, <2>3 DEF TypeOK
<1>3. ASSUME NEW u \in Tasks PROVE TaskInv(u)'
  <2>1. /\ UNCHANGED <<file, fet, prog, active, hand, orphans, result, slock, starts, pauses,
                       handler, watcher>>
        /\ fet'[u] = None /\ hand'[u] = 0 /\ orphans'[u] = {} /\ ~active'[u] /\ result'[u] = "none"
        /\ handler'[u] = "free" /\ starts'[u] = 0 /\ pauses'[u] = 0 /\ slock'[u] = Nobody /\ watcher'[u] # "put"
    BY <1>1 DEF Setup, Settled
  <2>2. /\ rec'[u] = IF u \in missing THEN "none" ELSE rec[u]
        /\ sav'[u] = IF u \in missing THEN None ELSE sav[u]
        /\ gone'[u] <=> gone[u] \/ u \in missing
        /\ u \in listed' <=> rec[u] # "none" /\ u \notin missing
        /\ status'[u] = "done" => rec'[u] = "done"
    BY DEF Setup, loaded, StoreInv, TypeOK, TypeDisk
  <2>3. BehindFile(u)'
    <3>1. BehindFile(u) /\ FileBytes(u) \in Nat
      BY TaskTypes DEF TaskInv
    <3> QED
      BY <2>1, <2>2, <3>1 DEF BehindFile, FileBytes, None
  <2>4. HasFetcher(u)' /\ DeletingSettled(u)' /\ TickLocks(u)'
    BY <1>1, <2>1 DEF HasFetcher, DeletingSettled, TickLocks, StoreConstants
  <2>5. GoneSettled(u)'
    BY <1>1, <2>1, <2>2 DEF StoreInv, TaskInv, GoneSettled, Settled, StoreConstants
  <2> QED
    BY <2>3, <2>4, <2>5 DEF TaskInv
<1>4. PopCalls' /\ Down'
  BY <1>1 DEF PopCalls, Down
<1> QED
  BY <1>2, <1>3, <1>4 DEF StoreInv

\* Nothing changes.
LEMMA StutterInv ==
  ASSUME StoreInv, UNCHANGED storeVars
  PROVE  StoreInv'
<1> USE DEF storeVars, disk, memory, locks, others, past, bounds
<1>1. TypeOK'
  BY DEF StoreInv, TypeOK, TypeDisk, TypeMemory, TypeWork
<1>2. PopCalls' /\ Down'
  BY DEF StoreInv, PopCalls, Down, Settled
<1>3. ASSUME NEW u \in Tasks PROVE TaskInv(u)'
  <2>1. \A d \in Clients : call'[d] = call[d]
    OBVIOUS
  <2> QED
    BY <2>1, Untouched DEF StoreInv
<1> QED
  BY <1>1, <1>2, <1>3 DEF StoreInv

\* A program that starts for the first time.
LEMMA InitInv ==
  ASSUME Init, StoreConstants
  PROVE  StoreInv
<1> USE DEF Init, StoreConstants
<1>1. TypeOK
  <2>1. TypeDisk /\ TypeMemory
    BY DEF TypeDisk, TypeMemory, None
  <2>2. TypeWork
    BY DEF TypeWork, idle, Calls, Places
  <2> QED
    BY <2>1, <2>2 DEF TypeOK
<1>2. PopCalls /\ Down
  BY DEF PopCalls, Down, idle
<1>3. ASSUME NEW u \in Tasks PROVE TaskInv(u)
  <2>1. BehindFile(u)
    BY DEF BehindFile, FileBytes, Max2, None
  <2>2. HasFetcher(u) /\ GoneSettled(u) /\ DeletingSettled(u) /\ TickLocks(u)
    BY DEF HasFetcher, GoneSettled, DeletingSettled, TickLocks, idle
  <2> QED
    BY <2>1, <2>2 DEF TaskInv
<1> QED
  BY <1>1, <1>2, <1>3 DEF StoreInv

\* The steps of handlers, fetchers, watchers and the ticker.
LEMMA TaskStepInv ==
  ASSUME StoreInv, StoreConstants, NEW t \in Tasks,
         HandlerStep(t) \/ FetcherStep(t) \/ WatchStep(t) \/ TickStep(t)
  PROVE  StoreInv'
<1>1. CASE HandlerStep(t)
  BY <1>1, StartTakesLockInv, StartResolvesInv, StartsFetcherInv, StartSavesFetcherInv,
     HandlerPutsInv,
     PauseHandledInv DEF HandlerStep
<1>2. CASE FetcherStep(t)
  BY <1>2, WritesInv, CountsInv, FetcherEndsInv, OrphanWritesInv, OrphanEndsInv DEF FetcherStep
<1>3. CASE WatchStep(t)
  BY <1>3, WatchReturnsInv, WatchPutsInv DEF WatchStep
<1>4. CASE TickStep(t)
  BY <1>4, TickChecksInv, TickSavesInv, TickPutsInv DEF TickStep
<1> QED
  BY <1>1, <1>2, <1>3, <1>4

\* The steps of calls about one task.
LEMMA CallStepInv ==
  ASSUME StoreInv, StoreConstants, NEW c \in Clients, NEW t \in Tasks, ApiStep(c, t)
  PROVE  StoreInv'
BY CreateInv, CreateListsInv, ContinueInv, PauseInv, LookInv, LookPopsInv, PatchSavesInv,
   PatchPutsInv,
   DeleteInv, DeletesRecordInv, DeletesSaveInv, DeletesFileInv DEF ApiStep

\* Every step.
LEMMA NextInv ==
  ASSUME StoreInv, StoreConstants, [Next]_storeVars
  PROVE  StoreInv'
<1>1. CASE UNCHANGED storeVars
  BY <1>1, StutterInv
<1>2. CASE \E t \in Tasks : HandlerStep(t) \/ FetcherStep(t) \/ WatchStep(t) \/ TickStep(t)
  BY <1>2, TaskStepInv
<1>3. CASE \E c \in Clients : (\E t \in Tasks : ApiStep(c, t)) \/ Close(c) \/ CloseStorage(c)
  BY <1>3, CallStepInv, CloseInv, CloseStorageInv
<1>4. CASE Crash \/ Setup
  BY <1>4, CrashInv, SetupInv
<1> QED
  BY <1>1, <1>2, <1>3, <1>4 DEF Next

\* The invariant the theorems rest on: while a task is not deleted its file
\* has all that is counted, held or stored, and nothing that could save a task is
\* on its way while a call deletes it or afterwards.
THEOREM StoreIsSound ==
  ASSUME StoreConstants
  PROVE  Spec => []StoreInv
<1>1. Init => StoreInv
  BY InitInv
<1>2. StoreInv /\ [Next]_storeVars => StoreInv'
  BY NextInv
<1> QED
  BY <1>1, <1>2, PTL DEF Spec

\* A task that is stored can be resumed from what is stored, at whichever step the
\* program ended: saveTask never stores more than the file has, and "done" only of a
\* whole file.
THEOREM StoredIsWritten ==
  ASSUME StoreConstants
  PROVE  Spec => []StoreBehindFile
<1>1. StoreInv => StoreBehindFile
  BY DEF StoreInv, TaskInv, GoneSettled, BehindFile, FileBytes, StoreBehindFile
<1> QED
  BY <1>1, StoreIsSound, PTL

(***************************************************************************)
(* A running task is saved                                                 *)
(***************************************************************************)

\* A step that does not touch the task u, nor a call about it.
LEMMA SavedUntouched ==
  ASSUME NEW u \in Tasks, Unknown(u), CreatedByOne(u), SavedOnceStarted(u),
         /\ status'[u] = status[u] /\ (u \in listed' <=> u \in listed) /\ active'[u] = active[u]
         /\ starts'[u] = starts[u] /\ pauses'[u] = pauses[u] /\ handler'[u] = handler[u]
         /\ orphans'[u] = orphans[u] /\ result'[u] = result[u]
         /\ sav'[u] = sav[u] /\ kept'[u] = kept[u] /\ open' = open,
         \A d \in Clients : call'[d] = call[d] \/ (call[d].t # u /\ call'[d].t # u)
  PROVE  Unknown(u)' /\ CreatedByOne(u)' /\ SavedOnceStarted(u)'
<1>1. Unknown(u)' /\ SavedOnceStarted(u)'
  BY DEF Unknown, SavedOnceStarted
<1>2. CreatedByOne(u)'
  BY DEF CreatedByOne, At
<1> QED
  BY <1>1, <1>2

\* A step of a goroutine for a task the program knows of.
LEMMA SavedByTask ==
  ASSUME SavedInv, NEW t \in Tasks, call' = call, open' = open, listed' = listed,
         \A u \in Tasks : u # t =>
           /\ status'[u] = status[u] /\ active'[u] = active[u]
           /\ starts'[u] = starts[u] /\ pauses'[u] = pauses[u] /\ handler'[u] = handler[u]
           /\ orphans'[u] = orphans[u] /\ result'[u] = result[u]
           /\ sav'[u] = sav[u] /\ kept'[u] = kept[u],
         status[t] # "none", status'[t] # "none", SavedOnceStarted(t)'
  PROVE  SavedInv'
<1>1. ASSUME NEW u \in Tasks, u # t PROVE (Unknown(u) /\ CreatedByOne(u) /\ SavedOnceStarted(u))'
  BY <1>1, SavedUntouched DEF SavedInv
<1>2. Unknown(t)' /\ CreatedByOne(t)'
  BY DEF SavedInv, Unknown, CreatedByOne, At
<1> QED
  BY <1>1, <1>2 DEF SavedInv

\* A step of a call about the task t that creates nothing.
LEMMA SavedByCall ==
  ASSUME SavedInv, StoreConstants, NEW t \in Tasks, NEW c \in Clients, open' = open,
         \A d \in Clients : d # c => call'[d] = call[d],
         call[c].t \in {t, None}, call'[c].t \in {t, None}, ~ At(c, "create", "list")',
         call[c].t = t \/ status[t] # "none" \/ call'[c].t = None,
         \A u \in Tasks : u # t =>
           /\ status'[u] = status[u] /\ (u \in listed' <=> u \in listed) /\ active'[u] = active[u]
           /\ starts'[u] = starts[u] /\ pauses'[u] = pauses[u] /\ handler'[u] = handler[u]
           /\ orphans'[u] = orphans[u] /\ result'[u] = result[u]
           /\ sav'[u] = sav[u] /\ kept'[u] = kept[u],
         status'[t] = status[t] \/ (status'[t] # "none" /\ (status[t] # "none" \/ call[c].t = t)),
         Unknown(t)', SavedOnceStarted(t)'
  PROVE  SavedInv'
<1>1. ASSUME NEW u \in Tasks, u # t PROVE (Unknown(u) /\ CreatedByOne(u) /\ SavedOnceStarted(u))'
  <2>1. \A d \in Clients : call'[d] = call[d] \/ (call[d].t # u /\ call'[d].t # u)
    BY <1>1 DEF StoreConstants
  <2> QED
    BY <1>1, <2>1, SavedUntouched DEF SavedInv
<1>2. CreatedByOne(t)'
  <2> SUFFICES ASSUME NEW e \in Clients, At(e, "create", "list")', call'[e].t = t
               PROVE  status'[t] = "none" /\ \A d \in Clients : call'[d].t = t => d = e
    BY DEF CreatedByOne, At
  <2>1. e # c /\ call'[e] = call[e]
    OBVIOUS
  <2>2. At(e, "create", "list") /\ call[e].t = t
    BY <2>1 DEF At
  <2>3. status[t] = "none" /\ \A d \in Clients : call[d].t = t => d = e
    BY <2>2 DEF SavedInv, CreatedByOne
  <2>4. call[c].t # t
    BY <2>1, <2>3
  <2>5. status'[t] = "none" /\ call'[c].t = None
    BY <2>3, <2>4
  <2> QED
    BY <2>3, <2>5 DEF StoreConstants
<1> QED
  BY <1>1, <1>2 DEF SavedInv

\* Steps that change none of this.
LEMMA SavedQuiet ==
  ASSUME SavedInv, UNCHANGED <<status, listed, active, starts, pauses, handler, orphans, result, sav, kept,
                               open, call>>
  PROVE  SavedInv'
BY DEF SavedInv, Unknown, CreatedByOne, SavedOnceStarted, At

\* A goroutine works for a task the program knows of.
LEMMA Known ==
  ASSUME SavedInv, NEW t \in Tasks,
         \/ t \in listed \/ starts[t] > 0 \/ pauses[t] > 0 \/ handler[t] # "free"
         \/ active[t] \/ orphans[t] # {} \/ result[t] # "none"
  PROVE  status[t] # "none"
<1>1. Unknown(t)
  BY DEF SavedInv
<1> QED
  BY <1>1 DEF Unknown

\* The goroutine was counted before it has the lock.
LEMMA StartTakesLockSaved ==
  ASSUME StoreInv, StoreConstants, SavedInv, NEW t \in Tasks, StartTakesLock(t)
  PROVE  SavedInv'
<1> USE DEF disk, memory, locks, others, past, bounds
<1>1. /\ UNCHANGED <<status, listed, active, pauses, orphans, result, sav, kept, open, call>>
      /\ \A u \in Tasks : u # t => starts'[u] = starts[u] /\ handler'[u] = handler[u]
  BY DEF StartTakesLock, StoreInv, TypeOK, TypeDisk, TypeMemory, TypeWork
<1>2. handler[t] = "free" /\ handler'[t] = "resolve"
  BY TaskTypes DEF StartTakesLock, StoreInv, TypeOK, TypeDisk, TypeMemory, TypeWork
<1>3. status[t] # "none"
  BY Known DEF StartTakesLock
<1>4. SavedOnceStarted(t)'
  BY <1>1, <1>2 DEF SavedInv, SavedOnceStarted
<1> QED
  BY <1>1, <1>2, <1>3, <1>4, SavedByTask

\* A start that fails leaves a fetcher that still downloads as it is, saved.
LEMMA StartResolvesSaved ==
  ASSUME StoreInv, StoreConstants, SavedInv, NEW t \in Tasks, StartResolves(t)
  PROVE  SavedInv'
<1> USE DEF disk, memory, locks, others, past, bounds
<1>1. /\ UNCHANGED <<listed, active, starts, pauses, orphans, result, sav, kept, open, call>>
      /\ \A u \in Tasks : u # t => status'[u] = status[u] /\ handler'[u] = handler[u]
  BY DEF StartResolves, OnError, StoreInv, TypeOK, TypeDisk, TypeMemory, TypeWork
<1>2. /\ handler[t] = "resolve" /\ (status'[t] = status[t] \/ status'[t] = "error")
      /\ handler'[t] # "save"
  BY TaskTypes DEF StartResolves, OnError, StoreInv, TypeOK, TypeDisk, TypeMemory, TypeWork
<1>3. status[t] # "none"
  BY Known DEF StartResolves
<1>4. SavedOnceStarted(t)'
  BY <1>1, <1>2 DEF SavedInv, SavedOnceStarted
<1> QED
  BY <1>1, <1>2, <1>3, <1>4, SavedByTask

\* The fetcher runs, its state is saved next.
LEMMA StartsFetcherSaved ==
  ASSUME StoreInv, StoreConstants, SavedInv, NEW t \in Tasks, StartsFetcher(t)
  PROVE  SavedInv'
<1> USE DEF disk, memory, locks, others, past, bounds
<1>1. /\ UNCHANGED <<status, listed, starts, pauses, orphans, result, sav, kept, open, call>>
      /\ \A u \in Tasks : u # t => active'[u] = active[u] /\ handler'[u] = handler[u]
  BY DEF StartsFetcher, StoreInv, TypeOK, TypeDisk, TypeMemory, TypeWork
<1>2. handler'[t] = "save"
  BY TaskTypes DEF StartsFetcher, StoreInv, TypeOK, TypeDisk, TypeMemory, TypeWork
<1>3. status[t] # "none"
  BY Known DEF StartsFetcher
<1>4. SavedOnceStarted(t)'
  BY <1>1, <1>2 DEF SavedInv, SavedOnceStarted
<1> QED
  BY <1>1, <1>2, <1>3, <1>4, SavedByTask

\* What the fetcher counts is stored, unless the storage was closed.
LEMMA StartSavesFetcherSaved ==
  ASSUME StoreInv, StoreConstants, SavedInv, NEW t \in Tasks, StartSavesFetcher(t)
  PROVE  SavedInv'
<1> USE DEF disk, memory, locks, others, past, bounds
<1>1. /\ UNCHANGED <<listed, active, starts, pauses, orphans, result, open, call>>
      /\ \A u \in Tasks : u # t => status'[u] = status[u] /\ handler'[u] = handler[u] /\ sav'[u] = sav[u] /\ kept'[u] = kept[u]
  BY DEF StartSavesFetcher, startSaves, PutSave, OnError, TaskInv, HasFetcher, StoreInv, TypeOK, TypeDisk, TypeMemory, TypeWork
<1>2. /\ open => sav'[t] = fet[t] /\ kept'[t] = fet[t] /\ status'[t] = status[t]
      /\ ~open => sav'[t] = sav[t] /\ kept'[t] = kept[t] /\ status'[t] = "error"
      /\ active[t] => fet[t] # None
  BY TaskTypes DEF StartSavesFetcher, startSaves, PutSave, OnError, TaskInv, HasFetcher, StoreInv, TypeOK, TypeDisk, TypeMemory, TypeWork
<1>3. status[t] # "none"
  BY Known DEF StartSavesFetcher
<1>4. SavedOnceStarted(t)'
  BY <1>1, <1>2, TaskTypes DEF SavedInv, SavedOnceStarted, None
<1> QED
  BY <1>1, <1>2, <1>3, <1>4, SavedByTask

\* The record says nothing of the fetcher.
LEMMA HandlerPutsSaved ==
  ASSUME StoreInv, StoreConstants, SavedInv, NEW t \in Tasks, HandlerPuts(t)
  PROVE  SavedInv'
<1> USE DEF disk, memory, locks, others, past, bounds
<1>1. /\ UNCHANGED <<listed, active, starts, pauses, orphans, result, sav, kept, open, call>>
      /\ \A u \in Tasks : u # t => status'[u] = status[u] /\ handler'[u] = handler[u]
  BY DEF HandlerPuts, OnError, StoreInv, TypeOK, TypeDisk, TypeMemory, TypeWork
<1>2. /\ handler[t] # "save" /\ (status'[t] = status[t] \/ status'[t] = "error")
  BY TaskTypes DEF HandlerPuts, OnError, StoreInv, TypeOK, TypeDisk, TypeMemory, TypeWork
<1>3. status[t] # "none"
  BY Known DEF HandlerPuts
<1>4. SavedOnceStarted(t)'
  BY <1>1, <1>2 DEF SavedInv, SavedOnceStarted
<1> QED
  BY <1>1, <1>2, <1>3, <1>4, SavedByTask

\* A paused fetcher downloads nothing.
LEMMA PauseHandledSaved ==
  ASSUME StoreInv, StoreConstants, SavedInv, NEW t \in Tasks, PauseHandled(t)
  PROVE  SavedInv'
<1> USE DEF disk, memory, locks, others, past, bounds
<1>1. /\ UNCHANGED <<status, listed, starts, orphans, result, sav, kept, open, call>>
      /\ \A u \in Tasks : u # t => active'[u] = active[u] /\ pauses'[u] = pauses[u] /\ handler'[u] = handler[u]
  BY DEF PauseHandled, StoreInv, TypeOK, TypeDisk, TypeMemory, TypeWork
<1>2. ~active'[t]
  BY TaskTypes DEF PauseHandled, StoreInv, TypeOK, TypeDisk, TypeMemory, TypeWork
<1>3. status[t] # "none"
  BY Known DEF PauseHandled
<1>4. SavedOnceStarted(t)'
  BY <1>1, <1>2 DEF SavedInv, SavedOnceStarted
<1> QED
  BY <1>1, <1>2, <1>3, <1>4, SavedByTask

\* A fetcher that ended downloads nothing.
LEMMA FetcherEndsSaved ==
  ASSUME StoreInv, StoreConstants, SavedInv, NEW t \in Tasks, FetcherEnds(t)
  PROVE  SavedInv'
<1> USE DEF disk, memory, locks, others, past, bounds
<1>1. /\ UNCHANGED <<status, listed, starts, pauses, handler, orphans, sav, kept, open, call>>
      /\ \A u \in Tasks : u # t => active'[u] = active[u] /\ result'[u] = result[u]
  BY DEF FetcherEnds, StoreInv, TypeOK, TypeDisk, TypeMemory, TypeWork
<1>2. ~active'[t]
  BY TaskTypes DEF FetcherEnds, StoreInv, TypeOK, TypeDisk, TypeMemory, TypeWork
<1>3. status[t] # "none"
  BY Known DEF FetcherEnds
<1>4. SavedOnceStarted(t)'
  BY <1>1, <1>2 DEF SavedInv, SavedOnceStarted
<1> QED
  BY <1>1, <1>2, <1>3, <1>4, SavedByTask

\* A replaced fetcher is not the task's.
LEMMA OrphanWritesSaved ==
  ASSUME StoreInv, StoreConstants, SavedInv, NEW t \in Tasks, OrphanWrites(t)
  PROVE  SavedInv'
<1> USE DEF disk, memory, locks, others, past, bounds
<1>1. /\ UNCHANGED <<status, listed, active, starts, pauses, handler, result, sav, kept, open, call>>
      /\ \A u \in Tasks : u # t => orphans'[u] = orphans[u]
  BY DEF OrphanWrites, StoreInv, TypeOK, TypeDisk, TypeMemory, TypeWork
<1>2. TRUE
  BY TaskTypes DEF OrphanWrites, StoreInv, TypeOK, TypeDisk, TypeMemory, TypeWork
<1>3. status[t] # "none"
  BY Known DEF OrphanWrites
<1>4. SavedOnceStarted(t)'
  BY <1>1, <1>2 DEF SavedInv, SavedOnceStarted
<1> QED
  BY <1>1, <1>2, <1>3, <1>4, SavedByTask

\* Nor is its end that of the task's fetcher.
LEMMA OrphanEndsSaved ==
  ASSUME StoreInv, StoreConstants, SavedInv, NEW t \in Tasks, OrphanEnds(t)
  PROVE  SavedInv'
<1> USE DEF disk, memory, locks, others, past, bounds
<1>1. /\ UNCHANGED <<status, listed, active, starts, pauses, handler, sav, kept, open, call>>
      /\ \A u \in Tasks : u # t => orphans'[u] = orphans[u] /\ result'[u] = result[u]
  BY DEF OrphanEnds, Heard, StoreInv, TypeOK, TypeDisk, TypeMemory, TypeWork
<1>2. TRUE
  BY TaskTypes DEF OrphanEnds, Heard, StoreInv, TypeOK, TypeDisk, TypeMemory, TypeWork
<1>3. status[t] # "none"
  BY Known DEF OrphanEnds
<1>4. SavedOnceStarted(t)'
  BY <1>1, <1>2 DEF SavedInv, SavedOnceStarted
<1> QED
  BY <1>1, <1>2, <1>3, <1>4, SavedByTask

\* The watcher ends what was running.
LEMMA WatchReturnsSaved ==
  ASSUME StoreInv, StoreConstants, SavedInv, NEW t \in Tasks, WatchReturns(t)
  PROVE  SavedInv'
<1> USE DEF disk, memory, locks, others, past, bounds
<1>1. /\ UNCHANGED <<listed, active, starts, pauses, handler, orphans, sav, kept, open, call>>
      /\ \A u \in Tasks : u # t => status'[u] = status[u] /\ result'[u] = result[u]
  BY DEF WatchReturns, StoreInv, TypeOK, TypeDisk, TypeMemory, TypeWork
<1>2. status'[t] \in {status[t], "error", "done"}
  BY TaskTypes DEF WatchReturns, StoreInv, TypeOK, TypeDisk, TypeMemory, TypeWork
<1>3. status[t] # "none"
  BY Known DEF WatchReturns
<1>4. SavedOnceStarted(t)'
  BY <1>1, <1>2 DEF SavedInv, SavedOnceStarted
<1> QED
  BY <1>1, <1>2, <1>3, <1>4, SavedByTask

\* The bytes a fetcher holds and counts, the file, the progress shown and the records
\* of tasks do not matter.
LEMMA QuietSaved ==
  ASSUME StoreInv, StoreConstants, SavedInv, NEW t \in Tasks,
         Writes(t) \/ Counts(t) \/ WatchPuts(t) \/ TickChecks(t) \/ TickPuts(t)
  PROVE  SavedInv'
BY SavedQuiet DEF Writes, Counts, WatchPuts, TickChecks, TickPuts, disk, memory, locks, others, past

\* The state of a fetcher that is stored, by the ticker or by Patch, counts no less
\* than before.
LEMMA PutSaveSaved ==
  ASSUME StoreInv, StoreConstants, SavedInv, NEW t \in Tasks, PutSave(t),
         UNCHANGED <<status, listed, active, handler, open>>
  PROVE  /\ SavedOnceStarted(t)'
         /\ \A u \in Tasks : u # t => sav'[u] = sav[u] /\ kept'[u] = kept[u]
<1>1. \A u \in Tasks : u # t => sav'[u] = sav[u] /\ kept'[u] = kept[u]
  BY DEF PutSave, StoreInv, TypeOK, TypeDisk
<1>2. /\ open => sav'[t] = fet[t] /\ kept'[t] = fet[t]
      /\ ~open => sav'[t] = sav[t] /\ kept'[t] = kept[t]
  BY DEF PutSave, StoreInv, TypeOK, TypeDisk
<1>3. active[t] => fet[t] # None
  BY DEF StoreInv, TaskInv, HasFetcher
<1>4. SavedOnceStarted(t)'
  BY <1>2, <1>3, TaskTypes DEF SavedInv, SavedOnceStarted, None
<1> QED
  BY <1>1, <1>4

\* The ticker saves what the fetcher counts.
LEMMA TickSavesSaved ==
  ASSUME StoreInv, StoreConstants, SavedInv, NEW t \in Tasks, TickSaves(t)
  PROVE  SavedInv'
<1>1. /\ UNCHANGED <<status, listed, active, starts, pauses, handler, orphans, result, open, call>>
      /\ PutSave(t)
  BY DEF TickSaves, memory, locks
<1>2. /\ SavedOnceStarted(t)'
      /\ \A u \in Tasks : u # t => sav'[u] = sav[u] /\ kept'[u] = kept[u]
  BY <1>1, PutSaveSaved
<1>3. \A u \in Tasks : Unknown(u)' /\ CreatedByOne(u)'
  BY <1>1 DEF SavedInv, Unknown, CreatedByOne, At
<1>4. ASSUME NEW u \in Tasks, u # t PROVE SavedOnceStarted(u)'
  BY <1>1, <1>2, <1>4 DEF SavedInv, SavedOnceStarted
<1> QED
  BY <1>2, <1>3, <1>4 DEF SavedInv

\* A task that is created is not known before it is listed.
LEMMA CreateSaved ==
  ASSUME StoreInv, StoreConstants, SavedInv, NEW t \in Tasks, NEW c \in Clients, Create(c, t)
  PROVE  SavedInv'
<1> USE DEF disk, memory, locks, others, past, bounds
<1>1. UNCHANGED <<status, listed, active, starts, pauses, handler, orphans, result, sav, kept, open>>
  BY DEF Create
<1>2. /\ status[t] = "none" /\ \A d \in Clients : call[d].t # t
      /\ call[c].t = None /\ call'[c].t = t /\ \A d \in Clients : d # c => call'[d] = call[d]
  BY DEF Create, Begin, idle, StoreInv, TypeOK, TypeWork
<1>3. ASSUME NEW u \in Tasks PROVE Unknown(u)' /\ SavedOnceStarted(u)'
  BY <1>1 DEF SavedInv, Unknown, SavedOnceStarted
<1>4. CreatedByOne(t)'
  BY <1>1, <1>2 DEF CreatedByOne, At
<1>5. ASSUME NEW u \in Tasks, u # t PROVE CreatedByOne(u)'
  <2>1. \A d \in Clients : call'[d] = call[d] \/ (call[d].t # u /\ call'[d].t # u)
    BY <1>2, <1>5 DEF StoreConstants
  <2> QED
    BY <1>1, <2>1 DEF SavedInv, CreatedByOne, At
<1> QED
  BY <1>3, <1>4, <1>5 DEF SavedInv

\* A new task has no fetcher that downloads.
LEMMA CreateListsSaved ==
  ASSUME StoreInv, StoreConstants, SavedInv, NEW t \in Tasks, NEW c \in Clients, CreateLists(c, t)
  PROVE  SavedInv'
<1> USE DEF disk, memory, locks, others, past, bounds
<1>1. /\ UNCHANGED <<active, pauses, handler, orphans, result, sav, kept, open>>
      /\ \A u \in Tasks : u # t => status'[u] = status[u] /\ (u \in listed' <=> u \in listed) /\ starts'[u] = starts[u]
  BY DEF CreateLists, CreatedByOne, SavedInv, Unknown, Launch, StoreInv, TypeOK, TypeDisk, TypeMemory, TypeWork
<1>2. /\ \A d \in Clients : d # c => call'[d] = call[d]
      /\ call[c].t \in {t, None} /\ call'[c].t \in {t, None} /\ ~ At(c, "create", "list")'
      /\ call[c].t = t
  BY DEF CreateLists, Begin, Go, At, idle, StoreInv, TypeOK, TypeWork
<1>3. /\ status'[t] # "none" /\ ~active[t]
  BY TaskTypes, Known DEF CreateLists, CreatedByOne, SavedInv, Unknown, Launch, StoreInv, TypeOK, TypeDisk, TypeMemory, TypeWork
<1>4. Unknown(t)'
  BY <1>1, <1>3 DEF SavedInv, Unknown
<1>5. SavedOnceStarted(t)'
  BY <1>1, <1>3 DEF SavedInv, SavedOnceStarted
<1> QED
  BY <1>1, <1>2, <1>3, <1>4, <1>5, SavedByCall

\* Only a task whose fetcher is not loaded, and does not download, is restored.
LEMMA ContinueSaved ==
  ASSUME StoreInv, StoreConstants, SavedInv, NEW t \in Tasks, NEW c \in Clients, Continue(c, t)
  PROVE  SavedInv'
<1> USE DEF disk, memory, locks, others, past, bounds
<1>1. /\ UNCHANGED <<listed, active, pauses, handler, orphans, result, kept, open>>
      /\ \A u \in Tasks : u # t => status'[u] = status[u] /\ starts'[u] = starts[u] /\ sav'[u] = sav[u]
  BY DEF Continue, doStart, Restore, Launch, Begin, Pop, TaskInv, HasFetcher, StoreInv, TypeOK, TypeDisk, TypeMemory, TypeWork
<1>2. /\ \A d \in Clients : d # c => call'[d] = call[d]
      /\ call[c].t \in {t, None} /\ call'[c].t \in {t, None} /\ ~ At(c, "create", "list")'
      /\ call'[c].t = None
  BY DEF Continue, Begin, Go, At, idle, StoreInv, TypeOK, TypeWork
<1>3. /\ status[t] # "none" /\ status'[t] # "none" /\ open
      /\ active[t] => sav'[t] = sav[t]
  BY TaskTypes, Known DEF Continue, doStart, Restore, Launch, Begin, Pop, TaskInv, HasFetcher, StoreInv, TypeOK, TypeDisk, TypeMemory, TypeWork
<1>4. Unknown(t)'
  BY <1>1, <1>3 DEF SavedInv, Unknown
<1>5. SavedOnceStarted(t)'
  BY <1>1, <1>3 DEF SavedInv, SavedOnceStarted
<1> QED
  BY <1>1, <1>2, <1>3, <1>4, <1>5, SavedByCall

\* Pause is shown before it is done.
LEMMA PauseSaved ==
  ASSUME StoreInv, StoreConstants, SavedInv, NEW t \in Tasks, NEW c \in Clients, Pause(c, t)
  PROVE  SavedInv'
<1> USE DEF disk, memory, locks, others, past, bounds
<1>1. /\ UNCHANGED <<listed, active, starts, handler, orphans, result, sav, kept, open>>
      /\ \A u \in Tasks : u # t => status'[u] = status[u] /\ pauses'[u] = pauses[u]
  BY DEF Pause, doPause, StoreInv, TypeOK, TypeDisk, TypeMemory, TypeWork
<1>2. /\ \A d \in Clients : d # c => call'[d] = call[d]
      /\ call[c].t \in {t, None} /\ call'[c].t \in {t, None} /\ ~ At(c, "create", "list")'
      /\ call'[c].t = None
  BY DEF Pause, Begin, Go, At, idle, StoreInv, TypeOK, TypeWork
<1>3. /\ status[t] # "none" /\ (status'[t] = status[t] \/ status'[t] = "pause")
  BY TaskTypes, Known DEF Pause, doPause, StoreInv, TypeOK, TypeDisk, TypeMemory, TypeWork
<1>4. Unknown(t)'
  BY <1>1, <1>3 DEF SavedInv, Unknown
<1>5. SavedOnceStarted(t)'
  BY <1>1, <1>3 DEF SavedInv, SavedOnceStarted
<1> QED
  BY <1>1, <1>2, <1>3, <1>4, <1>5, SavedByCall

\* The fetcher that takes the other's place does not download.
LEMMA LookPopsSaved ==
  ASSUME StoreInv, StoreConstants, SavedInv, NEW t \in Tasks, NEW c \in Clients, LookPops(c, t)
  PROVE  SavedInv'
<1> USE DEF disk, memory, locks, others, past, bounds
<1>1. /\ UNCHANGED <<status, listed, starts, pauses, handler, result, kept, open>>
      /\ \A u \in Tasks : u # t => sav'[u] = sav[u] /\ active'[u] = active[u] /\ orphans'[u] = orphans[u]
  BY DEF LookPops, Pop, Replace, StoreInv, TypeOK, TypeDisk, TypeMemory, TypeWork
<1>2. /\ \A d \in Clients : d # c => call'[d] = call[d]
      /\ call[c].t \in {t, None} /\ call'[c].t \in {t, None} /\ ~ At(c, "create", "list")'
      /\ call[c].t = t
  BY DEF LookPops, PopCalls, Begin, Go, At, idle, StoreInv, TypeOK, TypeWork
<1>3. /\ ~active'[t] \/ (active'[t] = active[t] /\ sav'[t] = sav[t])
      /\ ~active[t] => orphans'[t] = orphans[t] /\ ~active'[t]
  BY TaskTypes, Known DEF LookPops, Pop, Replace, StoreInv, TypeOK, TypeDisk, TypeMemory, TypeWork
<1>4. Unknown(t)'
  BY <1>1, <1>3 DEF SavedInv, Unknown
<1>5. SavedOnceStarted(t)'
  BY <1>1, <1>3 DEF SavedInv, SavedOnceStarted
<1> QED
  BY <1>1, <1>2, <1>3, <1>4, <1>5, SavedByCall

\* The record says nothing of the fetcher.
LEMMA PatchPutsSaved ==
  ASSUME StoreInv, StoreConstants, SavedInv, NEW t \in Tasks, NEW c \in Clients, PatchPuts(c, t)
  PROVE  SavedInv'
<1> USE DEF disk, memory, locks, others, past, bounds
<1>1. /\ UNCHANGED <<status, listed, active, starts, pauses, handler, orphans, result, sav, kept, open>>
  BY DEF PatchPuts, StoreInv, TypeOK, TypeDisk, TypeMemory, TypeWork
<1>2. /\ \A d \in Clients : d # c => call'[d] = call[d]
      /\ call[c].t \in {t, None} /\ call'[c].t \in {t, None} /\ ~ At(c, "create", "list")'
      /\ call[c].t = t
  BY DEF PatchPuts, Begin, Go, At, idle, StoreInv, TypeOK, TypeWork
<1>3. TRUE
  BY TaskTypes, Known DEF PatchPuts, StoreInv, TypeOK, TypeDisk, TypeMemory, TypeWork
<1>4. Unknown(t)'
  BY <1>1, <1>3 DEF SavedInv, Unknown
<1>5. SavedOnceStarted(t)'
  BY <1>1, <1>3 DEF SavedInv, SavedOnceStarted
<1> QED
  BY <1>1, <1>2, <1>3, <1>4, <1>5, SavedByCall

\* A task that leaves the list need not be saved any more.
LEMMA DeleteSaved ==
  ASSUME StoreInv, StoreConstants, SavedInv, NEW t \in Tasks, NEW c \in Clients, Delete(c, t)
  PROVE  SavedInv'
<1> USE DEF disk, memory, locks, others, past, bounds
<1>1. /\ UNCHANGED <<status, active, starts, pauses, handler, orphans, result, sav, kept, open>>
      /\ \A u \in Tasks : u # t => (u \in listed' <=> u \in listed)
  BY DEF Delete, StoreInv, TypeOK, TypeDisk, TypeMemory, TypeWork
<1>2. /\ \A d \in Clients : d # c => call'[d] = call[d]
      /\ call[c].t \in {t, None} /\ call'[c].t \in {t, None} /\ ~ At(c, "create", "list")'
      /\ call'[c].t = t
  BY DEF Delete, Begin, Go, At, idle, StoreInv, TypeOK, TypeWork
<1>3. status[t] # "none" /\ t \notin listed'
  BY TaskTypes, Known DEF Delete, StoreInv, TypeOK, TypeDisk, TypeMemory, TypeWork
<1>4. Unknown(t)'
  BY <1>1, <1>3 DEF SavedInv, Unknown
<1>5. SavedOnceStarted(t)'
  BY <1>1, <1>3 DEF SavedInv, SavedOnceStarted
<1> QED
  BY <1>1, <1>2, <1>3, <1>4, <1>5, SavedByCall

\* Nor does its record matter.
LEMMA DeletesRecordSaved ==
  ASSUME StoreInv, StoreConstants, SavedInv, NEW t \in Tasks, NEW c \in Clients, DeletesRecord(c, t)
  PROVE  SavedInv'
<1> USE DEF disk, memory, locks, others, past, bounds
<1>1. /\ UNCHANGED <<status, listed, active, starts, pauses, handler, orphans, result, sav, kept, open>>
  BY DEF DeletesRecord, StoreInv, TypeOK, TypeDisk, TypeMemory, TypeWork
<1>2. /\ \A d \in Clients : d # c => call'[d] = call[d]
      /\ call[c].t \in {t, None} /\ call'[c].t \in {t, None} /\ ~ At(c, "create", "list")'
      /\ call[c].t = t
  BY DEF DeletesRecord, Begin, Go, At, idle, StoreInv, TypeOK, TypeWork
<1>3. TRUE
  BY TaskTypes, Known DEF DeletesRecord, StoreInv, TypeOK, TypeDisk, TypeMemory, TypeWork
<1>4. Unknown(t)'
  BY <1>1, <1>3 DEF SavedInv, Unknown
<1>5. SavedOnceStarted(t)'
  BY <1>1, <1>3 DEF SavedInv, SavedOnceStarted
<1> QED
  BY <1>1, <1>2, <1>3, <1>4, <1>5, SavedByCall

\* Its saved state is removed after it left the list.
LEMMA DeletesSaveSaved ==
  ASSUME StoreInv, StoreConstants, SavedInv, NEW t \in Tasks, NEW c \in Clients, DeletesSave(c, t)
  PROVE  SavedInv'
<1> USE DEF disk, memory, locks, others, past, bounds
<1>1. /\ UNCHANGED <<status, listed, active, starts, pauses, handler, orphans, result, kept, open>>
      /\ \A u \in Tasks : u # t => sav'[u] = sav[u]
  BY DEF DeletesSave, deleteSave, At, DeletingSettled, Settled, TaskInv, StoreInv, TypeOK, TypeDisk, TypeMemory, TypeWork
<1>2. /\ \A d \in Clients : d # c => call'[d] = call[d]
      /\ call[c].t \in {t, None} /\ call'[c].t \in {t, None} /\ ~ At(c, "create", "list")'
      /\ call[c].t = t
  BY DEF DeletesSave, Begin, Go, At, idle, StoreInv, TypeOK, TypeWork
<1>3. t \notin listed
  BY TaskTypes, Known DEF DeletesSave, deleteSave, At, DeletingSettled, Settled, TaskInv, StoreInv, TypeOK, TypeDisk, TypeMemory, TypeWork
<1>4. Unknown(t)'
  BY <1>1, <1>3 DEF SavedInv, Unknown
<1>5. SavedOnceStarted(t)'
  BY <1>1, <1>3 DEF SavedInv, SavedOnceStarted
<1> QED
  BY <1>1, <1>2, <1>3, <1>4, <1>5, SavedByCall

\* Its fetcher is closed.
LEMMA DeletesFileSaved ==
  ASSUME StoreInv, StoreConstants, SavedInv, NEW t \in Tasks, NEW c \in Clients, DeletesFile(c, t)
  PROVE  SavedInv'
<1> USE DEF disk, memory, locks, others, past, bounds
<1>1. /\ UNCHANGED <<status, listed, starts, pauses, handler, orphans, result, sav, kept, open>>
      /\ \A u \in Tasks : u # t => active'[u] = active[u]
  BY DEF DeletesFile, StoreInv, TypeOK, TypeDisk, TypeMemory, TypeWork
<1>2. /\ \A d \in Clients : d # c => call'[d] = call[d]
      /\ call[c].t \in {t, None} /\ call'[c].t \in {t, None} /\ ~ At(c, "create", "list")'
      /\ call[c].t = t
  BY DEF DeletesFile, Begin, Go, At, idle, StoreInv, TypeOK, TypeWork
<1>3. ~active'[t]
  BY TaskTypes, Known DEF DeletesFile, StoreInv, TypeOK, TypeDisk, TypeMemory, TypeWork
<1>4. Unknown(t)'
  BY <1>1, <1>3 DEF SavedInv, Unknown
<1>5. SavedOnceStarted(t)'
  BY <1>1, <1>3 DEF SavedInv, SavedOnceStarted
<1> QED
  BY <1>1, <1>2, <1>3, <1>4, <1>5, SavedByCall

\* A look changes nothing but the call.
LEMMA LookSaved ==
  ASSUME StoreInv, StoreConstants, SavedInv, NEW t \in Tasks, NEW c \in Clients, NEW op \in {"stats", "patch"},
         Look(c, op, t)
  PROVE  SavedInv'
<1> USE DEF disk, memory, locks, others, past, bounds
<1>1. UNCHANGED <<status, listed, active, starts, pauses, handler, orphans, result, sav, kept, open>>
  BY DEF Look
<1>2. /\ \A d \in Clients : d # c => call'[d] = call[d]
      /\ call[c].t = None /\ call'[c].t \in {t, None} /\ call'[c].op # "create"
  BY DEF Look, Begin, idle, StoreInv, TypeOK, TypeWork
<1>3. t \in listed
  BY DEF Look
<1>4. status[t] # "none"
  BY <1>3, Known
<1>5. Unknown(t)' /\ SavedOnceStarted(t)'
  BY <1>1 DEF SavedInv, Unknown, SavedOnceStarted
<1>6. ~ At(c, "create", "list")'
  BY <1>2 DEF At
<1> QED
  BY <1>1, <1>2, <1>4, <1>5, <1>6, SavedByCall

\* Patch saves a fetcher that it has looked for, or restored.
LEMMA PatchSavesSaved ==
  ASSUME StoreInv, StoreConstants, SavedInv, NEW t \in Tasks, NEW c \in Clients, PatchSaves(c, t)
  PROVE  SavedInv'
<1> USE DEF disk, memory, locks, others, past, bounds
<1>1. UNCHANGED <<status, listed, active, starts, pauses, handler, orphans, result, open>> /\ PutSave(t)
  BY DEF PatchSaves
<1>2. /\ SavedOnceStarted(t)'
      /\ \A u \in Tasks : u # t => sav'[u] = sav[u] /\ kept'[u] = kept[u]
  BY <1>1, PutSaveSaved
<1>3. /\ \A d \in Clients : d # c => call'[d] = call[d]
      /\ call[c].t = t /\ call'[c].t \in {t, None} /\ ~ At(c, "create", "list")'
  BY DEF PatchSaves, Go, At, idle, StoreInv, TypeOK, TypeWork
<1>4. Unknown(t)'
  BY <1>1 DEF SavedInv, Unknown
<1> QED
  BY <1>1, <1>2, <1>3, <1>4, SavedByCall

\* Close pauses what is listed.
LEMMA CloseSaved ==
  ASSUME StoreInv, StoreConstants, SavedInv, NEW c \in Clients, Close(c)
  PROVE  SavedInv'
<1> USE DEF disk, memory, locks, others, past, bounds
<1>1. UNCHANGED <<listed, active, starts, handler, orphans, result, sav, kept, open>>
  BY DEF Close
<1>2. /\ \A d \in Clients : d # c => call'[d] = call[d]
      /\ call[c].t = None /\ call'[c].t = None /\ call'[c].op = "close"
  BY DEF Close, Begin, idle, StoreInv, TypeOK, TypeWork
<1>3. \A u \in Tasks : /\ u \in listed \/ (status'[u] = status[u] /\ pauses'[u] = pauses[u])
                       /\ status'[u] = status[u] \/ status'[u] = "pause"
  BY DEF Close
<1>4. ASSUME NEW u \in Tasks PROVE Unknown(u)' /\ SavedOnceStarted(u)'
  <2>1. u \in listed => status[u] # "none"
    BY Known
  <2> QED
    BY <1>1, <1>3, <2>1 DEF SavedInv, Unknown, SavedOnceStarted
<1>5. ASSUME NEW u \in Tasks PROVE CreatedByOne(u)'
  <2> SUFFICES ASSUME NEW e \in Clients, At(e, "create", "list")', call'[e].t = u
               PROVE  status'[u] = "none" /\ \A d \in Clients : call'[d].t = u => d = e
    BY DEF CreatedByOne, At
  <2>1. e # c /\ At(e, "create", "list") /\ call[e].t = u
    BY <1>2 DEF At
  <2>2. status[u] = "none" /\ \A d \in Clients : call[d].t = u => d = e
    BY <2>1 DEF SavedInv, CreatedByOne
  <2>3. u \notin listed
    BY <2>2, Known
  <2> QED
    BY <1>2, <1>3, <2>2, <2>3 DEF StoreConstants
<1> QED
  BY <1>4, <1>5 DEF SavedInv

\* When the storage is closed what was saved stays so.
LEMMA CloseStorageSaved ==
  ASSUME StoreInv, StoreConstants, SavedInv, NEW c \in Clients, CloseStorage(c)
  PROVE  SavedInv'
<1> USE DEF disk, memory, locks, others, past, bounds
<1>1. UNCHANGED <<status, listed, active, starts, pauses, handler, orphans, result, sav, kept>> /\ open' = FALSE
  BY DEF CloseStorage
<1>2. /\ \A d \in Clients : d # c => call'[d] = call[d]
      /\ call'[c] = idle
  BY DEF CloseStorage, Go, At, StoreInv, TypeOK, TypeWork
<1>3. ASSUME NEW u \in Tasks PROVE Unknown(u)' /\ SavedOnceStarted(u)'
  BY <1>1 DEF SavedInv, Unknown, SavedOnceStarted, StoreInv, TypeOK, TypeDisk
<1>4. ASSUME NEW u \in Tasks PROVE CreatedByOne(u)'
  <2>1. \A d \in Clients : call'[d] = call[d] \/ call'[d].t # u
    BY <1>2 DEF StoreConstants, idle
  <2> QED
    BY <1>1, <1>2, <2>1 DEF SavedInv, CreatedByOne, At, idle
<1> QED
  BY <1>3, <1>4 DEF SavedInv

\* A crash forgets every task.
LEMMA CrashSaved ==
  ASSUME Crash
  PROVE  SavedInv'
BY DEF Crash, Forget, SavedInv, Unknown, CreatedByOne, SavedOnceStarted, At, idle

\* The next start lists what is stored, and downloads none of it.
LEMMA SetupSaved ==
  ASSUME StoreInv, Setup
  PROVE  SavedInv'
<1>1. \A u \in Tasks : /\ starts'[u] = 0 /\ pauses'[u] = 0 /\ handler'[u] = "free" /\ ~active'[u]
                       /\ orphans'[u] = {} /\ result'[u] = "none"
  BY DEF Setup, StoreInv, Down, Settled, memory, locks
<1>2. \A c \in Clients : call'[c] = idle
  BY DEF Setup, StoreInv, Down, others
<1>3. \A u \in Tasks : status'[u] = "none" => u \notin listed'
  BY DEF Setup, loaded
<1> QED
  BY <1>1, <1>2, <1>3 DEF SavedInv, Unknown, CreatedByOne, SavedOnceStarted, At, idle

\* Every step.
LEMMA NextSaved ==
  ASSUME StoreInv, StoreConstants, SavedInv, [Next]_storeVars
  PROVE  SavedInv'
<1>1. CASE UNCHANGED storeVars
  BY <1>1, SavedQuiet DEF storeVars, disk, memory, locks, others, past
<1>2. ASSUME NEW t \in Tasks, HandlerStep(t) PROVE SavedInv'
  BY <1>2, StartTakesLockSaved, StartResolvesSaved, StartsFetcherSaved, StartSavesFetcherSaved,
     HandlerPutsSaved, PauseHandledSaved DEF HandlerStep
<1>3. ASSUME NEW t \in Tasks, FetcherStep(t) \/ WatchStep(t) \/ TickStep(t) PROVE SavedInv'
  BY <1>3, QuietSaved, FetcherEndsSaved, OrphanWritesSaved, OrphanEndsSaved, WatchReturnsSaved,
     TickSavesSaved DEF FetcherStep, WatchStep, TickStep
<1>4. ASSUME NEW c \in Clients, NEW t \in Tasks, ApiStep(c, t) PROVE SavedInv'
  BY <1>4, CreateSaved, CreateListsSaved, ContinueSaved, PauseSaved, LookSaved, LookPopsSaved,
     PatchSavesSaved, PatchPutsSaved, DeleteSaved, DeletesRecordSaved, DeletesSaveSaved,
     DeletesFileSaved DEF ApiStep
<1>5. ASSUME NEW c \in Clients, Close(c) \/ CloseStorage(c) PROVE SavedInv'
  BY <1>5, CloseSaved, CloseStorageSaved
<1>6. CASE Crash \/ Setup
  BY <1>6, CrashSaved, SetupSaved
<1> QED
  BY <1>1, <1>2, <1>3, <1>4, <1>5, <1>6 DEF Next

\* A crash costs a running task no more than what it downloaded since the last save:
\* whatever Stats and Patch do to its fetcher meanwhile, once the goroutine of Start is
\* through the state of the fetcher is in the store, and counts no less than saveTask
\* put there last.
THEOREM RunningStaysSaved ==
  ASSUME StoreConstants
  PROVE  Spec => []RunningIsSaved
<1>1. Init => SavedInv
  BY DEF Init, SavedInv, Unknown, CreatedByOne, SavedOnceStarted, At, idle
<1>2. StoreInv /\ SavedInv /\ [Next]_storeVars => SavedInv'
  BY NextSaved
<1>3. SavedInv => RunningIsSaved
  BY DEF SavedInv, SavedOnceStarted, RunningIsSaved
<1> QED
  BY <1>1, <1>2, <1>3, StoreIsSound, PTL DEF Spec

==============================================================================
