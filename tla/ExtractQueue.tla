---------------------------- MODULE ExtractQueue ----------------------------
(***************************************************************************)
(* The extraction queue (pkg/download/extract_queue.go): a worker          *)
(* goroutine per Start, callers of Start, Stop, Enqueue, EnqueueAndWait    *)
(* and RemovePendingJob.  One action is one critical section of q.mu, or   *)
(* one step outside it.                                                    *)
(***************************************************************************)
EXTENDS Integers, Sequences, FiniteSets, SequencesExt

CONSTANTS
  Jobs,         \* the ExtractionJob objects
  Ids, IdOf,    \* ExtractionJob.ID; two jobs may have the same
  NoJob,        \* nil
  Callers,      \* goroutines that use the queue
  Controllers,  \* those of them that call Start and Stop
  MaxStarts     \* bound: workers in a behaviour

ASSUME QueueConstants ==
  /\ IdOf \in [Jobs -> Ids] /\ NoJob \notin Jobs
  /\ Controllers \subseteq Callers /\ MaxStarts \in Nat

Workers == 1..MaxStarts

VARIABLES
  jobs, running, shutdown,  \* the fields of ExtractionQueue
  wg, spawned,              \* q.wg, and the number of workers spawned
  wpc, wjob,                \* the workers
  cpc, cjob,                \* the callers
  done, ran,                \* jobs whose channel is closed, jobs executed
  said, panicked            \* what the last Start or Stop to return said; panic

queueVars == <<jobs, running, shutdown>>
workers   == <<spawned, wpc, wjob>>
callers   == <<cpc, cjob>>
ends      == <<done, ran>>
vars      == <<queueVars, wg, workers, callers, ends, said, panicked>>

Held  == {wjob[g] : g \in {h \in Workers : wpc[h] \in {"execute", "close"}}}
Fresh(j) == j \notin ToSet(jobs) \union Held \union done

Waiting == {g \in Workers : wpc[g] = "waiting"}
Stopping == {c \in Callers : cpc[c] \in {"stopping", "blocked", "released"}}

\* Mutant of Signal: nobody is woken.
SignalForgotten == UNCHANGED wpc

\* q.cond.Signal(): one of the goroutines in cond.Wait() goes on.
Signal ==
  IF Waiting = {} THEN UNCHANGED wpc
  ELSE \E g \in Waiting : wpc' = [wpc EXCEPT ![g] = "lock"]

----------------------------------------------------------------------------
(* Start and Stop *)

\* Mutant of alreadyRunning: q.running is not tested.
neverRunning == FALSE

alreadyRunning == running

\* Mutant of Reopen: q.shutdown is not reset.
ReopenShut == running' = TRUE /\ UNCHANGED shutdown

Reopen == running' = TRUE /\ shutdown' = FALSE

StartCalled(c) ==
  /\ cpc[c] = "idle"
  /\ IF alreadyRunning
     THEN /\ said' = IF Stopping = {} THEN "started" ELSE said
          /\ UNCHANGED <<running, shutdown, cpc>>
     ELSE /\ spawned < MaxStarts
          /\ Reopen
          /\ cpc' = [cpc EXCEPT ![c] = "launch"]
          /\ said' = "nothing"
  /\ UNCHANGED <<jobs, wg, workers, cjob, ends, panicked>>

\* Mutant of wgAdded: the worker is not counted.
wgKept == wg

wgAdded == wg + 1

\* Outside q.mu: q.wg.Add(1) and the worker goroutine.
Launch(c) ==
  /\ cpc[c] = "launch"
  /\ wg' = wgAdded
  /\ spawned' = spawned + 1
  /\ wpc' = [wpc EXCEPT ![spawned + 1] = "lock"]
  /\ cpc' = [cpc EXCEPT ![c] = "idle"]
  /\ said' = IF shutdown THEN said ELSE "started"
  /\ UNCHANGED <<queueVars, wjob, cjob, ends, panicked>>

StopCalled(c) ==
  /\ cpc[c] = "idle" /\ running
  /\ shutdown' = TRUE
  /\ Signal
  /\ cpc' = [cpc EXCEPT ![c] = "stopping"]
  /\ said' = "nothing"
  /\ UNCHANGED <<jobs, running, wg, spawned, wjob, cjob, ends, panicked>>

\* Stop returns.  A Start that began a new worker meanwhile has the last word.
stopped == IF running /\ ~shutdown THEN said ELSE "stopped"

\* Mutant of workersGone: the worker is not waited for.
workersForgotten == TRUE

workersGone == wg = 0

\* q.wg.Wait()
StopWaits(c) ==
  /\ cpc[c] = "stopping"
  /\ cpc' = [cpc EXCEPT ![c] = IF workersGone THEN "idle" ELSE "blocked"]
  /\ said' = IF workersGone THEN stopped ELSE said
  /\ UNCHANGED <<queueVars, wg, workers, cjob, ends, panicked>>

\* A waiter that wakes up to a WaitGroup in use again panics.
StopWakes(c) ==
  /\ cpc[c] = "released"
  /\ IF workersGone
     THEN cpc' = [cpc EXCEPT ![c] = "idle"] /\ said' = stopped /\ UNCHANGED panicked
     ELSE panicked' = TRUE /\ UNCHANGED <<cpc, said>>
  /\ UNCHANGED <<queueVars, wg, workers, cjob, ends>>

----------------------------------------------------------------------------
(* Enqueue, EnqueueAndWait and RemovePendingJob *)

Enqueue(c, j, waits) ==
  /\ cpc[c] = "idle" /\ Fresh(j)
  /\ IF shutdown
     THEN done' = done \union {j} /\ UNCHANGED <<jobs, wpc>>
     ELSE jobs' = Append(jobs, j) /\ Signal /\ UNCHANGED done
  /\ IF waits THEN cpc' = [cpc EXCEPT ![c] = "await"] /\ cjob' = [cjob EXCEPT ![c] = j]
              ELSE UNCHANGED callers
  /\ UNCHANGED <<running, shutdown, wg, spawned, wjob, ran, said, panicked>>

\* job.Wait() returns.
Awaited(c) ==
  /\ cpc[c] = "await" /\ cjob[c] \in done
  /\ cpc' = [cpc EXCEPT ![c] = "idle"]
  /\ cjob' = [cjob EXCEPT ![c] = NoJob]
  /\ UNCHANGED <<queueVars, wg, workers, ends, said, panicked>>

\* Mutant of without: the job that is released stays in the queue.
kept(i) == jobs

without(i) == RemoveAt(jobs, i)

\* The first job with the ID is released and leaves the queue.
RemovePendingJob(c, id) ==
  /\ cpc[c] = "idle"
  /\ \E i \in 1..Len(jobs) :
       /\ IdOf[jobs[i]] = id
       /\ \A k \in 1..(i - 1) : IdOf[jobs[k]] # id
       /\ done' = done \union {jobs[i]}
       /\ jobs' = without(i)
  /\ UNCHANGED <<running, shutdown, wg, workers, callers, ran, said, panicked>>

----------------------------------------------------------------------------
(* worker *)

WorkerWaits(g) ==
  /\ wpc[g] = "lock"
  /\ jobs = <<>> /\ ~shutdown
  /\ wpc' = [wpc EXCEPT ![g] = "waiting"]
  /\ UNCHANGED <<queueVars, wg, spawned, wjob, callers, ends, said, panicked>>

\* Mutant of leftOver: none is released.
leftOverForgotten == {}

leftOver == ToSet(jobs)

\* Shutdown: what is left in the queue is released without being run.
WorkerStops(g) ==
  /\ wpc[g] = "lock" /\ shutdown
  /\ done' = done \union leftOver
  /\ jobs' = <<>>
  /\ running' = FALSE
  /\ wpc' = [wpc EXCEPT ![g] = "exit"]
  /\ UNCHANGED <<shutdown, wg, spawned, wjob, callers, ran, said, panicked>>

WorkerTakes(g) ==
  /\ wpc[g] = "lock" /\ ~shutdown /\ jobs # <<>>
  /\ wjob' = [wjob EXCEPT ![g] = Head(jobs)]
  /\ jobs' = Tail(jobs)
  /\ wpc' = [wpc EXCEPT ![g] = "execute"]
  /\ UNCHANGED <<running, shutdown, wg, spawned, callers, ends, said, panicked>>

WorkerExecutes(g) ==
  /\ wpc[g] = "execute"
  /\ ran' = ran \union {wjob[g]}
  /\ wpc' = [wpc EXCEPT ![g] = "close"]
  /\ UNCHANGED <<queueVars, wg, spawned, wjob, callers, done, said, panicked>>

\* close(job.done)
WorkerCloses(g) ==
  /\ wpc[g] = "close"
  /\ done' = done \union {wjob[g]}
  /\ wjob' = [wjob EXCEPT ![g] = NoJob]
  /\ wpc' = [wpc EXCEPT ![g] = "lock"]
  /\ UNCHANGED <<queueVars, wg, spawned, callers, ran, said, panicked>>

\* q.wg.Done(): at zero every goroutine blocked in q.wg.Wait() is released.
WorkerExits(g) ==
  /\ wpc[g] = "exit"
  /\ wg' = wg - 1
  /\ cpc' = [c \in Callers |-> IF wg = 1 /\ cpc[c] = "blocked" THEN "released" ELSE cpc[c]]
  /\ wpc' = [wpc EXCEPT ![g] = "gone"]
  /\ UNCHANGED <<queueVars, spawned, wjob, cjob, ends, said, panicked>>

----------------------------------------------------------------------------

WorkerStep(g) ==
  \/ WorkerWaits(g) \/ WorkerStops(g) \/ WorkerTakes(g) \/ WorkerExecutes(g)
  \/ WorkerCloses(g) \/ WorkerExits(g)

\* What a caller does on its own once it has called.
CallerStep(c) == Launch(c) \/ StopWaits(c) \/ StopWakes(c) \/ Awaited(c)

Call(c) ==
  \/ c \in Controllers /\ (StartCalled(c) \/ StopCalled(c))
  \/ \E j \in Jobs, waits \in BOOLEAN : Enqueue(c, j, waits)
  \/ \E id \in Ids : RemovePendingJob(c, id)

Init ==
  /\ jobs = <<>> /\ running = FALSE /\ shutdown = FALSE
  /\ wg = 0 /\ spawned = 0
  /\ wpc = [g \in Workers |-> "none"] /\ wjob = [g \in Workers |-> NoJob]
  /\ cpc = [c \in Callers |-> "idle"] /\ cjob = [c \in Callers |-> NoJob]
  /\ done = {} /\ ran = {}
  /\ said = "nothing" /\ panicked = FALSE

Next ==
  /\ ~panicked
  /\ \/ \E c \in Callers : Call(c) \/ CallerStep(c)
     \/ \E g \in Workers : WorkerStep(g)

Spec == Init /\ [][Next]_vars

\* The scheduler runs every goroutine, and extracting an archive ends.
FairSpec ==
  /\ Spec
  /\ \A g \in Workers : WF_vars(WorkerStep(g))
  /\ \A c \in Callers : WF_vars(CallerStep(c))

----------------------------------------------------------------------------
(* Properties *)

\* Every variable has its type.
TypeOK ==
  /\ jobs \in Seq(Jobs) /\ running \in BOOLEAN /\ shutdown \in BOOLEAN
  /\ wg \in Nat /\ spawned \in 0..MaxStarts
  /\ wpc \in [Workers -> {"none", "lock", "waiting", "execute", "close", "exit", "gone"}]
  /\ wjob \in [Workers -> Jobs \union {NoJob}]
  /\ cpc \in [Callers -> {"idle", "launch", "stopping", "blocked", "released", "await"}]
  /\ cjob \in [Callers -> Jobs \union {NoJob}]
  /\ done \subseteq Jobs /\ ran \subseteq Jobs
  /\ said \in {"nothing", "started", "stopped"} /\ panicked \in BOOLEAN

\* The channel of a job is closed once: a job that waits or runs is not released,
\* and is not in the queue twice.  Closing a channel twice panics.
ClosedOnce ==
  /\ (ToSet(jobs) \union Held) \intersect done = {}
  /\ ToSet(jobs) \intersect Held = {}
  /\ \A i, k \in 1..Len(jobs) : i # k => jobs[i] # jobs[k]

\* One at a time, in order, each job released once: the abstract queue.
Abs == INSTANCE ExtractSpec WITH
         queue <- jobs, current <- Held, ran <- ran \intersect done, dropped <- done \ ran
Implements == Abs!Spec

\* After Stop has returned, and until Start is called, no job runs: the archives
\* can be touched.
StopHolds == said = "stopped" => Held = {}

\* A job in the queue of a running worker is released: EnqueueAndWait returns,
\* also when the queue is stopped or the job removed meanwhile.
JobsReleased == \A j \in Jobs : (running /\ j \in ToSet(jobs)) ~> (j \in done)

\* Stop returns.
StopReturns == \A c \in Callers : (cpc[c] \in {"stopping", "blocked", "released"}) ~> (cpc[c] = "idle")

\* When Start has returned, and no Stop was called meanwhile or after, a worker
\* serves the queue.
StartWorks == said = "started" => running /\ ~shutdown

----------------------------------------------------------------------------
(* The inductive invariant of the safety properties *)

Active == {g \in Workers : wpc[g] \in {"lock", "waiting", "execute", "close"}}
Counted == {g \in Workers : wpc[g] \in {"lock", "waiting", "execute", "close", "exit"}}

\* At most one worker is in its loop, and a Start is between its two halves
\* only when none is.
OneWorker ==
  /\ \A g, h \in Active : g = h
  /\ \A c, d \in Callers : cpc[c] = "launch" /\ cpc[d] = "launch" => c = d
  /\ \A c \in Callers : cpc[c] = "launch" => running /\ Active = {} /\ spawned < MaxStarts
  /\ ~running => Active = {}
  /\ \A g \in Workers : g > spawned => wpc[g] = "none"

\* q.wg counts the workers that have not called Done.
WgCounts == wg = Cardinality(Counted)

\* A worker has a job while it runs and releases it.
JobHeld ==
  /\ \A g \in Workers : wpc[g] \in {"execute", "close"} => wjob[g] \in Jobs
  /\ \A g \in Workers : wpc[g] = "close" => wjob[g] \in ran

\* A job that ran is with its worker or released.
RanHeldOrDone == ran \subseteq done \union Held

\* Nothing runs after Stop, and no worker can take a job.
StoppedQuiet == said = "stopped" => (~running \/ shutdown) /\ Held = {}

\* All of it: what holds of the queue between any two critical sections.
QInv ==
  /\ TypeOK /\ OneWorker /\ WgCounts /\ JobHeld /\ ClosedOnce /\ RanHeldOrDone /\ StoppedQuiet

\* Behind StartWorks, when one goroutine at most calls Start and Stop: a queue
\* that runs has a worker or is about to, one that runs shut is being stopped.
StartInv ==
  /\ \A c \in Callers : cpc[c] \in {"launch", "stopping", "blocked", "released"} => c \in Controllers
  /\ running => Active # {} \/ \E c \in Callers : cpc[c] = "launch"
  /\ running /\ shutdown => Stopping # {}
  /\ \A c \in Callers : cpc[c] = "launch" => ~shutdown
  /\ StartWorks

=============================================================================
