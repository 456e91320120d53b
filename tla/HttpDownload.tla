---------------------------- MODULE HttpDownload ----------------------------
(***************************************************************************)
(* The download phase of the HTTP fetcher (internal/protocol/http) for a   *)
(* resource that supports ranges and has a known size: prefetch, slow      *)
(* start, chunk splitting and stealing, retries, completion, pause and     *)
(* resume.                                                                 *)
(*                                                                         *)
(* One action is one critical section of one goroutine.  The goroutines    *)
(* are the connections (runConnection), the download loop (downloadLoop),  *)
(* the extra waiters that expandConnections spawns, the prefetch           *)
(* (asyncPrefetch), the caller of Start or Pause (which hold task.lock in  *)
(* the downloader, so only one of them runs at a time) and the watcher     *)
(* that blocks in Wait.                                                    *)
(***************************************************************************)
EXTENDS Integers, Sequences, FiniteSets

CONSTANTS
  Size,       \* meta.Res.Size, in bytes
  MaxConns,   \* opts.Connections
  Buf,        \* size of the read buffer of downloadChunkOnce
  Arrivals,   \* bound: how many bytes a read finds when there are enough
  StealMin,   \* stealMinChunkSize
  Errors,     \* the kinds of failure the server produces in this instance
  MaxFaults,  \* bound: failures in a behaviour
  MaxStarts,  \* bound: calls of Start in a behaviour
  MaxPauses,  \* bound: calls of Pause in a behaviour
  PrefetchMax,\* bound: bytes the prefetch can read
  WaitersDrain \* the second waiter of an attempt is gone before the next Start

ErrorKinds == {"forbidden", "counted", "transient", "open"}

ASSUME ConstantsOK ==
  /\ Size \in Nat \ {0} /\ MaxConns \in Nat \ {0} /\ Buf \in Nat \ {0}
  /\ Arrivals \subseteq 1..Buf /\ StealMin \in Nat /\ Errors \subseteq ErrorKinds
  /\ MaxFaults \in Nat /\ MaxStarts \in Nat /\ MaxPauses \in Nat
  /\ PrefetchMax \in 0..Size /\ WaitersDrain \in BOOLEAN

\* 512 KiB against an 8 KiB buffer in the source: half of a chunk that may be
\* split holds at least one full buffer.
ASSUME StealLeavesABuffer == StealMin >= 2 * Buf + 1

Conns == 0..(MaxConns - 1)
Bytes == 0..(Size - 1)

VARIABLES
  \* f.connections: how many exist, and the chunk, the byte count and the
  \* retry state of each one
  nconn, begin, end, got, total, cstate, failed, retry, lastErr,
  \* locals of the goroutine running a connection: where it stands, the next
  \* byte of its response and the last one, the bytes in hand, `finished`
  pc, spos, send, hand, finished,
  \* slowStartController
  launched, pending, ready, batch, expCh,
  \* downloadLoop, extra waiters (one per attempt), f.ctx, the reuse panic
  loop, extra, cancelled, panicked,
  \* f.state, f.file open, bytes of the file that are right, f.doneCh
  fstate, file, written, doneCh,
  \* prefetch: bytes in the temporary file, the file exists, stop, done, and
  \* f.resolveDataPos
  pfSize, pfFile, pfStop, pfDone, dataPos,
  \* the caller of Start / Pause, the number of Starts, the watcher
  op, attempt, watching, stale,
  faults, pauses

conns  == <<nconn, begin, end, got, total, cstate, failed, retry, lastErr>>
locals == <<pc, spos, send, hand, finished>>
slow   == <<launched, pending, ready, batch, expCh>>
ctl    == <<loop, extra, cancelled, panicked>>
out    == <<fstate, file, written, doneCh>>
pref   == <<pfSize, pfFile, pfStop, pfDone, dataPos>>
env    == <<op, attempt, watching, stale, pauses>>
vars   == <<conns, locals, slow, ctl, out, pref, env, faults>>

----------------------------------------------------------------------------
(* Helpers *)

Attempts == 1..MaxStarts
Existing == 0..(nconn - 1)
Running  == {c \in Existing : pc[c] # "gone"}      \* the WaitGroup's count

\* Mutant of remain: the end of a chunk taken for exclusive.
remainExclusive(c) == end[c] - begin[c] - got[c]

remain(c) == end[c] - begin[c] + 1 - got[c]

\* The sum of f over S, of natural numbers: as many units as each element has.  (A
\* set is something the provers can count, unlike a fold.)
Units(f, S) == UNION {{c} \X (1..f[c]) : c \in S}
SumOver(f, S) == Cardinality(Units(f, S))
Downloaded == SumOver(total, Existing)

\* The loop holds connMu from the first split of a batch to the end of the
\* batch; a critical section of a connection waits.
connMuFree == loop # "split"

\* A connection goroutine returns: wg.Done().  The last one releases every
\* waiter blocked in wg.Wait().
WgDone(c) ==
  /\ pc' = [pc EXCEPT ![c] = "gone"]
  /\ extra' = IF Running = {c}
              THEN [a \in Attempts |-> IF extra[a] = "blocked" THEN "released" ELSE extra[a]]
              ELSE extra

Signal == expCh' = TRUE

\* Mutant of onConnectSuccess: off by one in the test for the end of the batch.
successOffByOne ==
  /\ ready' = ready + 1
  /\ IF ready + 1 > pending THEN Signal ELSE UNCHANGED expCh
  /\ UNCHANGED <<launched, pending, batch>>

onConnectSuccess ==
  /\ ready' = ready + 1
  /\ IF ready + 1 >= pending THEN Signal ELSE UNCHANGED expCh
  /\ UNCHANGED <<launched, pending, batch>>

\* Mutant of onConnectFailed: without the test of batchPending.
failedUnguarded ==
  /\ pending' = pending - 1
  /\ IF pending' = 0 THEN Signal ELSE UNCHANGED expCh
  /\ UNCHANGED <<launched, ready, batch>>

onConnectFailed ==
  /\ pending' = IF pending > 0 THEN pending - 1 ELSE 0
  /\ IF pending' = 0 THEN Signal ELSE UNCHANGED expCh
  /\ UNCHANGED <<launched, ready, batch>>

getNextBatchSize ==
  IF launched >= MaxConns THEN 0
  ELSE IF batch > MaxConns - launched THEN MaxConns - launched ELSE batch

commitBatch(k) ==
  /\ launched' = launched + k
  /\ batch' = batch * 2
  /\ pending' = k
  /\ ready' = 0

----------------------------------------------------------------------------
(* A connection: runConnection and downloadChunkOnce *)

ConnStart(c) ==
  /\ pc[c] = "start" /\ connMuFree
  /\ cstate' = [cstate EXCEPT ![c] = "connecting"]
  /\ retry' = [retry EXCEPT ![c] = 0]
  /\ pc' = [pc EXCEPT ![c] = "request"]
  /\ UNCHANGED <<nconn, begin, end, got, total, failed, lastErr, spos, send, hand, finished,
                 slow, ctl, out, pref, env, faults>>

\* The context was cancelled: at the head of a request, while the response is
\* awaited, or between two reads.
ConnCancelled(c) ==
  /\ pc[c] \in {"request", "await", "read"}
  /\ cancelled
  /\ WgDone(c)
  /\ UNCHANGED <<conns, spos, send, hand, finished, slow, loop, cancelled, panicked, out, pref,
                 env, faults>>

\* Mutant of rangeStart: the start of the chunk.
chunkStart(c) == begin[c]

rangeStart(c) == begin[c] + got[c]

\* The snapshot of the chunk's bounds that becomes the Range header.
Request(c) ==
  /\ pc[c] = "request" /\ connMuFree
  /\ ~cancelled
  /\ IF remain(c) <= 0
     THEN /\ pc' = [pc EXCEPT ![c] = "help"]
          /\ UNCHANGED <<spos, send>>
     ELSE /\ pc' = [pc EXCEPT ![c] = "await"]
          /\ spos' = [spos EXCEPT ![c] = rangeStart(c)]
          /\ send' = [send EXCEPT ![c] = end[c]]
  /\ UNCHANGED <<conns, hand, finished, slow, ctl, out, pref, env, faults>>

RespondOK(c) ==
  /\ pc[c] = "await" /\ connMuFree
  /\ cstate' = [cstate EXCEPT ![c] = "downloading"]
  /\ failed' = [failed EXCEPT ![c] = FALSE]
  /\ onConnectSuccess
  /\ pc' = [pc EXCEPT ![c] = "read"]
  /\ UNCHANGED <<nconn, begin, end, got, total, retry, lastErr, spos, send, hand, finished,
                 ctl, out, pref, env, faults>>

\* 403 from the redirect and from the original URL: the connection gives up.
RespondForbidden(c) ==
  /\ pc[c] = "await" /\ connMuFree
  /\ "forbidden" \in Errors /\ faults < MaxFaults
  /\ faults' = faults + 1
  /\ lastErr' = [lastErr EXCEPT ![c] = "forbidden"]
  /\ cstate' = [cstate EXCEPT ![c] = "failed"]
  /\ failed' = [failed EXCEPT ![c] = TRUE]
  /\ onConnectFailed
  /\ WgDone(c)
  /\ UNCHANGED <<nconn, begin, end, got, total, retry, spos, send, hand, finished,
                 loop, cancelled, panicked, out, pref, env>>

\* Any other status that shouldCountHTTPFailure counts: three strikes.
RespondCounted(c) ==
  /\ pc[c] = "await" /\ connMuFree
  /\ "counted" \in Errors /\ faults < MaxFaults
  /\ faults' = faults + 1
  /\ lastErr' = [lastErr EXCEPT ![c] = "counted"]
  /\ cstate' = [cstate EXCEPT ![c] = "failed"]
  /\ failed' = [failed EXCEPT ![c] = TRUE]
  /\ retry' = [retry EXCEPT ![c] = @ + 1]
  /\ onConnectFailed
  /\ IF retry[c] + 1 >= 3
     THEN WgDone(c)
     ELSE pc' = [pc EXCEPT ![c] = "backoff"] /\ UNCHANGED extra
  /\ UNCHANGED <<nconn, begin, end, got, total, spos, send, hand, finished,
                 loop, cancelled, panicked, out, pref, env>>

\* An exempt status, a network error, a read timeout or a failed write: retried
\* for ever and not counted.
Transient(c) ==
  /\ pc[c] \in {"await", "read", "write"} /\ connMuFree
  /\ "transient" \in Errors /\ faults < MaxFaults
  /\ faults' = faults + 1
  /\ lastErr' = [lastErr EXCEPT ![c] = "transient"]
  /\ cstate' = [cstate EXCEPT ![c] = "failed"]
  /\ hand' = [hand EXCEPT ![c] = 0]
  /\ pc' = [pc EXCEPT ![c] = "backoff"]
  /\ UNCHANGED <<nconn, begin, end, got, total, failed, retry, spos, send, finished,
                 slow, ctl, out, pref, env>>

\* time.Sleep(retryDelay) is over.
BackoffOver(c) ==
  /\ pc[c] = "backoff"
  /\ pc' = [pc EXCEPT ![c] = "request"]
  /\ UNCHANGED <<conns, spos, send, hand, finished, slow, ctl, out, pref, env, faults>>

\* What a read can return when the body still has `left` bytes.
Reads(left) == {k \in 1..Buf : k <= left /\ (k \in Arrivals \/ k = left)}

\* k bytes arrive; under connMu they are cut to what is left of the chunk.
Read(c) ==
  /\ pc[c] = "read" /\ connMuFree
  /\ ~cancelled
  /\ \E k \in Reads(send[c] - spos[c] + 1) :
       IF remain(c) <= 0
       THEN /\ pc' = [pc EXCEPT ![c] = "help"]
            /\ UNCHANGED <<hand, finished>>
       ELSE /\ pc' = [pc EXCEPT ![c] = "write"]
            /\ hand' = [hand EXCEPT ![c] = IF remain(c) < k THEN remain(c) ELSE k]
            /\ finished' = [finished EXCEPT ![c] = remain(c) < k]
  /\ UNCHANGED <<conns, spos, send, slow, ctl, out, pref, env, faults>>

\* io.EOF: everything the request asked for has been read.
Eof(c) ==
  /\ pc[c] = "read"
  /\ spos[c] > send[c]
  /\ pc' = [pc EXCEPT ![c] = "help"]
  /\ UNCHANGED <<conns, spos, send, hand, finished, slow, ctl, out, pref, env, faults>>

\* WriteAt under fileMu.  Byte p of the file is right when byte p of the
\* resource was written there.  A closed file swallows the write.
Write(c) ==
  LET off == begin[c] + got[c]
      rng == off..(off + hand[c] - 1)
  IN
  /\ pc[c] = "write"
  /\ written' = IF ~file THEN written
                ELSE IF off = spos[c] THEN written \union rng ELSE written \ rng
  /\ pc' = [pc EXCEPT ![c] = "account"]
  /\ UNCHANGED <<conns, spos, send, hand, finished, slow, ctl, fstate, file, doneCh, pref,
                 env, faults>>

\* The counters are updated in a critical section of their own.
Account(c) ==
  /\ pc[c] = "account" /\ connMuFree
  /\ got' = [got EXCEPT ![c] = @ + hand[c]]
  /\ total' = [total EXCEPT ![c] = @ + hand[c]]
  /\ spos' = [spos EXCEPT ![c] = @ + hand[c]]
  /\ hand' = [hand EXCEPT ![c] = 0]
  /\ pc' = [pc EXCEPT ![c] = IF finished[c] THEN "help" ELSE "read"]
  /\ UNCHANGED <<nconn, begin, end, cstate, failed, retry, lastErr, send, finished, slow, ctl,
                 out, pref, env, faults>>

\* The connections helpOtherConnection can pick.  Which one is slowest depends
\* on measured speeds, so any of them may be picked, or none when all are fast.
Stealable(c) ==
  {r \in Existing \ {c} : cstate[r] \notin {"completed", "failed"} /\ remain(r) >= StealMin}

\* Mutant of stolenFrom: the whole of what r has left.
stolenWhole(r) == begin[r] + got[r]

\* Where the half of r's chunk begins that is taken over.
stolenFrom(r) == end[r] - (remain(r) \div 2)

Steal(c) ==
  /\ pc[c] = "help" /\ connMuFree
  /\ \E r \in Stealable(c) :
       LET cut == stolenFrom(r) IN
       /\ begin' = [begin EXCEPT ![c] = cut]
       /\ end' = [end EXCEPT ![c] = end[r], ![r] = cut - 1]
       /\ got' = [got EXCEPT ![c] = 0]
  /\ retry' = [retry EXCEPT ![c] = 0]
  /\ pc' = [pc EXCEPT ![c] = "request"]
  /\ UNCHANGED <<nconn, total, cstate, failed, lastErr, spos, send, hand, finished, slow, ctl,
                 out, pref, env, faults>>

Complete(c) ==
  /\ pc[c] = "help" /\ connMuFree
  /\ cstate' = [cstate EXCEPT ![c] = "completed"]
  /\ WgDone(c)
  /\ UNCHANGED <<nconn, begin, end, got, total, failed, retry, lastErr, spos, send, hand,
                 finished, slow, loop, cancelled, panicked, out, pref, env, faults>>

ConnStep(c) ==
  \/ ConnStart(c) \/ ConnCancelled(c) \/ Request(c) \/ RespondOK(c) \/ BackoffOver(c)
  \/ Read(c) \/ Eof(c) \/ Write(c) \/ Account(c) \/ Steal(c) \/ Complete(c)

ConnFault(c) == RespondForbidden(c) \/ RespondCounted(c) \/ Transient(c)

----------------------------------------------------------------------------
(* Completion *)

\* Mutant of allChunksComplete: every failed connection is taken for one the
\* others make up for, not only a 403.
failuresIgnored ==
  \A c \in Existing :
    (remain(c) > 0 /\ cstate[c] # "completed") => (cstate[c] = "failed" /\ failed[c])

\* onDownloadComplete decides between success and the error of a connection.
allChunksComplete ==
  \A c \in Existing :
    (remain(c) > 0 /\ cstate[c] # "completed")
      => (cstate[c] = "failed" /\ failed[c] /\ lastErr[c] = "forbidden")

hasFinalErr ==
  /\ Downloaded < Size
  /\ ~allChunksComplete
  /\ \E c \in Existing : cstate[c] = "failed" /\ failed[c] /\ lastErr[c] # "forbidden"

\* The result for the attempt a: the file is closed, the state set, and the
\* result dropped when doneCh is full.
onDownloadComplete(a) ==
  /\ file' = FALSE
  /\ fstate' = IF hasFinalErr THEN "error" ELSE "done"
  /\ doneCh' = IF doneCh = <<>> THEN <<[from |-> a, err |-> hasFinalErr]>> ELSE doneCh
  /\ UNCHANGED written

checkCompletion ==
  \/ Downloaded >= Size
  \/ \A c \in Existing : cstate[c] \in {"completed", "failed"}

----------------------------------------------------------------------------
(* downloadLoop *)

rest == <<spos, send, hand, finished, cancelled, panicked, pref, env, faults>>

\* resumeConnections: every connection that is neither complete nor beyond
\* retrying starts again.
Resumable(c) ==
  /\ cstate[c] # "completed"
  /\ ~ (cstate[c] = "failed" /\ failed[c] /\ (lastErr[c] = "forbidden" \/ retry[c] >= 3))

resumeConnections ==
  LET R == {c \in Existing : Resumable(c)} IN
  /\ cstate' = [c \in Conns |-> IF c \in R THEN "notStarted" ELSE cstate[c]]
  /\ failed' = [c \in Conns |-> IF c \in R THEN FALSE ELSE failed[c]]
  /\ pc' = [c \in Conns |-> IF c \in R THEN "start" ELSE pc[c]]
  /\ UNCHANGED <<nconn, begin, end, got, total, retry, lastErr>>

LoopBegin ==
  /\ loop = "begin"
  /\ IF nconn > 0
     THEN resumeConnections /\ loop' = "wait"
     ELSE loop' = "expand" /\ UNCHANGED <<conns, pc>>
  /\ UNCHANGED <<extra, out, slow, rest>>

\* A token from expansionCh.
LoopExpand ==
  /\ loop = "select" /\ expCh
  /\ expCh' = FALSE
  /\ loop' = IF checkCompletion THEN "wait" ELSE "expand"
  /\ UNCHANGED <<conns, pc, extra, out, launched, pending, ready, batch, rest>>

\* expandConnections: every connection the options allow has been launched.
MaxReached ==
  /\ loop = "expand"
  /\ getNextBatchSize = 0
  /\ fstate' = "steady"
  /\ loop' = "wait"
  /\ UNCHANGED <<conns, pc, extra, file, written, doneCh, slow, rest>>

\* The prefetch read the whole resource: doneCh <- nil blocks when full, and
\* the loop goes back to a select that nothing but a cancellation leaves.
AllPrefetched ==
  /\ loop = "expand"
  /\ getNextBatchSize > 0 /\ nconn = 0 /\ dataPos >= Size
  /\ doneCh = <<>>
  /\ doneCh' = <<[from |-> attempt, err |-> FALSE]>>
  /\ file' = FALSE
  /\ fstate' = "done"
  /\ loop' = "select"
  /\ UNCHANGED <<conns, pc, extra, written, slow, rest>>

\* The first connection takes everything the prefetch left.
FirstConn ==
  /\ loop = "expand"
  /\ getNextBatchSize > 0 /\ nconn = 0 /\ dataPos < Size
  /\ nconn' = 1
  /\ begin' = [begin EXCEPT ![0] = dataPos]
  /\ end' = [end EXCEPT ![0] = Size - 1]
  /\ total' = [total EXCEPT ![0] = dataPos]
  /\ pc' = [pc EXCEPT ![0] = "start"]
  /\ commitBatch(1)
  /\ loop' = "select"
  /\ UNCHANGED <<got, cstate, failed, retry, lastErr, expCh, extra, out, rest>>

\* The connections worth splitting, and the one with most left.
Splittable == {c \in Existing : cstate[c] \notin {"completed", "failed"} /\ remain(c) > 2 * StealMin}

maxRemainConn(m) ==
  \A d \in Splittable : remain(d) < remain(m) \/ (remain(d) = remain(m) /\ m <= d)

\* Mutant of secondHalf: both chunks hold the byte at the split point.
sharedByte(splitPoint) == splitPoint

secondHalf(splitPoint) == splitPoint + 1

\* A further connection takes the second half of maxRemainConn's chunk.
SplitOne ==
  /\ loop \in {"expand", "split"}
  /\ nconn > 0
  /\ nconn - launched < getNextBatchSize
  /\ \E m \in Splittable :
       /\ maxRemainConn(m)
       /\ LET splitPoint == end[m] - (remain(m) \div 2) IN
          /\ begin' = [begin EXCEPT ![nconn] = secondHalf(splitPoint)]
          /\ end' = [end EXCEPT ![nconn] = end[m], ![m] = splitPoint]
  /\ nconn' = nconn + 1
  /\ loop' = "split"
  /\ UNCHANGED <<got, total, cstate, failed, retry, lastErr, pc, extra, out, slow, rest>>

\* The batch is full or there is nothing left to split.  With no new connection
\* the state is steady and a second waiter is spawned (go f.waitForCompletion()).
SplitEnds ==
  /\ loop \in {"expand", "split"}
  /\ nconn > 0
  /\ getNextBatchSize > 0
  /\ nconn - launched = getNextBatchSize \/ Splittable = {}
  /\ IF nconn = launched
     THEN /\ fstate' = "steady"
          /\ loop' = "wait"
          /\ extra' = [extra EXCEPT ![attempt] = "spawned"]
     ELSE loop' = "commit" /\ UNCHANGED <<fstate, extra>>
  /\ UNCHANGED <<conns, pc, file, written, doneCh, slow, rest>>

LaunchBatch ==
  /\ loop = "commit"
  /\ commitBatch(nconn - launched)
  /\ pc' = [c \in Conns |-> IF c \in launched..(nconn - 1) THEN "start" ELSE pc[c]]
  /\ loop' = "select"
  /\ UNCHANGED <<conns, expCh, extra, out, rest>>

LoopCancelled ==
  /\ loop = "select" /\ cancelled
  /\ loop' = "gone"
  /\ UNCHANGED <<conns, pc, slow, extra, out, rest>>

\* waitForCompletion in the loop: wg.Wait() returned, and the completion is
\* skipped when the context was cancelled.
LoopWaited ==
  /\ loop = "wait" /\ Running = {}
  /\ loop' = "closing"
  /\ IF cancelled THEN UNCHANGED out ELSE onDownloadComplete(attempt)
  /\ UNCHANGED <<conns, pc, slow, extra, rest>>

\* The deferred close of downloadLoopDone: the watcher may have the result by now.
LoopCloses ==
  /\ loop = "closing"
  /\ loop' = "gone"
  /\ UNCHANGED <<conns, pc, slow, extra, out, rest>>

\* waitForCompletion in the goroutine SplitEnds spawned: wg.Wait() returns at
\* once, or blocks until the last connection is gone.
ExtraWaits(a) ==
  /\ extra[a] = "spawned"
  /\ extra' = [extra EXCEPT ![a] = IF Running = {} THEN "waited" ELSE "blocked"]
  /\ UNCHANGED <<conns, pc, slow, loop, out, rest>>

\* A waiter that wakes up to find the WaitGroup in use again panics ("WaitGroup
\* is reused before previous Wait has returned").
ExtraWakes(a) ==
  /\ extra[a] = "released"
  /\ IF Running = {}
     THEN extra' = [extra EXCEPT ![a] = "waited"] /\ UNCHANGED panicked
     ELSE panicked' = TRUE /\ UNCHANGED extra
  /\ UNCHANGED <<conns, locals, slow, loop, cancelled, out, pref, env, faults>>

\* f.ctx is read after the wait: it may be the context of a later attempt.
ExtraChecks(a) ==
  /\ extra[a] = "waited"
  /\ extra' = [extra EXCEPT ![a] = IF cancelled THEN "gone" ELSE "passed"]
  /\ UNCHANGED <<conns, pc, slow, loop, out, rest>>

ExtraCompletes(a) ==
  /\ extra[a] = "passed"
  /\ extra' = [extra EXCEPT ![a] = "gone"]
  /\ onDownloadComplete(a)
  /\ UNCHANGED <<conns, pc, slow, loop, rest>>

LoopStep ==
  \/ LoopBegin \/ LoopExpand \/ MaxReached \/ AllPrefetched \/ FirstConn \/ SplitOne
  \/ SplitEnds \/ LaunchBatch \/ LoopCancelled \/ LoopWaited \/ LoopCloses
ExtraStep(a) == ExtraWaits(a) \/ ExtraWakes(a) \/ ExtraChecks(a) \/ ExtraCompletes(a)

----------------------------------------------------------------------------
(* asyncPrefetch *)

PrefetchRead ==
  /\ ~pfDone /\ pfFile
  /\ \E k \in Reads(PrefetchMax - pfSize) : pfSize' = pfSize + k
  /\ UNCHANGED <<conns, locals, slow, ctl, out, pfFile, pfStop, pfDone, dataPos, env, faults>>

\* Stopped, at the end of the body, or failed.  (Once its file is closed and removed
\* the next write fails.)
PrefetchEnd ==
  /\ ~pfDone
  /\ pfStop \/ pfSize = PrefetchMax \/ "transient" \in Errors
  /\ pfDone' = TRUE
  /\ UNCHANGED <<conns, locals, slow, ctl, out, pfSize, pfFile, pfStop, dataPos, env, faults>>

----------------------------------------------------------------------------
(* Start, Pause and the watcher *)

\* The downloader starts (or restarts) the task: restoreTask has already
\* spawned the watcher when Start is called.  A task whose error the watcher has
\* yet to take is still running for the downloader, which does not start it.  (A
\* retry that comes before the loop has closed its channel is in HttpSingle.)
StartCalled ==
  /\ op = "idle" /\ attempt < MaxStarts
  /\ loop = "gone"
  /\ fstate \in {"resolved", "paused", "error"}
  /\ watching /\ fstate = "error" => doneCh = <<>>
  /\ WaitersDrain => \A a \in Attempts : extra[a] = "gone"
  /\ op' = "starting"
  /\ attempt' = attempt + 1
  /\ watching' = TRUE
  /\ UNCHANGED <<conns, locals, slow, ctl, out, pref, stale, faults, pauses>>

\* A retry after an error drains doneCh and resets the connections.
ResetForRetry ==
  IF fstate = "error"
  THEN LET R == {c \in Existing : cstate[c] # "completed"} IN
       /\ doneCh' = <<>>
       /\ cstate' = [c \in Conns |-> IF c \in R THEN "notStarted" ELSE cstate[c]]
       /\ failed' = [c \in Conns |-> IF c \in R THEN FALSE ELSE failed[c]]
       /\ retry' = [c \in Conns |-> IF c \in R THEN 0 ELSE retry[c]]
       /\ lastErr' = [c \in Conns |-> IF c \in R THEN "none" ELSE lastErr[c]]
  ELSE UNCHANGED <<doneCh, cstate, failed, retry, lastErr>>

\* doStart up to the prefetch: open the file, ask the prefetch to stop.
StartOpens ==
  /\ op = "starting"
  /\ ResetForRetry
  /\ file' = TRUE
  /\ pfStop' = TRUE
  /\ op' = "copying"
  /\ UNCHANGED <<nconn, begin, end, got, total, locals, slow, ctl, fstate, written,
                 pfSize, pfFile, pfDone, dataPos, attempt, watching, stale, faults, pauses>>

\* Stat, Touch or OpenFile fails: Start returns an error, in the state it found,
\* with the watcher waiting.
StartFails ==
  /\ op = "starting"
  /\ "open" \in Errors /\ faults < MaxFaults
  /\ faults' = faults + 1
  /\ ResetForRetry
  /\ op' = "idle"
  /\ UNCHANGED <<nconn, begin, end, got, total, locals, slow, ctl, fstate, file, written, pref,
                 attempt, watching, stale, pauses>>

\* Mutant of prefetched: a prefetch that has not ended is not copied.
prefetchedIfDone == IF pfFile /\ file /\ pfDone THEN 0..(pfSize - 1) ELSE {}

\* The bytes that the temporary file of the prefetch adds to the file.
prefetched == IF pfFile /\ file THEN 0..(pfSize - 1) ELSE {}

\* The rest of doStart.  The wait for the prefetch gives up after ten seconds,
\* so it may be still reading; its temporary file is copied and removed.
StartRuns ==
  /\ op = "copying"
  /\ dataPos' = pfSize
  /\ written' = written \union prefetched
  /\ pfFile' = FALSE
  /\ launched' = 0 /\ pending' = 0 /\ ready' = 0 /\ batch' = 1 /\ expCh' = FALSE
  /\ cancelled' = FALSE
  /\ fstate' = "slowStart"
  /\ loop' = "begin"
  /\ op' = "idle"
  /\ UNCHANGED <<conns, locals, extra, panicked, file, doneCh, pfSize, pfStop, pfDone,
                 attempt, watching, stale, faults, pauses>>

PauseCalled ==
  /\ op = "idle" /\ pauses < MaxPauses
  /\ fstate = "resolved" \/ (watching /\ fstate # "paused")
  /\ pauses' = pauses + 1
  /\ cancelled' = TRUE
  /\ pfStop' = TRUE
  /\ op' = "pausing"
  /\ UNCHANGED <<conns, locals, slow, loop, extra, panicked, out, pfSize, pfFile, pfDone,
                 dataPos, attempt, watching, stale, faults>>

\* Mutant of connsGone: the connections are not waited for.
connsForgotten == TRUE

connsGone == Running = {}

\* downloadLoopDone, wg and the prefetch have been waited for.
PauseEnds ==
  /\ op = "pausing"
  /\ loop = "gone" /\ connsGone /\ pfDone
  /\ pfFile' = FALSE
  /\ file' = FALSE
  /\ fstate' = "paused"
  /\ op' = "idle"
  /\ UNCHANGED <<conns, locals, slow, ctl, written, doneCh, pfSize, pfStop, pfDone, dataPos,
                 attempt, watching, stale, faults, pauses>>

\* Wait returns a result.  `stale` records that an error of an earlier attempt
\* was taken for one of the current attempt.
WatchResult ==
  /\ watching /\ doneCh # <<>>
  /\ watching' = FALSE
  /\ doneCh' = <<>>
  /\ stale' = (stale \/ (Head(doneCh).err /\ Head(doneCh).from # attempt))
  /\ UNCHANGED <<conns, locals, slow, ctl, fstate, file, written, pref, op, attempt, faults,
                 pauses>>

OpStep == StartOpens \/ StartRuns \/ PauseEnds

----------------------------------------------------------------------------

Init ==
  /\ nconn = 0
  /\ begin = [c \in Conns |-> 0] /\ end = [c \in Conns |-> -1]
  /\ got = [c \in Conns |-> 0] /\ total = [c \in Conns |-> 0]
  /\ cstate = [c \in Conns |-> "notStarted"]
  /\ failed = [c \in Conns |-> FALSE] /\ retry = [c \in Conns |-> 0]
  /\ lastErr = [c \in Conns |-> "none"]
  /\ pc = [c \in Conns |-> "gone"]
  /\ spos = [c \in Conns |-> 0] /\ send = [c \in Conns |-> -1]
  /\ hand = [c \in Conns |-> 0] /\ finished = [c \in Conns |-> FALSE]
  /\ launched = 0 /\ pending = 0 /\ ready = 0 /\ batch = 1 /\ expCh = FALSE
  /\ loop = "gone" /\ extra = [a \in Attempts |-> "gone"]
  /\ cancelled = FALSE /\ panicked = FALSE
  /\ fstate = "resolved" /\ file = FALSE /\ written = {} /\ doneCh = <<>>
  /\ pfSize = 0 /\ pfFile = TRUE /\ pfStop = FALSE /\ pfDone = (PrefetchMax = 0) /\ dataPos = 0
  /\ op = "idle" /\ attempt = 0 /\ watching = FALSE /\ stale = FALSE
  /\ faults = 0 /\ pauses = 0

Next ==
  /\ ~panicked
  /\ \/ \E c \in Conns : ConnStep(c) \/ ConnFault(c)
     \/ LoopStep
     \/ \E a \in Attempts : ExtraStep(a)
     \/ PrefetchRead \/ PrefetchEnd
     \/ StartCalled \/ StartFails \/ PauseCalled \/ OpStep
     \/ WatchResult

Spec == Init /\ [][Next]_vars

\* What the goroutines do by themselves: the server answers, a read ends or times out
\* (connectTimeout, readTimeout).
Progress ==
  \/ \E c \in Conns : ConnStep(c)
  \/ LoopStep
  \/ \E a \in Attempts : ExtraStep(a)
  \/ PrefetchRead \/ PrefetchEnd \/ OpStep \/ WatchResult

----------------------------------------------------------------------------
(* Properties *)

TypeConns ==
  /\ nconn \in 0..MaxConns
  /\ begin \in [Conns -> Nat] /\ end \in [Conns -> Int]
  /\ got \in [Conns -> Nat] /\ total \in [Conns -> Nat]
  /\ cstate \in [Conns -> {"notStarted", "connecting", "downloading", "completed", "failed"}]
  /\ retry \in [Conns -> Nat]
  /\ lastErr \in [Conns -> ErrorKinds \union {"none"}]

TypeLocals ==
  /\ pc \in [Conns -> {"gone", "start", "request", "await", "read", "write", "account", "help",
                       "backoff"}]
  /\ spos \in [Conns -> Nat] /\ send \in [Conns -> Int]
  /\ hand \in [Conns -> 0..Buf]

TypeLoop ==
  /\ launched \in Nat /\ pending \in Nat /\ ready \in Nat /\ batch \in Nat \ {0}
  /\ loop \in {"gone", "begin", "select", "expand", "split", "commit", "wait", "closing"}
  /\ extra \in [Attempts -> {"gone", "spawned", "blocked", "released", "waited", "passed"}]

TypeOut ==
  /\ fstate \in {"resolved", "slowStart", "steady", "paused", "done", "error"}
  /\ written \subseteq Bytes
  /\ pfSize \in 0..PrefetchMax /\ dataPos \in 0..PrefetchMax

TypeEnv ==
  /\ op \in {"idle", "starting", "copying", "pausing"}
  /\ attempt \in 0..MaxStarts
  /\ faults \in 0..MaxFaults /\ pauses \in 0..MaxPauses

TypeFlags ==
  /\ failed \in [Conns -> BOOLEAN] /\ finished \in [Conns -> BOOLEAN]
  /\ expCh \in BOOLEAN /\ cancelled \in BOOLEAN /\ panicked \in BOOLEAN
  /\ file \in BOOLEAN /\ pfFile \in BOOLEAN /\ pfStop \in BOOLEAN /\ pfDone \in BOOLEAN
  /\ watching \in BOOLEAN /\ stale \in BOOLEAN
  /\ doneCh = <<>> \/ \E a \in 0..MaxStarts, e \in BOOLEAN : doneCh = <<[from |-> a, err |-> e]>>

\* Every variable has its type.
TypeOK == TypeConns /\ TypeLocals /\ TypeLoop /\ TypeOut /\ TypeEnv /\ TypeFlags

\* What the connection c still has to fetch.
Unfetched(c) == (begin[c] + got[c])..end[c]

\* No byte of the resource is assigned to two connections at once, whatever the
\* order of splits (expandConnections), steals (helpOtherConnection), reads and
\* restarts: connections of a download never fetch or write the same range.
ChunksDisjoint ==
  \A c, d \in Existing : c # d => Unfetched(c) \intersect Unfetched(d) = {}

\* The bytes a connection has read but not yet accounted for stay inside its
\* chunk, although other connections cut chunks down between the critical
\* section that reads the bounds and the one that updates the counters.
InFlightFits == \A c \in Existing : hand[c] <= remain(c)

\* From the first connection on, every byte is in the file or still assigned to
\* a connection: nothing falls between two chunks, or is counted unwritten.
NoByteLost ==
  nconn > 0 => \A p \in Bytes : p \in written \/ \E c \in Existing : p \in Unfetched(c)

\* What all connections still have to fetch.
Left == SumOver([c \in Conns |-> remain(c)], Existing)

\* The counters that decide completion and are shown as progress add up: bytes
\* downloaded and bytes left are the resource's size through every split,
\* steal, retry and restart.
Accounting == nconn > 0 => Downloaded + Left = Size

\* The fetcher is Done only when the file holds the whole resource
\* (onDownloadComplete).
DoneMeansComplete == fstate = "done" => written = Bytes

\* The file is open as long as a connection of the download runs: no write is
\* swallowed by the nil check of downloadChunkOnce.
FileOpenWhileRunning == Running # {} => file

\* Between the return of Pause and the next Start nothing runs and the file
\* does not change, so that it can be moved, deleted or restored.
PauseHolds ==
  [][(fstate = "paused" /\ op = "idle") => (written' = written /\ got' = got /\ Running = {})]_vars

\* The slow start's count of launched connections is the number that exist,
\* except inside a batch, when the new ones are created but not yet launched and
\* are no more than the batch allows: the options' limit is never exceeded.
LaunchedCount ==
  /\ loop = "begin" => launched = 0
  /\ loop \in {"select", "expand"} => launched = nconn
  /\ loop \in {"split", "commit"} =>
       launched < nconn /\ nconn - launched <= getNextBatchSize /\ launched <= MaxConns
  /\ loop \in {"split", "commit"} =>
       \A c \in launched..(nconn - 1) : pc[c] = "gone" /\ hand[c] = 0

\* The one way a run gets stuck: the loop waits for the signal of a batch in which
\* some connections were answered first and the last one was refused with 403.
\* onConnectFailed takes that one off batchPending, which stays above zero, and does
\* not look whether batchReady has reached it; then every connection ends.
RefusedLast ==
  /\ loop = "select" /\ ~expCh /\ Running = {}
  /\ 0 < pending /\ pending <= ready
  /\ \E c \in Existing : cstate[c] = "failed" /\ lastErr[c] = "forbidden"

\* Whoever waits for a run has somebody to wait for: as long as a watcher waits for a
\* result (or Pause for the goroutines) some goroutine can take a step, unless a
\* refusal with 403 was the last answer of a batch with a success (RefusedLast).  But
\* for that the loop, the batches, the retries, the waiters and the connections never
\* wait on each other, and no result is lost on the way to the watcher.
RunGoesOn ==
  /\ watching
  /\ \/ fstate \in {"slowStart", "steady", "done"} \/ op = "pausing"
     \/ fstate = "error" /\ "open" \notin Errors
  => RefusedLast \/ ENABLED Progress

----------------------------------------------------------------------------
(* The inductive invariant behind ChunksDisjoint, InFlightFits, LaunchedCount
   and PauseHolds *)

\* A slot no connection uses yet is blank.
BlankSlots == \A c \in Conns : c >= nconn => pc[c] = "gone" /\ got[c] = 0 /\ hand[c] = 0

\* Bytes are in hand only between the read and the update of the counters.
HandHeld == \A c \in Conns : pc[c] \notin {"write", "account"} => hand[c] = 0

ChunksWithin == \A c \in Existing : end[c] < Size

\* ChunksDisjoint in terms of the bounds.
Apart(c, d) ==
  \/ remain(c) <= 0 \/ remain(d) <= 0
  \/ end[c] < begin[d] + got[d] \/ end[d] < begin[c] + got[c]

ChunksApart == \A c, d \in Existing : c # d => Apart(c, d)

\* Once the loop is gone, and Pause with it, the connections are gone; a loop
\* that begins finds none; a paused fetcher has no loop.
Quiet ==
  /\ loop = "gone" /\ op # "pausing" => \A c \in Conns : pc[c] = "gone"
  /\ loop \in {"begin", "closing"} => \A c \in Conns : pc[c] = "gone"
  /\ cancelled /\ loop # "gone" => op = "pausing"
  /\ op \in {"starting", "copying"} => loop = "gone"
  /\ fstate = "paused" => loop = "gone"

\* The inductive invariant of the proofs: checked on every reachable state of a
\* run in which failures, pauses and left-over waiters all occur.
IInv ==
  /\ TypeOK /\ LaunchedCount /\ BlankSlots /\ HandHeld /\ InFlightFits /\ ChunksWithin
  /\ ChunksApart /\ Quiet

----------------------------------------------------------------------------
(* The inductive invariant behind FileOpenWhileRunning and NoByteLost: added to
   IInv, under WaitersDrain *)

\* The file is open from StartOpens on, for every state of the loop that launches
\* connections.
FileHeld ==
  /\ \A c \in Conns : pc[c] # "gone" => file
  /\ op = "copying" => file
  /\ loop \in {"begin", "expand", "split", "commit"} => file
  /\ loop = "select" /\ nconn > 0 => file
  /\ nconn = 0 => ~expCh

\* A second waiter exists only beside a loop that launches nothing more, and is
\* released only when the last connection is gone.
WaitersIdle ==
  \A a \in Attempts :
    /\ extra[a] # "gone" => loop \in {"wait", "closing", "gone"} /\ op \notin {"starting", "copying"}
    /\ extra[a] \in {"released", "waited", "passed"} => \A c \in Conns : pc[c] = "gone"

\* A connection is where its response is, and asked for at least its chunk.
InPlace(c) ==
  pc[c] \in {"await", "read", "write", "account"} => spos[c] = rangeStart(c) /\ end[c] <= send[c]

\* What is about to be accounted for is in the file.
HandWritten(c) ==
  pc[c] = "account" => rangeStart(c)..(rangeStart(c) + hand[c] - 1) \subseteq written

\* A connection leaves its chunk only when nothing of it is left to fetch.
ChunkSpent(c) ==
  (pc[c] = "help" \/ (pc[c] \in {"write", "account"} /\ finished[c])) => remain(c) <= hand[c]

\* Before the first connection, what dataPos counts is in the file, or in the
\* prefetch's temporary file, which only Pause removes uncopied.
PrefetchHeld ==
  /\ MaxPauses = 0 => ~cancelled /\ op # "pausing"
  /\ nconn = 0 =>
       /\ loop \notin {"wait", "closing", "split", "commit"}
       /\ loop # "gone" => 0..(dataPos - 1) \subseteq written
       /\ MaxPauses = 0 /\ loop = "gone" => pfFile

ConnsSafe == \A c \in Conns : InPlace(c) /\ HandWritten(c) /\ ChunkSpent(c)

BytesInv == FileHeld /\ WaitersIdle /\ ConnsSafe /\ PrefetchHeld /\ NoByteLost

----------------------------------------------------------------------------
(* The inductive invariants behind Accounting, added to IInv, and behind      *)
(* DoneMeansComplete, added to all of them when the server never answers 403  *)

\* A connection counts for itself from the first byte after its chunk was cut out.
CountInv ==
  /\ \A c \in Conns : InPlace(c) /\ ChunkSpent(c)
  /\ \A c \in Conns : c >= nconn => total[c] = 0
  /\ Accounting

\* The connection is through with its chunk, or with its retries.
Ended(c) ==
  \/ cstate[c] = "completed"
  \/ cstate[c] = "failed" /\ failed[c] /\ lastErr[c] # "forbidden"

\* The loop or a second waiter is going to look at the connections.
Awaited == loop # "gone" \/ \E a \in Attempts : extra[a] # "gone"

\* The connections that are gone have ended, unless they were cancelled, are about to
\* be resumed, or have not been launched yet: as long as somebody is going to look.
GoneEnded ==
  \A c \in Existing :
    /\ pc[c] = "gone" /\ ~cancelled /\ loop # "begin"
    /\ Awaited
    /\ loop \in {"split", "commit"} => c < launched
    => Ended(c)

\* A completed connection has left nothing, runs no more, and was launched.
CompletedSpent ==
  \A c \in Conns : cstate[c] = "completed" =>
    /\ pc[c] = "gone" /\ c < nconn /\ remain(c) <= 0
    /\ loop \in {"split", "commit"} => c < launched

\* A second waiter that is past its last look at the context sees the end of them all.
WaitersEnded ==
  \A a \in Attempts :
    /\ extra[a] # "gone" => nconn > 0
    /\ extra[a] = "passed" => \A c \in Existing : Ended(c)

EndInv ==
  /\ \A c \in Conns : lastErr[c] # "forbidden"
  /\ GoneEnded /\ CompletedSpent /\ WaitersEnded /\ DoneMeansComplete

----------------------------------------------------------------------------
(* Properties the code does not have *)

\* A batch whose connections have all been answered or refused has signalled the
\* loop: "If all pending resolved (success or fail), trigger expansion.  This handles
\* both successful completion and all-failures case" (fetcher.go:163).
BatchSignals == ~RefusedLast

\* The WaitGroup is not used for a new attempt while a waiter of the previous
\* one is being released.
NoWaitGroupReuse == ~panicked

\* The watcher of an attempt never takes the error of an earlier attempt.
NoStaleError == ~stale

=============================================================================
