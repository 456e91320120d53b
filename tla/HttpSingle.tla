------------------------------ MODULE HttpSingle ------------------------------
(***************************************************************************)
(* The HTTP fetcher (internal/protocol/http) for a resource without ranges *)
(* or of unknown size: Resolve, whose answer stays open to be downloaded   *)
(* from, the one connection that takes it over, the requests that replace  *)
(* it after a restart or a pause, redirects that expire, completion.       *)
(* HttpDownload has the case with ranges and a size.  The goroutines are   *)
(* the connection, the download loop (and the one of the attempt before),  *)
(* the waiter expandConnections may leave, and the caller.                 *)
(***************************************************************************)
EXTENDS Integers, FiniteSets

CONSTANTS
  Total,        \* bytes the server has
  Faults,     \* the kinds of failure of this instance
  Retries,    \* failures that count until a connection gives up (3)
  RetryWaits,  \* a retry after an error finds the download loop gone
  SpareDrains, \* Start finds no waiter left over from the attempt before
  MaxFaults, MaxStarts, MaxPauses  \* bounds

FaultKinds == {"resolve", "break", "write", "forbidden", "counted", "transient", "expire"}
Loops == {"current", "former"}
Bytes == 0..(Total - 1)

VARIABLES
  range, sized, restored,    \* meta.Res.Range, Size > 0; the fetcher comes from a restart
  known, body, pendingStart, \* meta.Res # nil, f.resolveResp open, f.startPending
  redir,                     \* f.redirectURL: the URL itself, another one, an expired one
  sstate, exists,            \* f.state; f.connections has its one connection
  cst, cfailed, cerr, cretry, got, \* State, failed, lastErr, retryTimes, Downloaded
  cpc, mode, spos, counted,  \* the connection's goroutine: where, which body, next byte, retries
  right, over,               \* bytes of the file that are right; bytes past the end
  sfile, sdone,              \* f.file is open; f.doneCh
  loop, exp, cancelled, loopDone, spare, \* download loops, expansionCh, f.ctx, extra waiters
  sop, panic,                \* the caller of Start, Pause or Resolve
  broken, requests,          \* history: see WholeUnlessBroken, OneRequest
  faults, sstarts, spauses

resource == <<range, sized, restored, known, body, pendingStart>>
conn     == <<exists, cst, cfailed, cerr, cretry, got>>
local    == <<cpc, mode, spos, counted>>
target   == <<right, over, sfile>>
control  == <<loop, exp, cancelled, loopDone, spare, panic>>
bounds   == <<faults, sstarts, spauses>>
singleVars == <<resource, redir, sstate, conn, local, target, sdone, control, sop, broken,
                requests, bounds>>

Fault(k) == k \in Faults /\ faults < MaxFaults /\ faults' = faults + 1
gone == cpc = "gone"
remain == 1 - got     \* newChunk(0, 0): End does not matter without ranges

----------------------------------------------------------------------------
(* Resolve *)

ResolveCalled ==
  /\ sop = "idle" /\ ~known /\ sstate \in {"idle", "error"} /\ ~pendingStart
  /\ sop' = "resolve" /\ sstate' = "resolving"
  /\ UNCHANGED <<resource, redir, conn, local, target, sdone, control, broken, requests, bounds>>

ResolveFails ==
  /\ sop = "resolve" /\ Fault("resolve")
  /\ sop' = "idle" /\ sstate' = "error"
  /\ UNCHANGED <<resource, redir, conn, local, target, sdone, control, broken, requests,
                 sstarts, spauses>>

\* Mutant of keptBody: the answer is closed like that of any other request.
closedBody == FALSE

\* The body stays open, for URLs that can be requested only once.
keptBody == TRUE

ResolveAnswered ==
  /\ sop = "resolve"
  /\ known' = TRUE /\ body' = keptBody /\ sstate' = "resolved"
  /\ redir' \in {"same", "other"}
  /\ sop' = IF pendingStart THEN "start" ELSE "idle"
  /\ UNCHANGED <<range, sized, restored, pendingStart, conn, local, target, sdone, control,
                 broken, requests, bounds>>

\* Start during Resolve only leaves a note.
StartEarly ==
  /\ sop = "resolve" /\ ~pendingStart /\ sstarts < MaxStarts
  /\ pendingStart' = TRUE /\ sstarts' = sstarts + 1
  /\ UNCHANGED <<range, sized, restored, known, body, redir, sstate, conn, local, target, sdone,
                 control, sop, broken, requests, faults, spauses>>

----------------------------------------------------------------------------
(* Start *)

StartCalled ==
  /\ sop = "idle" /\ known /\ sstate \in {"resolved", "paused", "slow", "steady", "error"}
  /\ sstarts < MaxStarts /\ loop["former"] = "off"
  /\ RetryWaits => loop["current"] = "off"
  /\ SpareDrains => spare = 0
  /\ sop' = "start" /\ sstarts' = sstarts + 1
  /\ UNCHANGED <<resource, redir, sstate, conn, local, target, sdone, control, broken, requests,
                 faults, spauses>>

\* doStart: after an error the old result is drained and the connection reset;
\* with ranges the open answer is dropped.
doStart ==
  /\ sop = "start" /\ sop' = "idle"
  /\ LET retry == sstate = "error"
         reset == retry /\ exists /\ cst # "completed" IN
       /\ sdone' = IF retry THEN "none" ELSE sdone
       /\ cst' = IF reset THEN "notStarted" ELSE cst
       /\ cfailed' = (cfailed /\ ~reset)
       /\ cretry' = IF reset THEN 0 ELSE cretry
       /\ cerr' = IF reset THEN "none" ELSE cerr
  /\ sfile' = TRUE
  /\ body' = (body /\ ~range)
  /\ exp' = FALSE /\ cancelled' = FALSE /\ loopDone' = "open"
  /\ sstate' = "slow"
  /\ loop' = [current |-> "begin", former |-> loop["current"]]
  /\ UNCHANGED <<range, sized, restored, known, pendingStart, redir, exists, got, local, right,
                 over, spare, panic, broken, requests, bounds>>

\* Without ranges a request is answered from the first byte, and what follows
\* is written behind what is there: an answer joined to the one before.  The
\* chunk of a resource with ranges but no size ends at its first byte.
Resumable == cst # "completed" /\ ~(cst = "failed" /\ cfailed /\ (cerr = "forbidden" \/ cretry >= Retries))

LoopBegins ==
  /\ loop["current"] = "begin"
  /\ IF ~exists
     THEN /\ exists' = TRUE /\ cst' = "notStarted" /\ got' = 0
          /\ cpc' = "take" /\ loop' = [loop EXCEPT !["current"] = "first"]
          /\ UNCHANGED <<cfailed, cretry, mode, broken>>
     ELSE /\ loop' = [loop EXCEPT !["current"] = "wait"]
          /\ broken' = (broken \/ (Resumable /\ got > 0))
          /\ IF Resumable
             THEN /\ cst' = "notStarted" /\ cfailed' = FALSE /\ cretry' = 0
                  /\ cpc' = "request" /\ mode' = "resume"
             ELSE UNCHANGED <<cst, cfailed, cretry, cpc, mode>>
          /\ UNCHANGED <<exists, got>>
  /\ UNCHANGED <<resource, redir, sstate, cerr, spos, counted, target, sdone, exp,
                 cancelled, loopDone, spare, panic, sop, requests, bounds>>

----------------------------------------------------------------------------
(* The connection *)

Ends(state, flag) == cst' = state /\ cfailed' = flag /\ cpc' = "gone"
Downloads == cst' = "downloading" /\ cfailed' = FALSE /\ cpc' = "read" /\ spos' = 0 /\ exp' = TRUE

\* runConnectionWithResolveResp takes the answer of Resolve, or falls back.
TakesBody ==
  /\ cpc = "take"
  /\ body' = FALSE
  /\ IF body THEN Downloads /\ mode' = "body"
     ELSE cpc' = "request" /\ mode' = "fallback" /\ UNCHANGED <<cst, cfailed, spos, exp>>
  /\ counted' = 0
  /\ UNCHANGED <<range, sized, restored, known, pendingStart, redir, sstate, exists, cerr, cretry,
                 got, target, sdone, loop, cancelled, loopDone, spare, panic, sop, broken,
                 requests, bounds>>

ConnCancelled ==
  /\ cpc \in {"request", "read", "backoff"} /\ cancelled
  /\ cpc' = "gone"
  /\ UNCHANGED <<resource, redir, sstate, conn, mode, spos, counted, target, sdone, control, sop,
                 broken, requests, bounds>>

\* One read, the write at the offset Downloaded, and the count.
Reads ==
  /\ cpc = "read" /\ ~cancelled /\ spos < Total
  /\ mode = "resume" /\ range => remain > 0
  /\ right' = IF ~sfile THEN right ELSE IF got = spos THEN right \union {got} ELSE right \ {got}
  /\ over' = (over \/ (sfile /\ got >= Total))
  /\ got' = got + 1 /\ spos' = spos + 1
  /\ UNCHANGED <<resource, redir, sstate, exists, cst, cfailed, cerr, cretry, cpc, mode, counted,
                 sfile, sdone, control, sop, broken, requests, bounds>>

\* io.EOF, or the end of the chunk of a resource with ranges.
Eof ==
  /\ cpc = "read" \/ (cpc = "request" /\ mode = "resume" /\ range /\ remain <= 0)
  /\ cpc = "read" => (spos = Total \/ (mode = "resume" /\ range /\ remain <= 0))
  /\ Ends("completed", cfailed)
  /\ UNCHANGED <<resource, redir, sstate, exists, cerr, cretry, got, mode, spos, counted, target,
                 sdone, control, sop, broken, requests, bounds>>

\* The body of Resolve breaks off: not counted, and not tried again.
BodyBreaks ==
  /\ cpc = "read" /\ mode = "body" /\ Fault("break")
  /\ Ends("failed", FALSE)
  /\ broken' = TRUE
  /\ UNCHANGED <<resource, redir, sstate, exists, cerr, cretry, got, mode, spos, counted, target,
                 sdone, control, sop, requests, sstarts, spauses>>

BodyWriteFails ==
  /\ cpc = "read" /\ mode = "body" /\ spos < Total /\ Fault("write")
  /\ Ends("failed", TRUE)
  /\ exp' = TRUE
  /\ broken' = (broken \/ got > 0)
  /\ UNCHANGED <<resource, redir, sstate, exists, cerr, cretry, got, mode, spos, counted, target,
                 sdone, loop, cancelled, loopDone, spare, panic, sop, requests, sstarts, spauses>>

\* A request is answered.  An expired redirect is replaced by the original URL
\* on a resumed connection, not in the fallback.
Answered ==
  /\ cpc = "request" /\ ~cancelled
  /\ mode = "resume" /\ range => remain > 0
  /\ redir # "expired" \/ mode = "resume"
  /\ redir' = IF redir = "expired" THEN "other" ELSE redir
  /\ Downloads
  /\ requests' = requests + 1
  /\ UNCHANGED <<resource, sstate, exists, cerr, cretry, got, mode, counted, target, sdone, loop,
                 cancelled, loopDone, spare, panic, sop, broken, bounds>>

Refusal(k) ==
  /\ cpc = "request" /\ ~cancelled
  /\ mode = "resume" /\ range => remain > 0
  /\ IF mode = "fallback" /\ redir = "expired" THEN UNCHANGED faults ELSE Fault(k)

Forbidden ==
  /\ Refusal("forbidden")
  /\ cerr' = "forbidden" /\ exp' = TRUE
  /\ Ends("failed", TRUE)
  /\ broken' = TRUE
  /\ UNCHANGED <<resource, redir, sstate, exists, cretry, got, mode, spos, counted, target, sdone,
                 loop, cancelled, loopDone, spare, panic, sop, requests, sstarts, spauses>>

\* Mutant of strikes: one more try than there are.
strikesLate == (IF mode = "fallback" THEN counted ELSE cretry) >= Retries

\* The last failure that counts ends the connection.
strikes == (IF mode = "fallback" THEN counted ELSE cretry) + 1 >= Retries

CountedFailure ==
  /\ Refusal("counted")
  /\ cerr' = "counted" /\ cretry' = cretry + 1 /\ counted' = counted + 1
  /\ cst' = "failed"
  /\ cfailed' = (cfailed \/ mode = "resume" \/ strikes)
  /\ exp' = (exp \/ mode = "resume" \/ strikes)
  /\ cpc' = IF strikes THEN "gone" ELSE "backoff"
  /\ UNCHANGED <<resource, redir, sstate, exists, got, mode, spos, target, sdone, loop, cancelled,
                 loopDone, spare, panic, sop, broken, requests, sstarts, spauses>>

\* A failure that does not count, before the answer or in the middle of it: the
\* next request starts at the first byte again.
TransientFailure ==
  /\ \/ cpc = "request" /\ (mode = "resume" /\ range => remain > 0)
     \/ cpc = "read" /\ mode # "body"
  /\ ~cancelled /\ Fault("transient")
  /\ cerr' = "transient" /\ cst' = "failed" /\ cpc' = "backoff"
  /\ broken' = (broken \/ got > 0)
  /\ UNCHANGED <<resource, redir, sstate, exists, cfailed, cretry, got, mode, spos, counted, target,
                 sdone, control, sop, requests, sstarts, spauses>>

BackoffOver ==
  /\ cpc = "backoff"
  /\ cpc' = "request"
  /\ UNCHANGED <<resource, redir, sstate, conn, mode, spos, counted, target, sdone, control, sop,
                 broken, requests, bounds>>

----------------------------------------------------------------------------
(* Completion *)

\* Mutant of exempt: any failure is taken for the server's limit.
exemptAll == cst = "failed" /\ cfailed

\* A refusal with 403 does not stand in the way of completion.
exempt == cst = "failed" /\ cfailed /\ cerr = "forbidden"

allChunksComplete == exists /\ remain > 0 /\ cst # "completed" => exempt
finalErr == /\ ~(sized /\ got >= Total) /\ ~allChunksComplete
            /\ cst = "failed" /\ cfailed /\ cerr # "forbidden"

onDownloadComplete ==
  IF cancelled THEN UNCHANGED <<sfile, sstate, sdone>>
  ELSE /\ sfile' = FALSE
       /\ sstate' = IF finalErr THEN "error" ELSE "done"
       /\ sdone' = IF sdone # "none" THEN sdone ELSE IF finalErr THEN "error" ELSE "ok"

checkCompletion ==
  (sized /\ got >= Total) \/ (exists => cst \in {"completed", "failed"})

\* Mutant of LoopExits: the channel Pause waits for is not closed.
exitsSilently(l) ==
  /\ loop' = [loop EXCEPT ![l] = "off"]
  /\ UNCHANGED <<loopDone, panic>>

\* The deferred close is of f.downloadLoopDone as it is at the end.
LoopExits(l) ==
  /\ loop' = [loop EXCEPT ![l] = "off"]
  /\ loopDone' = "closed" /\ panic' = (panic \/ loopDone = "closed")

\* startResolveDownload waits for the connection, then the loop goes on.
LoopCompletes(l) ==
  /\ loop[l] = "first" /\ gone
  /\ onDownloadComplete
  /\ loop' = [loop EXCEPT ![l] = "select"]
  /\ UNCHANGED <<resource, redir, conn, local, right, over, exp, cancelled, loopDone, spare, panic,
                 sop, broken, requests, bounds>>

LoopStops(l) ==
  /\ loop[l] = "select" /\ cancelled
  /\ LoopExits(l)
  /\ UNCHANGED <<resource, redir, sstate, conn, local, target, sdone, exp, cancelled, spare, sop,
                 broken, requests, bounds>>

\* The signal of the connection: all is done, or expandConnections finds nothing
\* to split and leaves a waiter behind.
LoopExpands(l) ==
  /\ loop[l] = "select" /\ exp
  /\ exp' = FALSE
  /\ loop' = [loop EXCEPT ![l] = "wait"]
  /\ IF checkCompletion THEN UNCHANGED <<sstate, spare>>
     ELSE sstate' = "steady" /\ spare' = spare + 1
  /\ UNCHANGED <<resource, redir, conn, local, target, sdone, cancelled, loopDone, panic, sop,
                 broken, requests, bounds>>

LoopWaited(l) ==
  /\ loop[l] = "wait" /\ gone
  /\ onDownloadComplete
  /\ LoopExits(l)
  /\ UNCHANGED <<resource, redir, conn, local, right, over, exp, cancelled, spare, sop, broken,
                 requests, bounds>>

\* The left-over waiter looks at the context of whatever attempt it finds.
SpareWaited ==
  /\ spare > 0 /\ gone
  /\ spare' = spare - 1
  /\ onDownloadComplete
  /\ UNCHANGED <<resource, redir, conn, local, right, over, loop, exp, cancelled, loopDone, panic,
                 sop, broken, requests, bounds>>

----------------------------------------------------------------------------
(* Pause, Patch, the watcher, the server *)

PauseCalled ==
  /\ sop = "idle" /\ known /\ spauses < MaxPauses
  /\ sop' = "pause" /\ spauses' = spauses + 1
  /\ cancelled' = TRUE
  /\ UNCHANGED <<resource, redir, sstate, conn, local, target, sdone, loop, exp, loopDone, spare,
                 panic, broken, requests, faults, sstarts>>

PauseEnds ==
  /\ sop = "pause" /\ loopDone # "open" /\ gone
  /\ sop' = "idle"
  /\ body' = FALSE /\ sfile' = FALSE /\ sstate' = "paused"
  /\ UNCHANGED <<range, sized, restored, known, pendingStart, redir, conn, local, right, over,
                 sdone, control, broken, requests, bounds>>

\* Patch with a new URL forgets the redirect.
Patch ==
  /\ known /\ redir # "same"
  /\ redir' = "same"
  /\ UNCHANGED <<resource, sstate, conn, local, target, sdone, control, sop, broken, requests, bounds>>

WatchTakes ==
  /\ sdone # "none"
  /\ sdone' = "none"
  /\ UNCHANGED <<resource, redir, sstate, conn, local, target, control, sop, broken, requests, bounds>>

RedirectExpires ==
  /\ redir = "other" /\ Fault("expire")
  /\ redir' = "expired"
  /\ UNCHANGED <<resource, sstate, conn, local, target, sdone, control, sop, broken, requests,
                 sstarts, spauses>>

----------------------------------------------------------------------------
\* A new fetcher, or one restored with a known resource and perhaps a connection.
Init ==
  /\ range \in BOOLEAN /\ sized \in BOOLEAN /\ ~(range /\ sized)
  /\ restored \in BOOLEAN /\ known = restored
  /\ exists \in BOOLEAN /\ (exists => restored) /\ got \in 0..1 /\ (got = 1 => exists)
  /\ cst = IF exists THEN "downloading" ELSE "notStarted"
  /\ right = 0..(got - 1) /\ over = FALSE
  /\ body = FALSE /\ pendingStart = FALSE /\ redir = "same"
  /\ sstate = IF restored THEN "resolved" ELSE "idle"
  /\ cfailed = FALSE /\ cerr = "none" /\ cretry = 0
  /\ cpc = "gone" /\ mode = "body" /\ spos = 0 /\ counted = 0
  /\ sfile = FALSE /\ sdone = "none"
  /\ loop = [l \in Loops |-> "off"] /\ exp = FALSE /\ cancelled = FALSE /\ loopDone = "none"
  /\ spare = 0 /\ panic = FALSE /\ sop = "idle" /\ broken = FALSE /\ requests = 0
  /\ faults = 0 /\ sstarts = 0 /\ spauses = 0

ConnStep == TakesBody \/ ConnCancelled \/ Reads \/ Eof \/ Answered \/ BackoffOver
ConnFault == BodyBreaks \/ BodyWriteFails \/ Forbidden \/ CountedFailure \/ TransientFailure
LoopStep == \/ LoopBegins \/ SpareWaited
            \/ \E l \in Loops : LoopCompletes(l) \/ LoopStops(l) \/ LoopExpands(l) \/ LoopWaited(l)
OpStep == ResolveAnswered \/ doStart \/ PauseEnds
Calls == ResolveCalled \/ StartEarly \/ StartCalled \/ PauseCalled \/ Patch

Next == ConnStep \/ ConnFault \/ LoopStep \/ OpStep \/ Calls \/ ResolveFails \/ WatchTakes
        \/ RedirectExpires

Fairness ==
  /\ WF_singleVars(ConnStep \/ ConnFault) /\ WF_singleVars(LoopStep) /\ WF_singleVars(OpStep)

Spec == Init /\ [][Next]_singleVars /\ Fairness

----------------------------------------------------------------------------
(* Properties *)

\* Every variable of the fetcher has its type.
TypeOK ==
  /\ range \in BOOLEAN /\ sized \in BOOLEAN /\ restored \in BOOLEAN /\ known \in BOOLEAN
  /\ body \in BOOLEAN /\ pendingStart \in BOOLEAN /\ redir \in {"same", "other", "expired"}
  /\ sstate \in {"idle", "resolving", "resolved", "slow", "steady", "paused", "done", "error"}
  /\ exists \in BOOLEAN /\ cfailed \in BOOLEAN
  /\ cst \in {"notStarted", "downloading", "completed", "failed"}
  /\ cerr \in {"none", "forbidden", "counted", "transient"}
  /\ cretry \in 0..Retries /\ counted \in Nat /\ got \in Nat /\ spos \in 0..Total
  /\ cpc \in {"gone", "take", "request", "read", "backoff"} /\ mode \in {"body", "fallback", "resume"}
  /\ right \subseteq Bytes /\ over \in BOOLEAN /\ sfile \in BOOLEAN
  /\ sdone \in {"none", "ok", "error"}
  /\ loop \in [Loops -> {"off", "begin", "first", "select", "wait"}]
  /\ exp \in BOOLEAN /\ cancelled \in BOOLEAN /\ loopDone \in {"none", "open", "closed"}
  /\ spare \in Nat /\ panic \in BOOLEAN /\ sop \in {"idle", "resolve", "start", "pause"}
  /\ broken \in BOOLEAN /\ requests \in Nat
  /\ faults \in 0..MaxFaults /\ sstarts \in 0..MaxStarts /\ spauses \in 0..MaxPauses

\* A URL that can be requested once is requested once: what Resolve was answered
\* is what the first Start downloads, whatever fails and whenever Start comes.
OneRequest == (~restored /\ ~range /\ sstarts <= 1 /\ spauses = 0) => requests = 0

Whole == right = Bytes /\ ~over

\* A resource without ranges that is Done at the first Start, never paused, is
\* whole: a body that broke off is asked for again, or reported.
DoneMeansWhole ==
  (sstate = "done" /\ ~range /\ ~restored /\ sstarts <= 1 /\ spauses = 0) => Whole

\* Done means that the file is whole, unless the answer Resolve kept broke off,
\* any answer broke off or could not be written after its first byte, a request
\* was refused with 403, or an answer was joined to the bytes an earlier one left
\* (pause, restart).  A resumed resource with ranges but no size is not looked at:
\* see ResumedWhole.
WholeUnlessBroken ==
  sstate = "done" /\ ~(range /\ mode = "resume") => Whole \/ broken

\* Not true: the resumed connection asks for the chunk 0-0 and is completed by
\* one byte, whatever the resource has.
ResumedWhole == sstate = "done" /\ range /\ mode = "resume" => Whole \/ broken

\* A started download ends in a result or in a pause, and Pause returns.
RunsEnd ==
  /\ (sstate = "slow" ~> sstate \in {"done", "error", "paused"})
  /\ (sop = "pause" ~> sop # "pause")

\* No goroutine closes the channel of the download loop a second time.
LoopClosedOnce == ~panic

----------------------------------------------------------------------------
(* The inductive invariant behind OneRequest and WholeUnlessBroken, when a  *)
(* start waits for the download loop and the waiters of the attempt before  *)

\* A download is started again only when its loop and a left-over waiter are
\* gone, and the file has a byte.
SingleConstants ==
  /\ Total \in Nat \ {0} /\ Retries \in Nat \ {0} /\ Faults \subseteq FaultKinds
  /\ RetryWaits = TRUE /\ SpareDrains = TRUE
  /\ MaxFaults \in Nat /\ MaxStarts \in Nat /\ MaxPauses \in Nat

\* One loop at a time, open as long as it runs and closed once; the connection runs
\* inside it; nothing starts or pauses before the resource is known.
OneLoop ==
  /\ loop["former"] = "off"
  /\ ~gone => loop["current"] \in {"first", "wait"}
  /\ (loop["current"] # "off" <=> loopDone = "open") /\ ~panic
  /\ sop = "start" => loop["current"] = "off" /\ spare = 0
  /\ sop = "resolve" => ~known
  /\ ~known => ~exists /\ loop["current"] = "off" /\ spare = 0 /\ sop \notin {"start", "pause"}

\* A connection that has its strikes is gone; a new one has none.
StrikesHeld ==
  /\ cretry = Retries => cst = "failed" /\ cfailed /\ gone
  /\ ~exists \/ cpc = "take" => cretry = 0 /\ cerr = "none" /\ counted \in Nat
  /\ ~gone /\ cpc # "take" /\ mode = "fallback" => counted = cretry
  /\ cpc = "read" => cst = "downloading"
  /\ ~gone => exists
  /\ mode = "resume" => exists /\ cpc # "take"

\* Until the first start has begun, the answer of Resolve is at hand; then the
\* connection has it.
AnswerHeld ==
  ~restored /\ ~range /\ sstarts <= 1 /\ spauses = 0 =>
    /\ requests = 0 /\ sop # "pause"
    /\ cpc \in {"gone", "take", "read"} /\ (cpc = "read" => mode = "body")
    /\ known /\ ~exists => body
    /\ cpc = "take" => body
    /\ sop = "start" \/ loop["current"] = "begin" \/ sstarts = 0 => ~exists
    /\ sstarts = 0 => ~pendingStart /\ sop # "start" /\ loop["current"] = "off"

\* The connection is through with the resource, or has failed before its first byte.
Through == cst = "completed" \/ (exists /\ cst = "failed" /\ cfailed /\ got = 0)

\* As long as no answer broke off or was joined to another, the file has the bytes
\* that are counted, and they are what the connection has read.
FileFollows ==
  ~broken /\ ~(range /\ mode = "resume") =>
    /\ right = 0..(got - 1) /\ got <= Total /\ ~over /\ cerr # "forbidden"
    /\ cpc = "read" => spos = got
    /\ ~exists \/ cpc \in {"take", "request", "backoff"} => got = 0
    /\ ~gone \/ loop["current"] = "begin" => sfile
    /\ cst = "completed" => got = Total
    /\ cst = "failed" => got = 0
    /\ loop["current"] \in {"first", "select", "wait"} /\ gone /\ ~cancelled => Through
    /\ spare > 0 => cancelled
    /\ sstate = "done" => got = Total /\ gone /\ loop["current"] # "begin"

SingleInv == TypeOK /\ OneLoop /\ StrikesHeld /\ AnswerHeld /\ FileFollows

==============================================================================
