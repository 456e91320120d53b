--------------------------- MODULE HttpBytesProof ---------------------------
(***************************************************************************)
(* Further proofs about HttpDownload: the file is open as long as a        *)
(* connection runs, no byte of the resource is lost between the chunks,    *)
(* the counters add up to the size, and a fetcher that is Done has the     *)
(* whole resource.  All but the counters assume WaitersDrain: a second     *)
(* waiter that outlives its attempt closes the file of the next one        *)
(* (HttpDownload_reuse shows them meet).                                   *)
(***************************************************************************)
EXTENDS HttpDownloadProof, FiniteSetTheorems

----------------------------------------------------------------------------
(* The shape of a connection's step *)

\* A step of the connection c: it runs, only its own slot changes, and of the
\* shared control only the token of the slow start and the waiters released by
\* wg.Done() do.
LEMMA ConnShape ==
  ASSUME IInv, NEW c \in Conns, ConnStep(c) \/ ConnFault(c)
  PROVE  /\ pc[c] # "gone"
         /\ UNCHANGED <<nconn, loop, cancelled, file, op, pfFile, dataPos>>
         /\ \A d \in Conns : d # c => pc'[d] = pc[d]
         /\ extra' = extra \/ WgDone(c)
<1> USE DEF IInv, TypeOK, TypeLocals, pref, env, conns, ctl, out
<1>1. CASE ConnStart(c)
  BY <1>1 DEF ConnStart
<1>2. CASE ConnCancelled(c)
  BY <1>2 DEF ConnCancelled, WgDone
<1>3. CASE Request(c)
  BY <1>3 DEF Request
<1>4. CASE RespondOK(c)
  BY <1>4 DEF RespondOK, onConnectSuccess
<1>5. CASE BackoffOver(c)
  BY <1>5 DEF BackoffOver
<1>6. CASE Read(c)
  BY <1>6 DEF Read
<1>7. CASE Eof(c)
  BY <1>7 DEF Eof
<1>8. CASE Write(c)
  BY <1>8 DEF Write
<1>9. CASE Account(c)
  BY <1>9 DEF Account
<1>10. CASE Steal(c)
  BY <1>10 DEF Steal
<1>11. CASE Complete(c)
  BY <1>11 DEF Complete, WgDone
<1>12. CASE RespondForbidden(c)
  BY <1>12 DEF RespondForbidden, WgDone, onConnectFailed
<1>13. CASE RespondCounted(c)
  BY <1>13 DEF RespondCounted, WgDone, onConnectFailed
<1>14. CASE Transient(c)
  BY <1>14 DEF Transient
<1> QED
  BY <1>1, <1>2, <1>3, <1>4, <1>5, <1>6, <1>7, <1>8, <1>9, <1>10, <1>11, <1>12, <1>13, <1>14 DEF ConnStep, ConnFault

----------------------------------------------------------------------------
(* The file is open *)

LEMMA ConnFile ==
  ASSUME IInv, FileHeld, WaitersIdle, NEW c \in Conns, ConnStep(c) \/ ConnFault(c)
  PROVE  FileHeld' /\ WaitersIdle'
<1>1. /\ pc[c] # "gone" /\ nconn > 0
      /\ UNCHANGED <<nconn, loop, cancelled, file, op, pfFile, dataPos>>
      /\ \A d \in Conns : d # c => pc'[d] = pc[d]
      /\ extra' = extra \/ WgDone(c)
  <2>1. pc[c] # "gone"
    BY ConnShape
  <2>2. nconn > 0
    BY <2>1, ActiveConn
  <2> QED
    BY <2>1, <2>2, ConnShape
<1>2. file /\ file'
  BY <1>1 DEF FileHeld
<1>3. FileHeld'
  BY <1>1, <1>2 DEF FileHeld
<1>4. \A a \in Attempts : extra[a] \notin {"released", "waited", "passed"}
  BY <1>1 DEF WaitersIdle
<1>5. ASSUME NEW a \in Attempts
      PROVE  /\ extra'[a] # "gone" => extra[a] # "gone"
             /\ extra'[a] \in {"released", "waited", "passed"} => \A d \in Conns : pc'[d] = "gone"
  <2>1. CASE extra' = extra
    BY <1>4, <2>1
  <2>2. CASE WgDone(c) /\ Running # {c}
    BY <1>4, <2>2 DEF WgDone
  <2>3. CASE WgDone(c) /\ Running = {c}
    <3>1. ASSUME NEW d \in Conns PROVE pc'[d] = "gone"
      <4>1. CASE d = c
        BY <2>3, <4>1 DEF WgDone, IInv, TypeOK, TypeLocals
      <4>2. CASE d # c
        <5>1. nconn \in Nat /\ d \in Nat
          BY ConstantsOK DEF ConstantsOK, IInv, TypeOK, TypeConns, Conns
        <5> QED
          BY <1>1, <2>3, <4>2, <5>1 DEF Running, Existing, IInv, BlankSlots
      <4> QED
        BY <4>1, <4>2
    <3> QED
      BY <2>3, <3>1 DEF WgDone
  <2> QED
    BY <1>1, <2>1, <2>2, <2>3
<1>6. ASSUME NEW a \in Attempts
      PROVE  extra'[a] # "gone" => loop' \in {"wait", "closing", "gone"} /\ op' \notin {"starting", "copying"}
  BY <1>1, <1>5 DEF WaitersIdle
<1> QED
  BY <1>3, <1>5, <1>6 DEF WaitersIdle

LEMMA LoopFile ==
  ASSUME IInv, FileHeld, WaitersIdle, LoopStep
  PROVE  FileHeld' /\ WaitersIdle'
<1> USE DEF conns, slow, out, env, rest
<1>1. loop # "gone" /\ op' = op
  BY DEF LoopStep, LoopBegin, LoopExpand, MaxReached, AllPrefetched, FirstConn, SplitOne,
     SplitEnds, LaunchBatch, LoopCancelled, LoopWaited, LoopCloses
<1>2. op \notin {"starting", "copying"} /\ op' \notin {"starting", "copying"}
  BY <1>1 DEF IInv, Quiet
<1>3. nconn \in Nat /\ launched \in Nat
  BY ConstantsOK DEF ConstantsOK, IInv, TypeOK, TypeConns, TypeLoop
<1>4. ASSUME loop \notin {"wait", "closing"}, NEW a \in Attempts PROVE extra[a] = "gone"
  BY <1>1, <1>4 DEF WaitersIdle
<1>5. CASE LoopBegin
  <2>1. file /\ file' /\ extra' = extra /\ loop' \in {"wait", "expand"} /\ nconn' = nconn /\ expCh' = expCh
    BY <1>5 DEF LoopBegin, resumeConnections, FileHeld
  <2> QED
    BY <1>2, <1>4, <1>5, <2>1 DEF LoopBegin, FileHeld, WaitersIdle
<1>6. CASE LoopExpand
  <2>1. /\ loop' \in {"wait", "expand"} /\ nconn > 0 /\ ~expCh' /\ file
        /\ UNCHANGED <<file, extra, pc, nconn>>
    BY <1>3, <1>6 DEF LoopExpand, FileHeld
  <2> QED
    BY <1>2, <1>4, <1>6, <2>1 DEF LoopExpand, FileHeld, WaitersIdle
<1>7. CASE MaxReached
  BY <1>2, <1>4, <1>7 DEF MaxReached, FileHeld, WaitersIdle
<1>8. CASE AllPrefetched
  <2>1. \A d \in Conns : pc[d] = "gone"
    <3> SUFFICES ASSUME NEW d \in Conns, pc[d] # "gone" PROVE FALSE
      OBVIOUS
    <3> QED
      BY <1>8, ActiveConn DEF AllPrefetched
  <2> QED
    BY <1>2, <1>4, <1>8, <2>1 DEF AllPrefetched, FileHeld, WaitersIdle
<1>9. CASE FirstConn
  BY <1>2, <1>4, <1>9 DEF FirstConn, FileHeld, WaitersIdle
<1>10. CASE SplitOne
  BY <1>2, <1>3, <1>4, <1>10 DEF SplitOne, FileHeld, WaitersIdle
<1>11. CASE SplitEnds
  <2>1. /\ file /\ loop' \in {"wait", "commit"} /\ UNCHANGED <<file, pc, nconn, expCh>>
        /\ \A a \in Attempts : extra'[a] \in {"gone", "spawned"}
        /\ loop' = "commit" => extra' = extra
    BY <1>4, <1>11 DEF SplitEnds, FileHeld, IInv, TypeOK, TypeLoop
  <2> QED
    BY <1>2, <1>4, <1>11, <2>1 DEF SplitEnds, FileHeld, WaitersIdle
<1>12. CASE LaunchBatch
  BY <1>2, <1>4, <1>12 DEF LaunchBatch, FileHeld, WaitersIdle
<1>13. CASE LoopCancelled
  BY <1>2, <1>4, <1>13 DEF LoopCancelled, FileHeld, WaitersIdle
<1>14. CASE LoopWaited
  <2>1. \A d \in Conns : pc[d] = "gone"
    BY <1>14, NoneRunning DEF LoopWaited
  <2> QED
    BY <1>2, <1>14, <2>1 DEF LoopWaited, onDownloadComplete, FileHeld, WaitersIdle
<1>15. CASE LoopCloses
  BY <1>2, <1>15 DEF LoopCloses, FileHeld, WaitersIdle
<1> QED
  BY <1>5, <1>6, <1>7, <1>8, <1>9, <1>10, <1>11, <1>12, <1>13, <1>14, <1>15 DEF LoopStep

\* The second waiter closes the file only when nothing runs any more.
LEMMA ExtraFile ==
  ASSUME IInv, FileHeld, WaitersIdle, NEW a \in Attempts, ExtraStep(a)
  PROVE  FileHeld' /\ WaitersIdle'
<1> USE DEF conns, slow, out, env, rest, locals, IInv, TypeOK, TypeLoop
<1>1. CASE ExtraWaits(a)
  <2>1. Running = {} => \A d \in Conns : pc[d] = "gone"
    BY NoneRunning
  <2> QED
    BY <1>1, <2>1 DEF ExtraWaits, FileHeld, WaitersIdle
<1>2. CASE ExtraWakes(a)
  BY <1>2 DEF ExtraWakes, FileHeld, WaitersIdle
<1>3. CASE ExtraChecks(a)
  BY <1>3 DEF ExtraChecks, FileHeld, WaitersIdle
<1>4. CASE ExtraCompletes(a)
  BY <1>4 DEF ExtraCompletes, onDownloadComplete, FileHeld, WaitersIdle
<1> QED
  BY <1>1, <1>2, <1>3, <1>4 DEF ExtraStep

LEMMA OtherFile ==
  ASSUME IInv, FileHeld, WaitersIdle, WaitersDrain,
         PrefetchRead \/ PrefetchEnd \/ StartCalled \/ StartFails \/ PauseCalled \/ OpStep \/ WatchResult
         \/ UNCHANGED vars
  PROVE  FileHeld' /\ WaitersIdle'
<1> USE DEF conns, slow, ctl, out, env, locals, pref
<1>1. CASE PrefetchRead \/ PrefetchEnd \/ WatchResult \/ UNCHANGED vars
  BY <1>1 DEF PrefetchRead, PrefetchEnd, WatchResult, vars, FileHeld, WaitersIdle
<1>2. CASE StartCalled
  BY <1>2 DEF StartCalled, FileHeld, WaitersIdle
<1>3. CASE PauseCalled
  BY <1>3 DEF PauseCalled, FileHeld, WaitersIdle
<1>4. CASE StartOpens
  BY <1>4 DEF StartOpens, FileHeld, WaitersIdle
<1>5. CASE StartRuns
  BY <1>5 DEF StartRuns, FileHeld, WaitersIdle
<1>7. CASE StartFails
  BY <1>7 DEF StartFails, FileHeld, WaitersIdle
<1>6. CASE PauseEnds
  <2>1. \A d \in Conns : pc[d] = "gone"
    BY <1>6, NoneRunning DEF PauseEnds, connsGone
  <2> QED
    BY <1>6, <2>1 DEF PauseEnds, FileHeld, WaitersIdle
<1> QED
  BY <1>1, <1>2, <1>3, <1>4, <1>5, <1>6, <1>7 DEF OpStep

\* One step keeps the file open while a connection runs.
LEMMA FileStep ==
  ASSUME IInv, FileHeld, WaitersIdle, WaitersDrain, [Next]_vars
  PROVE  FileHeld' /\ WaitersIdle'
BY ConnFile, LoopFile, ExtraFile, OtherFile DEF Next

\* No write of downloadChunkOnce meets a closed file, for any number of
\* connections, failures, pauses and restarts, when the second waiter of an
\* attempt (waitForCompletion) is gone before the next one starts.
THEOREM FileStaysOpen ==
  ASSUME WaitersDrain PROVE Spec => []FileOpenWhileRunning
<1>1. Init => FileHeld /\ WaitersIdle
  BY DEF Init, FileHeld, WaitersIdle
<1>2. IInv /\ FileHeld /\ WaitersIdle /\ [Next]_vars => (FileHeld /\ WaitersIdle)'
  BY FileStep
<1>3. IInv /\ FileHeld => FileOpenWhileRunning
  BY ExistingTypes DEF FileHeld, FileOpenWhileRunning, Running
<1> QED
  BY <1>1, <1>2, <1>3, Invariance, PTL DEF Spec

----------------------------------------------------------------------------
(* No byte is lost *)

\* The part of ConnsSafe about the connection d.
ConnSafe(d) == InPlace(d) /\ HandWritten(d) /\ ChunkSpent(d)

LEMMA ConnTypes ==
  ASSUME IInv, NEW d \in Conns
  PROVE  /\ d \in Nat /\ begin[d] \in Nat /\ end[d] \in Int /\ got[d] \in Nat
         /\ spos[d] \in Nat /\ send[d] \in Int /\ hand[d] \in Nat
         /\ remain(d) \in Int /\ rangeStart(d) \in Nat
         /\ d < nconn => d \in Existing
<1>1. /\ begin[d] \in Nat /\ end[d] \in Int /\ got[d] \in Nat
      /\ spos[d] \in Nat /\ send[d] \in Int /\ hand[d] \in Nat
  BY ConstantsOK DEF ConstantsOK, IInv, TypeOK, TypeConns, TypeLocals
<1>2. d \in Nat /\ nconn \in Nat
  BY ConstantsOK DEF ConstantsOK, IInv, TypeOK, TypeConns, Conns
<1> QED
  BY <1>1, <1>2 DEF remain, rangeStart, Existing

\* Outside a response nothing is asked of a connection.
LEMMA IdleSafe ==
  ASSUME NEW d \in Conns, pc'[d] \in {"gone", "start", "request", "backoff"}
  PROVE  ConnSafe(d)'
BY DEF ConnSafe, InPlace, HandWritten, ChunkSpent

\* A connection that stays where it is does not mind that its chunk is cut, nor
\* that others write.
LEMMA StillSafe ==
  ASSUME IInv, NEW d \in Conns, ConnSafe(d), pc'[d] = pc[d], begin'[d] = begin[d], got'[d] = got[d],
         end'[d] \in Int, end'[d] <= end[d], spos'[d] = spos[d], send'[d] = send[d],
         hand'[d] = hand[d], finished'[d] = finished[d], written \subseteq written'
  PROVE  ConnSafe(d)'
<1>1. rangeStart(d)' = rangeStart(d) /\ remain(d)' <= remain(d) /\ remain(d)' \in Int
  BY ConnTypes DEF rangeStart, remain
<1>2. InPlace(d)'
  BY <1>1, ConnTypes DEF ConnSafe, InPlace
<1>3. HandWritten(d)'
  BY <1>1 DEF ConnSafe, HandWritten
<1>4. ChunkSpent(d)'
  BY <1>1, ConnTypes DEF ConnSafe, ChunkSpent
<1> QED
  BY <1>2, <1>3, <1>4 DEF ConnSafe

\* Bytes are only lost by a step that moves chunks or erases the file.
LEMMA ByteFrame ==
  ASSUME NoByteLost, UNCHANGED <<nconn, begin, end, got>>, written \subseteq written'
  PROVE  NoByteLost'
BY DEF NoByteLost, Existing, Unfetched

\* A step that only moves the connection c, and puts it outside a response.
LEMMA LeaveBytes ==
  ASSUME IInv, ConnsSafe, NoByteLost, NEW c \in Conns,
         UNCHANGED <<nconn, begin, end, got, spos, send, finished, written>>,
         \A d \in Conns : d # c => pc'[d] = pc[d] /\ hand'[d] = hand[d],
         pc'[c] \in {"gone", "start", "request", "backoff"}
  PROVE  ConnsSafe' /\ NoByteLost'
<1>1. ASSUME NEW d \in Conns PROVE ConnSafe(d)'
  <2>1. CASE d = c
    BY <2>1, IdleSafe
  <2>2. CASE d # c
    BY <2>2, StillSafe, ConnTypes DEF ConnsSafe, ConnSafe
  <2> QED
    BY <2>1, <2>2
<1> QED
  BY <1>1, ByteFrame DEF ConnsSafe, ConnSafe

\* A step that only touches the connection c and the file, and writes no wrong
\* byte, needs to be looked at for c only.
LEMMA OthersSafe ==
  ASSUME IInv, ConnsSafe, NEW c \in Conns,
         \A d \in Conns : d # c =>
           /\ pc'[d] = pc[d] /\ begin'[d] = begin[d] /\ end'[d] = end[d] /\ got'[d] = got[d]
           /\ spos'[d] = spos[d] /\ send'[d] = send[d] /\ hand'[d] = hand[d]
           /\ finished'[d] = finished[d],
         written \subseteq written', ConnSafe(c)'
  PROVE  ConnsSafe'
<1>1. ASSUME NEW d \in Conns, d # c PROVE ConnSafe(d)'
  BY <1>1, StillSafe, ConnTypes DEF ConnsSafe, ConnSafe
<1> QED
  BY <1>1 DEF ConnsSafe, ConnSafe

\* The steps that change neither chunks nor the file.
LEMMA RequestBytes ==
  ASSUME IInv, ConnsSafe, NoByteLost, NEW c \in Conns, Request(c)
  PROVE  ConnsSafe' /\ NoByteLost'
<1> USE DEF conns, out, IInv, TypeOK, TypeLocals
<1>1. UNCHANGED <<nconn, begin, end, got, written, hand, finished>>
  BY DEF Request
<1>2. hand[c] = 0
  BY DEF Request, HandHeld
<1>3. remain(c)' = remain(c) /\ rangeStart(c)' = rangeStart(c)
  BY <1>1 DEF remain, rangeStart
<1>4. ConnSafe(c)'
  <2>1. CASE remain(c) <= 0
    BY <1>1, <1>2, <1>3, <2>1 DEF Request, ConnSafe, InPlace, HandWritten, ChunkSpent
  <2>2. CASE ~ (remain(c) <= 0)
    <3>1. pc'[c] = "await" /\ spos'[c] = rangeStart(c) /\ send'[c] = end[c] /\ end'[c] = end[c]
      BY <2>2, <1>1 DEF Request
    <3> QED
      BY <1>3, <3>1, ConnTypes DEF ConnSafe, InPlace, HandWritten, ChunkSpent
  <2> QED
    BY <2>1, <2>2
<1> QED
  BY <1>1, <1>4, OthersSafe, ByteFrame DEF Request

LEMMA ReadBytes ==
  ASSUME IInv, ConnsSafe, NoByteLost, NEW c \in Conns, Read(c) \/ Eof(c) \/ RespondOK(c)
  PROVE  ConnsSafe' /\ NoByteLost'
<1> USE DEF conns, out, IInv, TypeOK, TypeLocals
<1>1. UNCHANGED <<nconn, begin, end, got, written, spos, send>>
  BY DEF Read, Eof, RespondOK
<1>2. hand[c] = 0 /\ InPlace(c)
  BY DEF Read, Eof, RespondOK, HandHeld, ConnsSafe
<1>3. remain(c)' = remain(c) /\ rangeStart(c)' = rangeStart(c)
  BY <1>1 DEF remain, rangeStart
<1>4. ConnSafe(c)'
  <2>1. CASE RespondOK(c)
    BY <1>1, <1>2, <1>3, <2>1 DEF RespondOK, ConnSafe, InPlace, HandWritten, ChunkSpent
  <2>2. CASE Eof(c)
    <3>1. remain(c) <= 0
      BY <1>2, <2>2, ConnTypes DEF Eof, InPlace, remain, rangeStart
    <3> QED
      BY <1>1, <1>2, <1>3, <2>2, <3>1 DEF Eof, ConnSafe, InPlace, HandWritten, ChunkSpent
  <2>3. CASE Read(c) /\ remain(c) <= 0
    BY <1>1, <1>2, <1>3, <2>3 DEF Read, ConnSafe, InPlace, HandWritten, ChunkSpent
  <2>4. CASE Read(c) /\ ~ (remain(c) <= 0)
    <3>1. PICK k \in 1..Buf :
            /\ pc' = [pc EXCEPT ![c] = "write"]
            /\ hand' = [hand EXCEPT ![c] = IF remain(c) < k THEN remain(c) ELSE k]
            /\ finished' = [finished EXCEPT ![c] = remain(c) < k]
      BY <2>4 DEF Read, Reads
    <3>2. pc'[c] = "write" /\ spos'[c] = spos[c] /\ send'[c] = send[c] /\ end'[c] = end[c]
      BY <1>1, <3>1
    <3>3. finished'[c] => hand'[c] = remain(c)
      BY <3>1 DEF TypeFlags
    <3>4. InPlace(c)' /\ HandWritten(c)'
      BY <1>2, <1>3, <2>4, <3>2 DEF Read, InPlace, HandWritten
    <3>5. ChunkSpent(c)'
      BY <1>3, <3>2, <3>3, ConnTypes DEF ChunkSpent
    <3> QED
      BY <3>4, <3>5 DEF ConnSafe
  <2> QED
    BY <2>1, <2>2, <2>3, <2>4
<1>5. \A d \in Conns : d # c => pc'[d] = pc[d] /\ hand'[d] = hand[d] /\ finished'[d] = finished[d]
  <2>1. CASE Read(c)
    BY <2>1 DEF Read, TypeFlags
  <2>2. CASE Eof(c) \/ RespondOK(c)
    BY <2>2 DEF Eof, RespondOK
  <2> QED
    BY <2>1, <2>2
<1> QED
  BY <1>1, <1>4, <1>5, OthersSafe, ByteFrame

\* The file is open and the response is where the counters are, so that every
\* byte written is the right one (WriteAt in downloadChunkOnce).
LEMMA WriteBytes ==
  ASSUME IInv, FileHeld, ConnsSafe, NoByteLost, NEW c \in Conns, Write(c)
  PROVE  ConnsSafe' /\ NoByteLost'
<1> USE DEF conns, out, IInv, TypeOK, TypeLocals
<1>1. UNCHANGED <<nconn, begin, end, got, spos, send, hand, finished>>
  BY DEF Write
<1>2. file /\ spos[c] = rangeStart(c) /\ end[c] <= send[c]
  BY DEF Write, FileHeld, ConnsSafe, InPlace
<1>3. written' = written \union (rangeStart(c)..(rangeStart(c) + hand[c] - 1)) /\ pc'[c] = "account"
  BY <1>2 DEF Write, rangeStart
<1>4. remain(c)' = remain(c) /\ rangeStart(c)' = rangeStart(c)
  BY <1>1 DEF remain, rangeStart
<1>5. ConnSafe(c)'
  <2>1. InPlace(c)'
    BY <1>1, <1>2, <1>4 DEF InPlace
  <2>2. HandWritten(c)'
    BY <1>1, <1>3, <1>4 DEF HandWritten
  <2>3. ChunkSpent(c)'
    BY <1>1, <1>3, <1>4 DEF ChunkSpent, ConnsSafe, Write
  <2> QED
    BY <2>1, <2>2, <2>3 DEF ConnSafe
<1>6. \A d \in Conns : d # c => pc'[d] = pc[d]
  BY DEF Write
<1> QED
  BY <1>1, <1>3, <1>5, <1>6, OthersSafe, ByteFrame

\* The counters only move past bytes that are in the file.
LEMMA AccountBytes ==
  ASSUME IInv, ConnsSafe, NoByteLost, NEW c \in Conns, Account(c)
  PROVE  ConnsSafe' /\ NoByteLost'
<1> USE DEF conns, out, IInv, TypeOK, TypeConns, TypeLocals
<1>1. UNCHANGED <<nconn, begin, end, send, finished, written>>
  BY DEF Account
<1>2. /\ got'[c] = got[c] + hand[c] /\ spos'[c] = spos[c] + hand[c] /\ hand'[c] = 0
      /\ pc'[c] = IF finished[c] THEN "help" ELSE "read"
  BY DEF Account
<1>3. \A d \in Conns : d # c => got'[d] = got[d] /\ spos'[d] = spos[d] /\ hand'[d] = hand[d] /\ pc'[d] = pc[d]
  BY DEF Account
<1>4. InPlace(c) /\ HandWritten(c) /\ ChunkSpent(c) /\ pc[c] = "account"
  BY DEF ConnsSafe, Account
<1>5. rangeStart(c)' = rangeStart(c) + hand[c] /\ remain(c)' = remain(c) - hand[c]
  BY <1>1, <1>2, ConnTypes DEF rangeStart, remain
<1>6. ConnSafe(c)'
  <2>1. InPlace(c)'
    BY <1>1, <1>2, <1>4, <1>5 DEF InPlace
  <2>2. HandWritten(c)'
    BY <1>2 DEF HandWritten
  <2>3. ChunkSpent(c)'
    BY <1>2, <1>4, <1>5, ConnTypes DEF ChunkSpent
  <2> QED
    BY <2>1, <2>2, <2>3 DEF ConnSafe
<1>7. NoByteLost'
  <2> SUFFICES ASSUME nconn > 0, NEW p \in Bytes, p \notin written
               PROVE  \E d \in Existing' : p \in Unfetched(d)'
    BY <1>1 DEF NoByteLost
  <2>1. PICK d \in Existing : p \in Unfetched(d)
    BY DEF NoByteLost
  <2>2. p \in Int /\ d \in Conns
    BY ExistingTypes DEF Bytes
  <2>3. CASE d # c
    BY <1>1, <1>3, <2>1, <2>2, <2>3 DEF Unfetched, Existing
  <2>4. CASE d = c
    <3>1. p >= rangeStart(c) /\ p <= end[c]
      BY <2>1, <2>2, <2>4, ConnTypes DEF Unfetched, rangeStart
    <3>2. p >= rangeStart(c) + hand[c]
      BY <1>4, <2>2, <3>1, ConnTypes DEF HandWritten
    <3>3. p \in Unfetched(c)'
      BY <1>1, <1>2, <2>2, <3>1, <3>2, ConnTypes DEF Unfetched, rangeStart
    <3> QED
      BY <1>1, <2>1, <2>4, <3>3 DEF Existing
  <2> QED
    BY <2>3, <2>4
<1> QED
  BY <1>1, <1>3, <1>6, <1>7, OthersSafe

\* The thief has nothing left of its own chunk, and what it takes and what it
\* leaves make up the victim's (helpOtherConnection).
LEMMA StealBytes ==
  ASSUME IInv, ConnsSafe, NoByteLost, NEW c \in Conns, Steal(c)
  PROVE  ConnsSafe' /\ NoByteLost'
<1> USE DEF conns, out, IInv, TypeOK, TypeConns, TypeLocals
<1>1. UNCHANGED <<nconn, spos, send, hand, finished, written>>
  BY DEF Steal
<1>2. pc[c] = "help" /\ pc'[c] = "request" /\ \A d \in Conns : d # c => pc'[d] = pc[d]
  BY DEF Steal
<1>3. remain(c) <= 0 /\ c \in Existing
  BY <1>2, ActiveConn, ConnTypes DEF ConnsSafe, ChunkSpent, HandHeld
<1>4. PICK r \in Stealable(c) :
        /\ begin' = [begin EXCEPT ![c] = stolenFrom(r)]
        /\ end' = [end EXCEPT ![c] = end[r], ![r] = stolenFrom(r) - 1]
        /\ got' = [got EXCEPT ![c] = 0]
  BY DEF Steal
<1>5. r \in Existing /\ r \in Conns /\ r # c /\ remain(r) >= 3
  BY <1>4, ConstantsOK, StealLeavesABuffer, ExistingTypes DEF ConstantsOK, Stealable
<1>6. stolenFrom(r) \in Int /\ rangeStart(r) <= stolenFrom(r) /\ stolenFrom(r) <= end[r]
  BY <1>5, ConnTypes DEF stolenFrom, remain, rangeStart
<1>7. /\ begin'[c] = stolenFrom(r) /\ end'[c] = end[r] /\ got'[c] = 0
      /\ begin'[r] = begin[r] /\ end'[r] = stolenFrom(r) - 1 /\ got'[r] = got[r]
      /\ \A d \in Conns : d # c /\ d # r => begin'[d] = begin[d] /\ end'[d] = end[d] /\ got'[d] = got[d]
  BY <1>4, <1>5
<1>8. ASSUME NEW d \in Conns PROVE ConnSafe(d)'
  <2>1. CASE d = c
    BY <1>2, <2>1, IdleSafe
  <2>2. CASE d # c
    <3>1. begin'[d] = begin[d] /\ got'[d] = got[d] /\ end'[d] \in Int /\ end'[d] <= end[d]
      BY <1>5, <1>6, <1>7, <2>2, ConnTypes
    <3> QED
      BY <1>1, <1>2, <2>2, <3>1, StillSafe DEF ConnsSafe, ConnSafe
  <2> QED
    BY <2>1, <2>2
<1>9. NoByteLost'
  <2> SUFFICES ASSUME nconn > 0, NEW p \in Bytes, p \notin written
               PROVE  \E d \in Existing' : p \in Unfetched(d)'
    BY <1>1 DEF NoByteLost
  <2>1. PICK d \in Existing : p \in Unfetched(d)
    BY DEF NoByteLost
  <2>2. p \in Int /\ d \in Conns /\ Existing' = Existing
    BY <1>1, ExistingTypes DEF Bytes, Existing
  <2>3. p >= rangeStart(d) /\ p <= end[d]
    BY <2>1, <2>2, ConnTypes DEF Unfetched, rangeStart
  <2>4. d # c
    BY <1>3, <2>2, <2>3, ConnTypes DEF remain, rangeStart
  <2>5. CASE d = r /\ p >= stolenFrom(r)
    <3>1. p \in Unfetched(c)'
      BY <1>6, <1>7, <2>2, <2>3, <2>5 DEF Unfetched
    <3> QED
      BY <1>3, <2>2, <3>1
  <2>6. CASE d = r /\ p < stolenFrom(r)
    <3>1. p \in Unfetched(r)'
      BY <1>6, <1>7, <2>2, <2>3, <2>6, ConnTypes DEF Unfetched, rangeStart
    <3> QED
      BY <1>5, <2>2, <3>1
  <2>7. CASE d # r
    BY <1>7, <2>1, <2>2, <2>4, <2>7 DEF Unfetched
  <2> QED
    BY <1>6, <2>2, <2>5, <2>6, <2>7
<1> QED
  BY <1>8, <1>9 DEF ConnsSafe, ConnSafe

LEMMA ConnBytes ==
  ASSUME IInv, FileHeld, ConnsSafe, NoByteLost, NEW c \in Conns, ConnStep(c) \/ ConnFault(c)
  PROVE  ConnsSafe' /\ NoByteLost'
<1> USE DEF IInv, TypeOK, TypeLocals, out, locals
<1>1. CASE ConnStart(c) \/ ConnCancelled(c) \/ BackoffOver(c) \/ Complete(c)
  BY <1>1, LeaveBytes DEF ConnStart, ConnCancelled, BackoffOver, Complete, WgDone, conns
<1>2. CASE RespondForbidden(c) \/ RespondCounted(c)
  BY <1>2, LeaveBytes DEF RespondForbidden, RespondCounted, WgDone
<1>3. CASE Transient(c)
  BY <1>3, LeaveBytes DEF Transient
<1> QED
  BY <1>1, <1>2, <1>3, RequestBytes, ReadBytes, WriteBytes, AccountBytes, StealBytes DEF ConnStep, ConnFault

\* A step that leaves the chunks alone, at most launches connections and at most
\* adds to the file.
LEMMA LaunchBytes ==
  ASSUME IInv, ConnsSafe, NoByteLost,
         UNCHANGED <<nconn, begin, end, got, spos, send, hand, finished>>,
         \A d \in Conns : pc'[d] = pc[d] \/ pc'[d] = "start",
         written \subseteq written'
  PROVE  ConnsSafe' /\ NoByteLost'
<1>1. ASSUME NEW d \in Conns PROVE ConnSafe(d)'
  <2>1. CASE pc'[d] = "start"
    BY <2>1, IdleSafe
  <2>2. CASE pc'[d] = pc[d]
    BY <2>2, StillSafe, ConnTypes DEF ConnsSafe, ConnSafe
  <2> QED
    BY <2>1, <2>2
<1> QED
  BY <1>1, ByteFrame DEF ConnsSafe, ConnSafe

\* The first chunk begins where the prefetch's bytes end (expandConnections).
LEMMA FirstConnBytes ==
  ASSUME IInv, ConnsSafe, PrefetchHeld, FirstConn
  PROVE  ConnsSafe' /\ NoByteLost'
<1> USE DEF out, rest, IInv, TypeOK, TypeConns, TypeLocals
<1>1. 0 \in Conns /\ got[0] = 0
  BY ConstantsOK DEF ConstantsOK, Conns, BlankSlots, FirstConn
<1>2. /\ UNCHANGED <<got, spos, send, hand, finished, written>> /\ nconn' = 1
      /\ begin'[0] = dataPos /\ end'[0] = Size - 1 /\ pc'[0] = "start"
      /\ \A d \in Conns : d # 0 => pc'[d] = pc[d] /\ begin'[d] = begin[d] /\ end'[d] = end[d]
  BY <1>1 DEF FirstConn
<1>3. 0..(dataPos - 1) \subseteq written /\ dataPos \in Nat
  BY ConstantsOK DEF ConstantsOK, FirstConn, PrefetchHeld, TypeOut
<1>4. ConnSafe(0)'
  BY <1>1, <1>2, IdleSafe
<1>5. NoByteLost'
  <2> SUFFICES ASSUME NEW p \in Bytes, p \notin written
               PROVE  \E d \in Existing' : p \in Unfetched(d)'
    BY <1>2 DEF NoByteLost
  <2>1. p \in Nat /\ p <= Size - 1 /\ p >= dataPos
    BY <1>3, ConstantsOK DEF ConstantsOK, Bytes
  <2>2. p \in Unfetched(0)' /\ 0 \in Existing'
    BY <1>1, <1>2, <1>3, <2>1 DEF Unfetched, Existing
  <2> QED
    BY <2>2
<1> QED
  BY <1>1, <1>2, <1>4, <1>5, OthersSafe

\* The two halves of a split make up the chunk (expandConnections).
LEMMA SplitBytes ==
  ASSUME IInv, ConnsSafe, NoByteLost, SplitOne
  PROVE  ConnsSafe' /\ NoByteLost'
<1> USE DEF out, rest, IInv, TypeOK, TypeConns, TypeLocals
<1>1. nconn \in Nat /\ nconn \in Conns /\ got[nconn] = 0 /\ pc[nconn] = "gone"
  BY SlotLeft DEF SplitOne, BlankSlots
<1>0. PICK n \in Conns : n = nconn
  BY <1>1
<1>2. UNCHANGED <<got, pc, spos, send, hand, finished, written>> /\ nconn' = nconn + 1
  BY DEF SplitOne
<1>3. PICK m \in Splittable :
        /\ begin' = [begin EXCEPT ![nconn] = secondHalf(end[m] - (remain(m) \div 2))]
        /\ end' = [end EXCEPT ![nconn] = end[m], ![m] = end[m] - (remain(m) \div 2)]
  BY DEF SplitOne
<1> DEFINE s == end[m] - (remain(m) \div 2)
<1>4. m \in Existing /\ m \in Conns /\ m # nconn /\ remain(m) >= 3
  BY <1>1, <1>3, ConstantsOK, StealLeavesABuffer, ExistingTypes DEF ConstantsOK, Splittable
<1>5. s \in Int /\ rangeStart(m) <= s /\ s <= end[m]
  BY <1>4, ConnTypes DEF remain, rangeStart
<1>6. /\ begin'[n] = s + 1 /\ end'[n] = end[m] /\ begin'[m] = begin[m] /\ end'[m] = s
      /\ \A d \in Conns : d # n /\ d # m => begin'[d] = begin[d] /\ end'[d] = end[d]
  BY <1>0, <1>3, <1>4 DEF secondHalf
<1> HIDE DEF s
<1>7. ASSUME NEW d \in Conns PROVE ConnSafe(d)'
  <2>1. CASE d = n
    BY <1>0, <1>1, <1>2, <2>1, IdleSafe
  <2>2. CASE d # n
    <3>1. begin'[d] = begin[d] /\ end'[d] \in Int /\ end'[d] <= end[d]
      BY <1>4, <1>5, <1>6, <2>2, ConnTypes
    <3> QED
      BY <1>2, <2>2, <3>1, StillSafe DEF ConnsSafe, ConnSafe
  <2> QED
    BY <2>1, <2>2
<1>8. NoByteLost'
  <2> SUFFICES ASSUME NEW p \in Bytes, p \notin written
               PROVE  \E d \in Existing' : p \in Unfetched(d)'
    BY <1>2 DEF NoByteLost
  <2>1. PICK d \in Existing : p \in Unfetched(d)
    BY <1>4, ExistingTypes DEF NoByteLost
  <2>2. p \in Int /\ d \in Conns /\ d # n /\ d \in Existing' /\ n \in Existing'
    BY <1>0, <1>1, <1>2, ExistingTypes DEF Bytes, Existing
  <2>3. p >= rangeStart(d) /\ p <= end[d]
    BY <2>1, <2>2, ConnTypes DEF Unfetched, rangeStart
  <2>4. CASE d = m /\ p > s
    <3>1. p \in Unfetched(n)'
      BY <1>0, <1>1, <1>2, <1>5, <1>6, <2>2, <2>3, <2>4 DEF Unfetched
    <3> QED
      BY <2>2, <3>1
  <2>5. CASE d = m /\ p <= s
    <3>1. p \in Unfetched(m)'
      BY <1>2, <1>5, <1>6, <2>2, <2>3, <2>5, ConnTypes DEF Unfetched, rangeStart
    <3> QED
      BY <2>2, <2>5, <3>1
  <2>6. CASE d # m
    BY <1>2, <1>6, <2>1, <2>2, <2>6 DEF Unfetched
  <2> QED
    BY <1>5, <2>2, <2>4, <2>5, <2>6
<1> QED
  BY <1>7, <1>8 DEF ConnsSafe, ConnSafe

LEMMA LoopBytes ==
  ASSUME IInv, ConnsSafe, NoByteLost, PrefetchHeld, LoopStep
  PROVE  ConnsSafe' /\ NoByteLost'
<1> USE DEF conns, out, rest
<1>1. CASE LoopBegin
  BY <1>1, LaunchBytes DEF LoopBegin, resumeConnections
<1>2. CASE LaunchBatch
  BY <1>2, LaunchBytes DEF LaunchBatch
<1>3. CASE LoopExpand \/ MaxReached \/ AllPrefetched \/ SplitEnds \/ LoopCancelled \/ LoopWaited
           \/ LoopCloses
  BY <1>3, LaunchBytes DEF LoopExpand, MaxReached, AllPrefetched, SplitEnds, LoopCancelled, LoopWaited,
     LoopCloses, onDownloadComplete
<1> QED
  BY <1>1, <1>2, <1>3, FirstConnBytes, SplitBytes DEF LoopStep

LEMMA OtherBytes ==
  ASSUME IInv, ConnsSafe, NoByteLost,
         \/ \E a \in Attempts : ExtraStep(a)
         \/ PrefetchRead \/ PrefetchEnd \/ StartCalled \/ StartFails \/ PauseCalled \/ OpStep \/ WatchResult
         \/ UNCHANGED vars
  PROVE  ConnsSafe' /\ NoByteLost'
<1> USE DEF conns, out, rest, locals
<1>1. UNCHANGED <<nconn, begin, end, got, pc, spos, send, hand, finished>> /\ written \subseteq written'
  BY DEF ExtraStep, ExtraWaits, ExtraWakes, ExtraChecks, ExtraCompletes, onDownloadComplete, PrefetchRead,
     PrefetchEnd, StartCalled, StartFails, PauseCalled, OpStep, StartOpens, StartRuns, PauseEnds,
     WatchResult, vars
<1> QED
  BY <1>1, LaunchBytes

\* The loop ends without a connection only when it is cancelled.
LEMMA LoopPrefetch ==
  ASSUME IInv, FileHeld, PrefetchHeld, LoopStep
  PROVE  PrefetchHeld'
<1> USE DEF conns, out, pref, env, rest
<1>1. UNCHANGED <<cancelled, op, pfFile, dataPos, written>> /\ nconn \in Nat
  BY ConstantsOK DEF ConstantsOK, IInv, TypeOK, TypeConns, LoopStep, LoopBegin, LoopExpand, MaxReached,
     AllPrefetched, FirstConn, SplitOne, SplitEnds, LaunchBatch, LoopCancelled, LoopWaited, LoopCloses,
     onDownloadComplete
<1>2. CASE LoopBegin \/ AllPrefetched
  <2>1. nconn' = nconn /\ loop # "gone" /\ loop' \in {"wait", "expand", "select"}
        /\ (nconn = 0 => loop' # "wait")
    <3>1. CASE AllPrefetched
      BY <3>1 DEF AllPrefetched
    <3>2. CASE LoopBegin /\ nconn > 0
      BY <1>1, <3>2 DEF LoopBegin, resumeConnections
    <3>3. CASE LoopBegin /\ ~ (nconn > 0)
      BY <3>3 DEF LoopBegin
    <3> QED
      BY <1>2, <3>1, <3>2, <3>3
  <2> QED
    BY <1>1, <2>1 DEF PrefetchHeld
<1>3. CASE LoopExpand \/ SplitOne \/ SplitEnds \/ LaunchBatch \/ FirstConn \/ LoopWaited
           \/ LoopCloses
  <2>1. nconn' # 0
    BY <1>1, <1>3 DEF LoopExpand, SplitOne, SplitEnds, LaunchBatch, FirstConn, LoopWaited, LoopCloses,
       PrefetchHeld, FileHeld
  <2> QED
    BY <1>1, <2>1 DEF PrefetchHeld
<1>4. CASE MaxReached
  <2>1. nconn # 0
    <3>1. batch \in Nat \ {0} /\ launched = nconn
      BY <1>4 DEF MaxReached, IInv, TypeOK, TypeLoop, LaunchedCount
    <3> QED
      BY <1>4, <3>1, ConstantsOK DEF ConstantsOK, MaxReached, getNextBatchSize
  <2> QED
    BY <1>1, <1>4, <2>1 DEF MaxReached, PrefetchHeld
<1>5. CASE LoopCancelled
  BY <1>1, <1>5 DEF LoopCancelled, PrefetchHeld
<1> QED
  BY <1>2, <1>3, <1>4, <1>5 DEF LoopStep

LEMMA PrefetchStep ==
  ASSUME IInv, FileHeld, PrefetchHeld, PrefetchMax = 0 \/ MaxPauses = 0, [Next]_vars
  PROVE  PrefetchHeld'
<1> USE DEF conns, locals, slow, ctl, out, pref, env, rest
<1>1. CASE \E c \in Conns : ConnStep(c) \/ ConnFault(c)
  <2>1. PICK c \in Conns : ConnStep(c) \/ ConnFault(c)
    BY <1>1
  <2>2. pc[c] # "gone" /\ UNCHANGED <<nconn, cancelled, op>>
    BY <2>1, ConnShape
  <2>3. nconn # 0
    BY <2>2, ActiveConn
  <2> QED
    BY <2>2, <2>3 DEF PrefetchHeld
<1>2. CASE LoopStep
  BY <1>2, LoopPrefetch
<1>3. CASE \E a \in Attempts : ExtraStep(a)
  BY <1>3 DEF ExtraStep, ExtraWaits, ExtraWakes, ExtraChecks, ExtraCompletes, onDownloadComplete,
     PrefetchHeld
<1>4. CASE PrefetchRead \/ PrefetchEnd \/ StartCalled \/ StartFails \/ StartOpens \/ WatchResult \/ UNCHANGED vars
  <2>1. /\ UNCHANGED <<nconn, loop, cancelled, pfFile, dataPos, written>>
        /\ op' = op \/ op' \in {"idle", "starting", "copying"}
    BY <1>4 DEF PrefetchRead, PrefetchEnd, StartCalled, StartFails, StartOpens, WatchResult, vars
  <2> QED
    BY <2>1 DEF PrefetchHeld
<1>5. CASE PauseCalled
  <2>1. MaxPauses # 0
    BY <1>5, ConstantsOK DEF ConstantsOK, PauseCalled, IInv, TypeOK, TypeEnv
  <2> QED
    BY <1>5, <2>1 DEF PauseCalled, PrefetchHeld
<1>6. CASE PauseEnds
  BY <1>6 DEF PauseEnds, PrefetchHeld
<1>7. CASE StartRuns
  <2>1. file /\ loop = "gone" /\ pfSize \in Nat /\ pfSize <= PrefetchMax
    BY <1>7, ConstantsOK DEF ConstantsOK, StartRuns, FileHeld, IInv, Quiet, TypeOK, TypeOut
  <2>2. nconn = 0 => 0..(pfSize - 1) \subseteq written \union prefetched
    <3>1. CASE MaxPauses = 0
      BY <2>1, <3>1 DEF PrefetchHeld, prefetched
    <3>2. CASE PrefetchMax = 0
      BY <2>1, <3>2
    <3> QED
      BY <3>1, <3>2
  <2> QED
    BY <1>7, <2>2 DEF StartRuns, PrefetchHeld
<1> QED
  BY <1>1, <1>2, <1>3, <1>4, <1>5, <1>6, <1>7 DEF Next, OpStep

\* One step of anyone keeps BytesInv.
LEMMA BytesStep ==
  ASSUME IInv, BytesInv, WaitersDrain, PrefetchMax = 0 \/ MaxPauses = 0, [Next]_vars
  PROVE  BytesInv'
<1>1. ConnsSafe' /\ NoByteLost'
  BY ConnBytes, LoopBytes, OtherBytes DEF Next, BytesInv
<1> QED
  BY <1>1, FileStep, PrefetchStep DEF BytesInv

LEMMA InitBytes == Init => BytesInv
<1> SUFFICES ASSUME Init PROVE BytesInv
  OBVIOUS
<1>1. FileHeld /\ WaitersIdle /\ PrefetchHeld
  BY DEF Init, FileHeld, WaitersIdle, PrefetchHeld
<1>2. ConnsSafe
  BY DEF Init, ConnsSafe, InPlace, HandWritten, ChunkSpent
<1>3. NoByteLost
  BY DEF Init, NoByteLost
<1> QED
  BY <1>1, <1>2, <1>3 DEF BytesInv

\* What holds of every connection and of the file between any two steps: the file
\* is open while a connection runs, a waiter sleeps until its attempt is over, what
\* a connection has in its hands is written where its chunk says, and the
\* prefetched bytes stay until they are copied.
THEOREM BytesInvariant ==
  ASSUME WaitersDrain, PrefetchMax = 0 \/ MaxPauses = 0
  PROVE  Spec => []BytesInv
<1>1. IInv /\ BytesInv /\ [Next]_vars => BytesInv'
  BY BytesStep
<1> QED
  BY <1>1, InitBytes, Invariance, PTL DEF Spec

\* No split, steal, retry, failure or restart loses a byte: each byte of the
\* resource is in the file or still in some connection's chunk, for every size,
\* number of connections, buffer and number of failures (expandConnections,
\* helpOtherConnection, downloadChunkOnce).  A prefetch and a Pause do not go
\* together: Pause removes the prefetched bytes uncopied (run
\* HttpDownload_lostprefetch).
THEOREM BytesAreKept ==
  ASSUME WaitersDrain, PrefetchMax = 0 \/ MaxPauses = 0
  PROVE  Spec => []NoByteLost
<1>1. BytesInv => NoByteLost
  BY DEF BytesInv
<1> QED
  BY <1>1, BytesInvariant, PTL

----------------------------------------------------------------------------
(* Sums over sets of connections *)

LEMMA UnitsFinite ==
  ASSUME NEW S, IsFiniteSet(S), NEW f, \A c \in S : f[c] \in Nat
  PROVE  IsFiniteSet(Units(f, S))
<1> DEFINE T == {{c} \X (1..f[c]) : c \in S}
           g == [c \in S |-> {c} \X (1..f[c])]
<1>1. g \in Surjection(S, T)
  BY DEF Surjection
<1>2. IsFiniteSet(T)
  BY <1>1, FS_Surjection
<1>3. ASSUME NEW c \in S PROVE IsFiniteSet({c} \X (1..f[c]))
  <2>1. IsFiniteSet({c})
    BY FS_Singleton
  <2>2. IsFiniteSet(1..f[c])
    BY FS_Interval
  <2> QED
    BY <2>1, <2>2, FS_Product
<1>4. \A U \in T : IsFiniteSet(U)
  BY <1>3
<1> HIDE DEF T
<1>5. IsFiniteSet(UNION T)
  BY <1>2, <1>4, FS_UNION
<1> QED
  BY <1>5 DEF T, Units

\* A sum is one of its terms and the sum of the others.
LEMMA SumTake ==
  ASSUME NEW S, IsFiniteSet(S), NEW f, \A d \in S : f[d] \in Nat, NEW c \in S
  PROVE  /\ SumOver(f, S) = f[c] + SumOver(f, S \ {c})
         /\ SumOver(f, S) \in Nat /\ SumOver(f, S \ {c}) \in Nat
<1> DEFINE A == {c} \X (1..f[c])
           B == Units(f, S \ {c})
<1>1. IsFiniteSet({c}) /\ Cardinality({c}) = 1
  BY FS_Singleton
<1>2. IsFiniteSet(1..f[c]) /\ Cardinality(1..f[c]) = f[c]
  BY FS_Interval
<1>3. IsFiniteSet(A) /\ Cardinality(A) = f[c]
  BY <1>1, <1>2, FS_Product
<1>4. IsFiniteSet(S \ {c})
  BY FS_RemoveElement
<1>5. IsFiniteSet(B)
  BY <1>4, UnitsFinite
<1>6. Units(f, S) = A \union B
  BY DEF Units
<1>7. A \cap B = {}
  BY DEF Units
<1>8. Cardinality(A \cap B) = 0
  BY <1>7, FS_EmptySet
<1>9. Cardinality(B) \in Nat
  BY <1>5, FS_CardinalityType
<1> HIDE DEF A, B
<1>10. Cardinality(A \union B) = Cardinality(A) + Cardinality(B) - Cardinality(A \cap B)
  BY <1>3, <1>5, FS_Union
<1>11. SumOver(f, S) = f[c] + Cardinality(B)
  BY <1>3, <1>6, <1>8, <1>9, <1>10 DEF SumOver
<1> QED
  BY <1>9, <1>11 DEF SumOver, B

\* Equal terms have equal sums.
LEMMA SumSame ==
  ASSUME NEW S, NEW f, NEW g, \A c \in S : f[c] = g[c]
  PROVE  SumOver(f, S) = SumOver(g, S)
<1>1. \A c \in S : {c} \X (1..f[c]) = {c} \X (1..g[c])
  OBVIOUS
<1>2. Units(f, S) = Units(g, S)
  BY <1>1 DEF Units
<1> QED
  BY <1>2 DEF SumOver

\* The sum over nothing.
LEMMA SumNone ==
  ASSUME NEW f
  PROVE  SumOver(f, {}) = 0
<1>1. Units(f, {}) = {}
  BY DEF Units
<1> QED
  BY <1>1, FS_EmptySet DEF SumOver


----------------------------------------------------------------------------
(* A connection leaves its chunk when it is spent *)

\* The part of CountInv about what the connection d asked for and has left.
ChunkSafe(d) == InPlace(d) /\ ChunkSpent(d)

ChunksSafe == \A c \in Conns : ChunkSafe(c)

\* A connection that stays where it is does not mind that its chunk is cut.
LEMMA StillChunk ==
  ASSUME IInv, NEW d \in Conns, ChunkSafe(d), pc'[d] = pc[d], begin'[d] = begin[d], got'[d] = got[d],
         end'[d] \in Int, end'[d] <= end[d], spos'[d] = spos[d], send'[d] = send[d],
         hand'[d] = hand[d], finished'[d] = finished[d]
  PROVE  ChunkSafe(d)'
<1>1. rangeStart(d)' = rangeStart(d) /\ remain(d)' <= remain(d) /\ remain(d)' \in Int
  BY ConnTypes DEF rangeStart, remain
<1>2. InPlace(d)'
  BY <1>1, ConnTypes DEF ChunkSafe, InPlace
<1>3. ChunkSpent(d)'
  BY <1>1, ConnTypes DEF ChunkSafe, ChunkSpent
<1> QED
  BY <1>2, <1>3 DEF ChunkSafe

\* A step in which every connection stays where it is or stands outside a response.
LEMMA QuietChunks ==
  ASSUME IInv, ChunksSafe, UNCHANGED <<begin, end, got, spos, send, finished>>,
         \A d \in Conns : \/ pc'[d] = pc[d] /\ hand'[d] = hand[d]
                          \/ pc'[d] \in {"gone", "start", "request", "backoff"}
  PROVE  ChunksSafe'
<1>1. ASSUME NEW d \in Conns PROVE ChunkSafe(d)'
  <2>1. CASE pc'[d] \in {"gone", "start", "request", "backoff"}
    BY <2>1 DEF ChunkSafe, InPlace, ChunkSpent
  <2>2. CASE pc'[d] = pc[d] /\ hand'[d] = hand[d]
    BY <2>2, StillChunk, ConnTypes DEF ChunksSafe
  <2> QED
    BY <2>1, <2>2
<1> QED
  BY <1>1 DEF ChunksSafe

\* A step that only touches the connection c.
LEMMA OneChunk ==
  ASSUME IInv, ChunksSafe, NEW c \in Conns,
         \A d \in Conns : d # c =>
           /\ pc'[d] = pc[d] /\ begin'[d] = begin[d] /\ end'[d] = end[d] /\ got'[d] = got[d]
           /\ spos'[d] = spos[d] /\ send'[d] = send[d] /\ hand'[d] = hand[d]
           /\ finished'[d] = finished[d],
         ChunkSafe(c)'
  PROVE  ChunksSafe'
<1>1. ASSUME NEW d \in Conns, d # c PROVE ChunkSafe(d)'
  BY <1>1, StillChunk, ConnTypes DEF ChunksSafe
<1> QED
  BY <1>1 DEF ChunksSafe

\* The range is asked for where the counters stand.
LEMMA RequestChunk ==
  ASSUME IInv, ChunksSafe, NEW c \in Conns, Request(c)
  PROVE  ChunksSafe'
<1> USE DEF conns, IInv, TypeOK, TypeLocals
<1>1. UNCHANGED <<begin, end, got, hand, finished>>
  BY DEF Request
<1>2. hand[c] = 0
  BY DEF Request, HandHeld
<1>3. remain(c)' = remain(c) /\ rangeStart(c)' = rangeStart(c)
  BY <1>1 DEF remain, rangeStart
<1>4. ChunkSafe(c)'
  <2>1. CASE remain(c) <= 0
    BY <1>1, <1>2, <1>3, <2>1 DEF Request, ChunkSafe, InPlace, ChunkSpent
  <2>2. CASE ~ (remain(c) <= 0)
    <3>1. pc'[c] = "await" /\ spos'[c] = rangeStart(c) /\ send'[c] = end[c] /\ end'[c] = end[c]
      BY <2>2, <1>1 DEF Request
    <3> QED
      BY <1>3, <3>1, ConnTypes DEF ChunkSafe, InPlace, ChunkSpent
  <2> QED
    BY <2>1, <2>2
<1> QED
  BY <1>1, <1>4, OneChunk DEF Request

\* A read that takes the rest of the chunk, and the end of the response, spend it.
LEMMA ReadChunk ==
  ASSUME IInv, ChunksSafe, NEW c \in Conns, Read(c) \/ Eof(c) \/ RespondOK(c)
  PROVE  ChunksSafe'
<1> USE DEF conns, IInv, TypeOK, TypeLocals
<1>1. UNCHANGED <<begin, end, got, spos, send>>
  BY DEF Read, Eof, RespondOK
<1>2. hand[c] = 0 /\ InPlace(c)
  BY DEF Read, Eof, RespondOK, HandHeld, ChunksSafe, ChunkSafe
<1>3. remain(c)' = remain(c) /\ rangeStart(c)' = rangeStart(c)
  BY <1>1 DEF remain, rangeStart
<1>4. ChunkSafe(c)'
  <2>1. CASE RespondOK(c)
    BY <1>1, <1>2, <1>3, <2>1 DEF RespondOK, ChunkSafe, InPlace, ChunkSpent
  <2>2. CASE Eof(c)
    <3>1. remain(c) <= 0
      BY <1>2, <2>2, ConnTypes DEF Eof, InPlace, remain, rangeStart
    <3> QED
      BY <1>1, <1>2, <1>3, <2>2, <3>1 DEF Eof, ChunkSafe, InPlace, ChunkSpent
  <2>3. CASE Read(c) /\ remain(c) <= 0
    BY <1>1, <1>2, <1>3, <2>3 DEF Read, ChunkSafe, InPlace, ChunkSpent
  <2>4. CASE Read(c) /\ ~ (remain(c) <= 0)
    <3>1. PICK k \in 1..Buf :
            /\ pc' = [pc EXCEPT ![c] = "write"]
            /\ hand' = [hand EXCEPT ![c] = IF remain(c) < k THEN remain(c) ELSE k]
            /\ finished' = [finished EXCEPT ![c] = remain(c) < k]
      BY <2>4 DEF Read, Reads
    <3>2. pc'[c] = "write" /\ spos'[c] = spos[c] /\ send'[c] = send[c] /\ end'[c] = end[c]
      BY <1>1, <3>1
    <3>3. finished'[c] => hand'[c] = remain(c)
      BY <3>1 DEF TypeFlags
    <3>4. InPlace(c)'
      BY <1>2, <1>3, <2>4, <3>2 DEF Read, InPlace
    <3>5. ChunkSpent(c)'
      BY <1>3, <3>2, <3>3, ConnTypes DEF ChunkSpent
    <3> QED
      BY <3>4, <3>5 DEF ChunkSafe
  <2> QED
    BY <2>1, <2>2, <2>3, <2>4
<1>5. \A d \in Conns : d # c => pc'[d] = pc[d] /\ hand'[d] = hand[d] /\ finished'[d] = finished[d]
  <2>1. CASE Read(c)
    BY <2>1 DEF Read, TypeFlags
  <2>2. CASE Eof(c) \/ RespondOK(c)
    BY <2>2 DEF Eof, RespondOK
  <2> QED
    BY <2>1, <2>2
<1> QED
  BY <1>1, <1>4, <1>5, OneChunk

\* The write and the update of the counters.
LEMMA WriteChunk ==
  ASSUME IInv, ChunksSafe, NEW c \in Conns, Write(c) \/ Account(c)
  PROVE  ChunksSafe'
<1> USE DEF conns, IInv, TypeOK, TypeConns, TypeLocals
<1>1. UNCHANGED <<begin, end, send, finished>> /\ InPlace(c) /\ ChunkSpent(c)
  BY DEF Write, Account, ChunksSafe, ChunkSafe
<1>2. CASE Write(c)
  <2>1. ChunkSafe(c)'
    BY <1>1, <1>2 DEF Write, ChunkSafe, InPlace, ChunkSpent, remain, rangeStart
  <2> QED
    BY <1>2, <2>1, OneChunk DEF Write
<1>3. CASE Account(c)
  <2>1. /\ pc[c] = "account" /\ got'[c] = got[c] + hand[c] /\ spos'[c] = spos[c] + hand[c] /\ hand'[c] = 0
        /\ pc'[c] = IF finished[c] THEN "help" ELSE "read"
    BY <1>3 DEF Account
  <2>2. rangeStart(c)' = rangeStart(c) + hand[c] /\ remain(c)' = remain(c) - hand[c]
    BY <1>1, <2>1, ConnTypes DEF rangeStart, remain
  <2>3. InPlace(c)'
    BY <1>1, <2>1, <2>2 DEF InPlace
  <2>4. ChunkSpent(c)'
    BY <1>1, <2>1, <2>2, ConnTypes DEF ChunkSpent
  <2> QED
    BY <1>1, <1>3, <2>3, <2>4, OneChunk DEF Account, ChunkSafe
<1> QED
  BY <1>2, <1>3

\* What a thief takes from the connection r, and when.
LEMMA StealFacts ==
  ASSUME IInv, ChunksSafe, NEW c \in Conns, Steal(c)
  PROVE  /\ UNCHANGED <<nconn, total, cstate, spos, send, hand, finished, written>>
         /\ pc[c] = "help" /\ c \in Existing /\ remain(c) = 0 /\ hand[c] = 0
         /\ pc' = [pc EXCEPT ![c] = "request"]
         /\ \E r \in Existing \ {c} :
              /\ cstate[r] # "completed" /\ remain(r) >= 3
              /\ stolenFrom(r) \in Int /\ rangeStart(r) <= stolenFrom(r) /\ stolenFrom(r) <= end[r]
              /\ begin'[c] = stolenFrom(r) /\ end'[c] = end[r] /\ got'[c] = 0
              /\ begin'[r] = begin[r] /\ end'[r] = stolenFrom(r) - 1 /\ got'[r] = got[r]
              /\ \A d \in Conns : d # c /\ d # r =>
                   begin'[d] = begin[d] /\ end'[d] = end[d] /\ got'[d] = got[d]
<1> USE DEF IInv, TypeOK, TypeConns, TypeLocals
<1>1. /\ UNCHANGED <<nconn, total, cstate, spos, send, hand, finished, written>>
      /\ pc[c] = "help" /\ pc' = [pc EXCEPT ![c] = "request"]
  BY DEF Steal, out
<1>2. c \in Existing /\ hand[c] = 0 /\ remain(c) <= 0
  BY <1>1, ActiveConn, ConnTypes DEF ChunksSafe, ChunkSafe, ChunkSpent, HandHeld
<1>3. remain(c) = 0
  BY <1>2, ExistingTypes
<1>4. PICK r \in Stealable(c) :
        /\ begin' = [begin EXCEPT ![c] = stolenFrom(r)]
        /\ end' = [end EXCEPT ![c] = end[r], ![r] = stolenFrom(r) - 1]
        /\ got' = [got EXCEPT ![c] = 0]
  BY DEF Steal
<1>5. r \in Existing /\ r \in Conns /\ r # c /\ remain(r) >= 3 /\ cstate[r] # "completed"
  BY <1>4, ConstantsOK, StealLeavesABuffer, ExistingTypes DEF ConstantsOK, Stealable
<1>6. stolenFrom(r) \in Int /\ rangeStart(r) <= stolenFrom(r) /\ stolenFrom(r) <= end[r]
  BY <1>5, ConnTypes DEF stolenFrom, remain, rangeStart
<1>7. /\ begin'[c] = stolenFrom(r) /\ end'[c] = end[r] /\ got'[c] = 0
      /\ begin'[r] = begin[r] /\ end'[r] = stolenFrom(r) - 1 /\ got'[r] = got[r]
      /\ \A d \in Conns : d # c /\ d # r => begin'[d] = begin[d] /\ end'[d] = end[d] /\ got'[d] = got[d]
  BY <1>4, <1>5
<1> QED
  BY <1>1, <1>2, <1>3, <1>5, <1>6, <1>7

LEMMA StealChunk ==
  ASSUME IInv, ChunksSafe, NEW c \in Conns, Steal(c)
  PROVE  ChunksSafe'
<1>1. PICK r \in Existing \ {c} :
        /\ stolenFrom(r) \in Int /\ stolenFrom(r) <= end[r]
        /\ begin'[r] = begin[r] /\ end'[r] = stolenFrom(r) - 1 /\ got'[r] = got[r]
        /\ \A d \in Conns : d # c /\ d # r => begin'[d] = begin[d] /\ end'[d] = end[d] /\ got'[d] = got[d]
  BY StealFacts
<1>2. UNCHANGED <<spos, send, hand, finished>> /\ pc' = [pc EXCEPT ![c] = "request"]
  BY StealFacts
<1>3. ASSUME NEW d \in Conns PROVE ChunkSafe(d)'
  <2>1. CASE d = c
    BY <1>2, <2>1 DEF ChunkSafe, InPlace, ChunkSpent, IInv, TypeOK, TypeLocals
  <2>2. CASE d # c
    <3>1. begin'[d] = begin[d] /\ got'[d] = got[d] /\ end'[d] \in Int /\ end'[d] <= end[d]
      BY <1>1, <2>2, ConnTypes
    <3> QED
      BY <1>2, <2>2, <3>1, StillChunk DEF ChunksSafe, IInv, TypeOK, TypeLocals
  <2> QED
    BY <2>1, <2>2
<1> QED
  BY <1>3 DEF ChunksSafe

\* What the slot n of a new connection gets from the connection m.
LEMMA SplitFacts ==
  ASSUME IInv, SplitOne
  PROVE  /\ UNCHANGED <<got, total, cstate, pc, spos, send, hand, finished, written>>
         /\ nconn' = nconn + 1 /\ nconn \in Conns /\ got[nconn] = 0 /\ pc[nconn] = "gone"
         /\ \E m \in Existing, s \in Int :
              /\ cstate[m] # "completed" /\ rangeStart(m) <= s /\ s <= end[m]
              /\ begin'[nconn] = s + 1 /\ end'[nconn] = end[m]
              /\ begin'[m] = begin[m] /\ end'[m] = s
              /\ \A d \in Conns : d # nconn /\ d # m => begin'[d] = begin[d] /\ end'[d] = end[d]
<1> USE DEF IInv, TypeOK, TypeConns, TypeLocals
<1>1. nconn \in Conns /\ nconn \in Nat /\ got[nconn] = 0 /\ pc[nconn] = "gone"
  BY SlotLeft DEF SplitOne, BlankSlots
<1>2. PICK n \in Conns : n = nconn
  BY <1>1
<1>3. UNCHANGED <<got, total, cstate, pc, spos, send, hand, finished, written>> /\ nconn' = nconn + 1
  BY DEF SplitOne, out, rest
<1>4. PICK m \in Splittable :
        /\ begin' = [begin EXCEPT ![nconn] = secondHalf(end[m] - (remain(m) \div 2))]
        /\ end' = [end EXCEPT ![nconn] = end[m], ![m] = end[m] - (remain(m) \div 2)]
  BY DEF SplitOne
<1> DEFINE s == end[m] - (remain(m) \div 2)
<1>5. m \in Existing /\ m \in Conns /\ m # nconn /\ remain(m) >= 3 /\ cstate[m] # "completed"
  BY <1>1, <1>4, ConstantsOK, StealLeavesABuffer, ExistingTypes DEF ConstantsOK, Splittable
<1>6. s \in Int /\ rangeStart(m) <= s /\ s <= end[m]
  BY <1>5, ConnTypes DEF remain, rangeStart
<1>7. /\ begin'[n] = s + 1 /\ end'[n] = end[m] /\ begin'[m] = begin[m] /\ end'[m] = s
      /\ \A d \in Conns : d # n /\ d # m => begin'[d] = begin[d] /\ end'[d] = end[d]
  BY <1>2, <1>4, <1>5 DEF secondHalf
<1> HIDE DEF s
<1> QED
  BY <1>1, <1>2, <1>3, <1>5, <1>6, <1>7

LEMMA SplitChunk ==
  ASSUME IInv, ChunksSafe, SplitOne
  PROVE  ChunksSafe'
<1>1. PICK m \in Existing, s \in Int :
        /\ rangeStart(m) <= s /\ s <= end[m] /\ begin'[m] = begin[m] /\ end'[m] = s
        /\ \A d \in Conns : d # nconn /\ d # m => begin'[d] = begin[d] /\ end'[d] = end[d]
  BY SplitFacts
<1>2. UNCHANGED <<got, pc, spos, send, hand, finished>> /\ nconn \in Conns /\ pc[nconn] = "gone"
  BY SplitFacts
<1>3. ASSUME NEW d \in Conns PROVE ChunkSafe(d)'
  <2>1. CASE d = nconn
    BY <1>2, <2>1 DEF ChunkSafe, InPlace, ChunkSpent
  <2>2. CASE d # nconn
    <3>1. begin'[d] = begin[d] /\ end'[d] \in Int /\ end'[d] <= end[d]
      BY <1>1, <2>2, ConnTypes
    <3> QED
      BY <1>2, <2>2, <3>1, StillChunk DEF ChunksSafe
  <2> QED
    BY <2>1, <2>2
<1> QED
  BY <1>3 DEF ChunksSafe

\* The first chunk is a new connection's.
LEMMA FirstFacts ==
  ASSUME IInv, FirstConn
  PROVE  /\ UNCHANGED <<got, cstate, spos, send, hand, finished, written>> /\ nconn = 0 /\ nconn' = 1
         /\ 0 \in Conns /\ got[0] = 0 /\ begin'[0] = dataPos /\ end'[0] = Size - 1
         /\ total' = [total EXCEPT ![0] = dataPos] /\ pc'[0] = "start"
         /\ dataPos \in Nat /\ dataPos < Size
         /\ \A d \in Conns : d # 0 => pc'[d] = pc[d] /\ begin'[d] = begin[d] /\ end'[d] = end[d]
<1> USE DEF IInv, TypeOK, TypeConns, TypeLocals
<1>1. 0 \in Conns /\ got[0] = 0 /\ dataPos \in Nat /\ dataPos < Size
  BY ConstantsOK DEF ConstantsOK, Conns, BlankSlots, FirstConn, TypeOut
<1> QED
  BY <1>1 DEF FirstConn, out, rest

LEMMA FirstChunk ==
  ASSUME IInv, ChunksSafe, FirstConn
  PROVE  ChunksSafe'
<1>1. ChunkSafe(0)'
  BY FirstFacts DEF ChunkSafe, InPlace, ChunkSpent
<1> QED
  BY <1>1, FirstFacts, OneChunk

\* Steps that change no chunk and no counter, and put no connection into a response.
CountFrame ==
  /\ UNCHANGED <<nconn, begin, end, got, total, spos, send, finished>>
  /\ \A d \in Conns : \/ pc'[d] = pc[d] /\ hand'[d] = hand[d]
                      \/ pc'[d] \in {"gone", "start", "request", "backoff"}

LEMMA FrameSteps ==
  ASSUME IInv,
         \/ \E c \in Conns :
              \/ ConnStart(c) \/ ConnCancelled(c) \/ BackoffOver(c) \/ Complete(c)
              \/ ConnFault(c)
         \/ LoopStep /\ ~FirstConn /\ ~SplitOne
         \/ \E a \in Attempts : ExtraStep(a)
         \/ PrefetchRead \/ PrefetchEnd \/ StartCalled \/ StartFails \/ PauseCalled \/ OpStep \/ WatchResult
         \/ UNCHANGED vars
  PROVE  CountFrame
<1> USE DEF conns, locals, CountFrame
<1>1. ASSUME NEW c \in Conns, ConnStart(c) \/ ConnCancelled(c) \/ BackoffOver(c) \/ Complete(c)
      PROVE  CountFrame
  BY <1>1 DEF ConnStart, ConnCancelled, BackoffOver, Complete, WgDone, IInv, TypeOK, TypeLocals
<1>2. ASSUME NEW c \in Conns, ConnFault(c)
      PROVE  CountFrame
  <2>1. CASE RespondForbidden(c) \/ RespondCounted(c)
    BY <2>1 DEF RespondForbidden, RespondCounted, WgDone, IInv, TypeOK, TypeLocals
  <2>2. CASE Transient(c)
    BY <2>2 DEF Transient, IInv, TypeOK, TypeLocals
  <2> QED
    BY <1>2, <2>1, <2>2 DEF ConnFault
<1>3. CASE LoopStep /\ ~FirstConn /\ ~SplitOne
  BY <1>3 DEF LoopStep, LoopBegin, resumeConnections, LoopExpand, MaxReached, AllPrefetched, SplitEnds,
     LaunchBatch, LoopCancelled, LoopWaited, LoopCloses, rest
<1>4. CASE \E a \in Attempts : ExtraStep(a)
  BY <1>4 DEF ExtraStep, ExtraWaits, ExtraWakes, ExtraChecks, ExtraCompletes, rest
<1>5. CASE \/ PrefetchRead \/ PrefetchEnd \/ StartCalled \/ StartFails \/ PauseCalled \/ OpStep \/ WatchResult
           \/ UNCHANGED vars
  BY <1>5 DEF PrefetchRead, PrefetchEnd, StartCalled, StartFails, PauseCalled, OpStep, StartOpens, StartRuns, PauseEnds,
     WatchResult, vars
<1> QED
  BY <1>1, <1>2, <1>3, <1>4, <1>5


----------------------------------------------------------------------------
(* The counters add up *)

\* What the sums range over.
Rest == [c \in Conns |-> remain(c)]

SumsTyped ==
  /\ IsFiniteSet(Existing) /\ Existing \subseteq Conns /\ nconn \in Nat
  /\ \A d \in Existing : total[d] \in Nat /\ Rest[d] \in Nat /\ Rest[d] = remain(d)
  /\ Left = SumOver(Rest, Existing)

LEMMA SumsAreTyped == IInv => SumsTyped
<1> SUFFICES ASSUME IInv PROVE SumsTyped
  OBVIOUS
<1>1. nconn \in Nat /\ Existing \subseteq Conns
  BY ConstantsOK, ExistingTypes DEF ConstantsOK, IInv, TypeOK, TypeConns
<1>2. IsFiniteSet(Existing)
  BY <1>1, FS_Interval DEF Existing
<1>3. ASSUME NEW d \in Existing PROVE total[d] \in Nat /\ Rest[d] \in Nat /\ Rest[d] = remain(d)
  <2>1. d \in Conns /\ remain(d) \in Int /\ hand[d] \in Nat /\ hand[d] <= remain(d)
    BY ExistingTypes, ConnTypes
  <2> QED
    BY <2>1 DEF Rest, IInv, TypeOK, TypeConns
<1>4. Left = SumOver(Rest, Existing)
  BY DEF Left, Rest
<1> QED
  BY <1>1, <1>2, <1>3, <1>4 DEF SumsTyped

LEMMA SumTypes ==
  ASSUME IInv
  PROVE  /\ IsFiniteSet(Existing) /\ Existing \subseteq Conns /\ nconn \in Nat
         /\ \A d \in Existing : total[d] \in Nat /\ Rest[d] \in Nat /\ Rest[d] = remain(d)
         /\ Left = SumOver(Rest, Existing)
BY SumsAreTyped DEF SumsTyped

LEMMA SumTypesNext ==
  ASSUME IInv'
  PROVE  /\ IsFiniteSet(Existing') /\ \A d \in Existing' : total'[d] \in Nat /\ Rest'[d] \in Nat
         /\ Left' = SumOver(Rest', Existing')
<1>1. SumsTyped'
  BY SumsAreTyped, PTL
<1> QED
  BY <1>1 DEF SumsTyped

\* The part of CountInv about the counters.
CountsHold == Accounting /\ \A c \in Conns : c >= nconn => total[c] = 0

\* Nothing is counted.
LEMMA FrameCounts ==
  ASSUME CountsHold, UNCHANGED <<nconn, begin, end, got, total>>
  PROVE  CountsHold'
BY DEF CountsHold, Accounting, Downloaded, Left, Existing, remain

\* Bytes move from what is left to what is downloaded.
LEMMA AccountCounts ==
  ASSUME IInv, IInv', CountsHold, NEW c \in Conns, Account(c)
  PROVE  CountsHold'
<1>1. c \in Existing /\ nconn > 0 /\ hand[c] \in Nat
  BY ActiveConn, ConnTypes DEF Account
<1>2. /\ nconn' = nconn /\ Existing' = Existing
      /\ total'[c] = total[c] + hand[c] /\ remain(c)' = remain(c) - hand[c]
      /\ \A d \in Conns : d # c => total'[d] = total[d] /\ remain(d)' = remain(d)
  <2>1. UNCHANGED <<nconn, begin, end>>
    BY DEF Account
  <2>2. /\ total'[c] = total[c] + hand[c] /\ got'[c] = got[c] + hand[c]
        /\ \A d \in Conns : d # c => total'[d] = total[d] /\ got'[d] = got[d]
    BY DEF Account, IInv, TypeOK, TypeConns
  <2> QED
    BY <2>1, <2>2, ConnTypes DEF Existing, remain
<1>3. /\ Rest'[c] = Rest[c] - hand[c]
      /\ \A d \in Conns : d # c => Rest'[d] = Rest[d]
  BY <1>2 DEF Rest
<1>4. /\ SumOver(total, Existing) = total[c] + SumOver(total, Existing \ {c})
      /\ SumOver(total, Existing) \in Nat /\ SumOver(total, Existing \ {c}) \in Nat
  BY <1>1, SumTypes, SumTake
<1>5. /\ SumOver(Rest, Existing) = Rest[c] + SumOver(Rest, Existing \ {c})
      /\ SumOver(Rest, Existing) \in Nat /\ SumOver(Rest, Existing \ {c}) \in Nat
  BY <1>1, SumTypes, SumTake
<1>6. /\ \A d \in Existing : total'[d] \in Nat /\ Rest'[d] \in Nat
      /\ Left' = SumOver(Rest', Existing)
  <2>1. /\ \A d \in Existing' : total'[d] \in Nat /\ Rest'[d] \in Nat
        /\ Left' = SumOver(Rest', Existing')
    BY SumTypesNext
  <2> QED
    BY <1>2, <2>1
<1>7. SumOver(total', Existing) = total'[c] + SumOver(total', Existing \ {c})
  BY <1>1, <1>6, SumTypes, SumTake
<1>8. SumOver(Rest', Existing) = Rest'[c] + SumOver(Rest', Existing \ {c})
  BY <1>1, <1>6, SumTypes, SumTake
<1>9. /\ SumOver(total', Existing \ {c}) = SumOver(total, Existing \ {c})
      /\ SumOver(Rest', Existing \ {c}) = SumOver(Rest, Existing \ {c})
  BY <1>2, <1>3, SumTypes, SumSame
<1>10. Downloaded + Left = Size
  BY <1>1 DEF CountsHold, Accounting
<1>11. Downloaded = SumOver(total, Existing) /\ Left = SumOver(Rest, Existing)
  BY SumTypes DEF Downloaded
<1>12. Downloaded' = SumOver(total', Existing)
  BY <1>2 DEF Downloaded
<1>13. total[c] \in Nat /\ Rest[c] \in Nat
  BY <1>1, SumTypes
<1>14. Downloaded' + Left' = Downloaded + Left
  <2>1. Downloaded' = Downloaded + hand[c]
    BY <1>1, <1>2, <1>4, <1>7, <1>9, <1>11, <1>12, <1>13
  <2>2. Left' = Left - hand[c]
    BY <1>1, <1>3, <1>5, <1>6, <1>8, <1>9, <1>11, <1>13
  <2> QED
    BY <1>1, <1>4, <1>5, <1>11, <2>1, <2>2
<1> QED
  BY <1>2, <1>10, <1>14, ActiveConn DEF CountsHold, Accounting, Account

\* What the thief takes is what the victim gives up: only chunks change, and the
\* two together have what they had.
LEMMA StealCounts ==
  ASSUME IInv, IInv', ChunksSafe, CountsHold, NEW c \in Conns, Steal(c)
  PROVE  CountsHold'
<1>1. /\ UNCHANGED <<nconn, total>> /\ Existing' = Existing /\ c \in Existing /\ remain(c) = 0
  BY StealFacts DEF Existing
<1>2. PICK r \in Existing \ {c} :
        /\ stolenFrom(r) \in Int /\ rangeStart(r) <= stolenFrom(r) /\ stolenFrom(r) <= end[r]
        /\ begin'[c] = stolenFrom(r) /\ end'[c] = end[r] /\ got'[c] = 0
        /\ begin'[r] = begin[r] /\ end'[r] = stolenFrom(r) - 1 /\ got'[r] = got[r]
        /\ \A d \in Conns : d # c /\ d # r =>
             begin'[d] = begin[d] /\ end'[d] = end[d] /\ got'[d] = got[d]
  BY StealFacts
<1>3. r \in Conns /\ begin[r] \in Nat /\ end[r] \in Int /\ got[r] \in Nat
  BY <1>2, ExistingTypes
<1>4. Rest[c] = 0 /\ Rest'[c] + Rest'[r] = Rest[r] /\ Rest[r] \in Nat
  <2>1. remain(c)' + remain(r)' = remain(r)
    BY <1>2, <1>3 DEF remain, rangeStart
  <2> QED
    BY <1>1, <1>2, <1>3, <2>1, SumTypes DEF Rest
<1>5. \A d \in Conns : d # c /\ d # r => Rest'[d] = Rest[d]
  BY <1>2 DEF Rest, remain
<1> DEFINE O == Existing \ {c}
           P == O \ {r}
<1>6. /\ IsFiniteSet(Existing) /\ IsFiniteSet(O)
      /\ \A d \in Existing : Rest[d] \in Nat
      /\ Left = SumOver(Rest, Existing)
  BY SumTypes, FS_RemoveElement
<1>7. (\A d \in Existing' : Rest'[d] \in Nat) /\ Left' = SumOver(Rest', Existing')
  BY SumTypesNext
<1>8. \A d \in Existing : Rest'[d] \in Nat
  BY <1>1, <1>7
<1>9. /\ SumOver(Rest, Existing) = Rest[c] + SumOver(Rest, O) /\ SumOver(Rest, O) \in Nat
      /\ SumOver(Rest', Existing) = Rest'[c] + SumOver(Rest', O) /\ SumOver(Rest', O) \in Nat
  BY <1>1, <1>6, <1>8, SumTake
<1>10. r \in O /\ (\A d \in O : Rest[d] \in Nat /\ Rest'[d] \in Nat)
  BY <1>2, <1>6, <1>8
<1> HIDE DEF O
<1>11. /\ SumOver(Rest, O) = Rest[r] + SumOver(Rest, P) /\ SumOver(Rest, P) \in Nat
       /\ SumOver(Rest', O) = Rest'[r] + SumOver(Rest', P) /\ SumOver(Rest', P) \in Nat
  BY <1>6, <1>10, SumTake
<1>12. SumOver(Rest', P) = SumOver(Rest, P)
  <2>1. \A d \in P : Rest'[d] = Rest[d]
    BY <1>5, <1>6, ExistingTypes DEF O
  <2> QED
    BY <2>1, SumSame
<1>13. Rest'[c] \in Nat /\ Rest'[r] \in Nat
  BY <1>1, <1>2, <1>8
<1>14. SumOver(Rest', Existing) = SumOver(Rest, Existing)
  BY <1>4, <1>9, <1>11, <1>12, <1>13
<1>15. Left' = Left /\ Downloaded' = Downloaded
  BY <1>1, <1>6, <1>7, <1>14 DEF Downloaded
<1> QED
  BY <1>1, <1>15 DEF CountsHold, Accounting

\* The halves of a split chunk have what it had, and the new connection counts
\* nothing yet.
LEMMA SplitCounts ==
  ASSUME IInv, IInv', CountsHold, SplitOne
  PROVE  CountsHold'
<1>1. /\ UNCHANGED <<got, total>> /\ nconn' = nconn + 1 /\ nconn \in Conns /\ got[nconn] = 0 /\ nconn > 0
  BY SplitFacts DEF SplitOne
<1>2. PICK m \in Existing, s \in Int :
        /\ rangeStart(m) <= s /\ s <= end[m]
        /\ begin'[nconn] = s + 1 /\ end'[nconn] = end[m]
        /\ begin'[m] = begin[m] /\ end'[m] = s
        /\ \A d \in Conns : d # nconn /\ d # m => begin'[d] = begin[d] /\ end'[d] = end[d]
  BY SplitFacts
<1>3. PICK n \in Conns : n = nconn
  BY <1>1
<1>4. /\ nconn \in Nat /\ n \notin Existing /\ Existing' = Existing \union {n} /\ Existing' \ {n} = Existing
      /\ n # m /\ m \in Conns /\ n \in Existing'
  BY <1>1, <1>2, <1>3, SumTypes, ExistingTypes DEF Existing
<1>5. begin[m] \in Nat /\ end[m] \in Int /\ got[m] \in Nat /\ Rest[m] \in Nat
  BY <1>2, ExistingTypes, SumTypes
<1>6. Rest'[n] + Rest'[m] = Rest[m] /\ \A d \in Existing : d # m => Rest'[d] = Rest[d]
  <2>1. remain(n)' + remain(m)' = remain(m)
    BY <1>1, <1>2, <1>3, <1>5 DEF remain, rangeStart
  <2>2. \A d \in Existing : d # m => remain(d)' = remain(d)
    BY <1>1, <1>2, <1>3, <1>4, ExistingTypes DEF remain
  <2> QED
    BY <1>4, <2>1, <2>2, ExistingTypes DEF Rest
<1> DEFINE E == Existing'
           P == Existing \ {m}
<1>7. /\ IsFiniteSet(Existing) /\ (\A d \in Existing : total[d] \in Nat /\ Rest[d] \in Nat)
      /\ Left = SumOver(Rest, Existing)
  BY SumTypes
<1>8. /\ IsFiniteSet(E) /\ (\A d \in E : total'[d] \in Nat /\ Rest'[d] \in Nat)
      /\ Left' = SumOver(Rest', E)
  BY SumTypesNext
<1> HIDE DEF E
<1>9. /\ SumOver(total', E) = total'[n] + SumOver(total', E \ {n}) /\ SumOver(total', E \ {n}) \in Nat
      /\ SumOver(Rest', E) = Rest'[n] + SumOver(Rest', E \ {n}) /\ SumOver(Rest', E \ {n}) \in Nat
  <2>1. n \in E
    BY <1>4 DEF E
  <2> QED
    BY <1>8, <2>1, SumTake
<1>10. E \ {n} = Existing /\ Existing \subseteq E /\ total'[n] = 0 /\ Rest'[n] \in Nat
  <2>1. total[n] = 0
    BY <1>1, <1>3, <1>4 DEF CountsHold
  <2> QED
    BY <1>1, <1>4, <1>8, <2>1 DEF E
<1>11. /\ SumOver(Rest, Existing) = Rest[m] + SumOver(Rest, P) /\ SumOver(Rest, P) \in Nat
       /\ SumOver(Rest', Existing) = Rest'[m] + SumOver(Rest', P) /\ SumOver(Rest', P) \in Nat
  BY <1>2, <1>7, <1>8, <1>10, SumTake
<1>12. SumOver(Rest', P) = SumOver(Rest, P)
  BY <1>6, SumSame
<1>13. Rest'[m] \in Nat
  BY <1>2, <1>8, <1>10
<1>14. SumOver(Rest', E) = SumOver(Rest, Existing)
  <2>1. SumOver(Rest', E) = Rest'[n] + (Rest'[m] + SumOver(Rest, P))
    BY <1>9, <1>10, <1>11, <1>12
  <2> QED
    BY <1>5, <1>6, <1>10, <1>11, <1>13, <2>1
<1>15. SumOver(total', E) = SumOver(total, Existing)
  <2>1. SumOver(total', Existing) = SumOver(total, Existing)
    BY <1>1, SumSame
  <2>2. SumOver(total', E) = 0 + SumOver(total', Existing) /\ SumOver(total', Existing) \in Nat
    BY <1>9, <1>10
  <2> QED
    BY <2>1, <2>2
<1>16. Left' = Left /\ Downloaded' = Downloaded
  <2>1. E = Existing'
    BY DEF E
  <2>2. Downloaded' = SumOver(total', E)
    BY <2>1 DEF Downloaded
  <2>3. Downloaded = SumOver(total, Existing)
    BY DEF Downloaded
  <2> QED
    BY <1>7, <1>8, <1>14, <1>15, <2>2, <2>3
<1>17. Downloaded + Left = Size
  BY <1>1 DEF CountsHold, Accounting
<1> QED
  BY <1>1, <1>3, <1>4, <1>16, <1>17, ConnTypes DEF CountsHold, Accounting

\* The first connection counts what the prefetch has read, and has the others.
LEMMA FirstCounts ==
  ASSUME IInv, IInv', CountsHold, FirstConn
  PROVE  CountsHold'
<1>1. /\ nconn = 0 /\ nconn' = 1 /\ 0 \in Conns /\ got'[0] = 0 /\ begin'[0] = dataPos /\ end'[0] = Size - 1
      /\ total' = [total EXCEPT ![0] = dataPos] /\ dataPos \in Nat /\ dataPos < Size
  BY FirstFacts
<1>2. Existing' = {0}
  BY <1>1 DEF Existing
<1>3. total'[0] = dataPos /\ \A d \in Conns : d # 0 => total'[d] = total[d]
  BY <1>1 DEF IInv, TypeOK, TypeConns
<1>4. Rest'[0] = Size - dataPos
  BY <1>1, ConstantsOK DEF ConstantsOK, Rest, remain
<1>5. /\ IsFiniteSet({0}) /\ (\A d \in {0} : total'[d] \in Nat /\ Rest'[d] \in Nat)
      /\ Left' = SumOver(Rest', {0})
  <2>1. /\ IsFiniteSet(Existing') /\ (\A d \in Existing' : total'[d] \in Nat /\ Rest'[d] \in Nat)
        /\ Left' = SumOver(Rest', Existing')
    BY SumTypesNext
  <2> QED
    BY <1>2, <2>1
<1>6. /\ SumOver(total', {0}) = total'[0] + SumOver(total', {0} \ {0})
      /\ SumOver(Rest', {0}) = Rest'[0] + SumOver(Rest', {0} \ {0})
  BY <1>5, SumTake
<1>7. {0} \ {0} = {} /\ SumOver(total', {}) = 0 /\ SumOver(Rest', {}) = 0
  BY SumNone
<1>8. Downloaded' + Left' = Size
  <2>1. Downloaded' = SumOver(total', {0})
    BY <1>2 DEF Downloaded
  <2>2. Downloaded' = dataPos
    <3>1. dataPos \in Nat
      BY <1>1
    <3> QED
      BY <1>3, <1>6, <1>7, <2>1, <3>1
  <2>3. Left' = Size - dataPos
    <3>1. Left' = Rest'[0] + 0
      BY <1>5, <1>6, <1>7
    <3>2. Size \in Int /\ dataPos \in Int
      BY <1>1, ConstantsOK DEF ConstantsOK
    <3> QED
      BY <1>4, <3>1, <3>2
  <2> QED
    BY <1>1, <2>2, <2>3, ConstantsOK DEF ConstantsOK
<1>9. \A d \in Conns : d >= nconn' => total'[d] = 0
  BY <1>1, <1>3, ConnTypes DEF CountsHold
<1> QED
  BY <1>8, <1>9 DEF CountsHold, Accounting

\* One step of anyone keeps CountInv.
LEMMA CountStep ==
  ASSUME IInv, IInv', CountInv, [Next]_vars
  PROVE  CountInv'
<1>1. ChunksSafe /\ CountsHold
  BY DEF CountInv, ChunksSafe, ChunkSafe, CountsHold
<1>2. CASE CountFrame
  <2>1. ChunksSafe'
    BY <1>1, <1>2, QuietChunks DEF CountFrame
  <2>2. CountsHold'
    BY <1>1, <1>2, FrameCounts DEF CountFrame
  <2> QED
    BY <2>1, <2>2 DEF CountInv, ChunksSafe, ChunkSafe, CountsHold
<1>3. ASSUME NEW c \in Conns, Request(c) \/ Read(c) \/ Eof(c) \/ RespondOK(c) \/ Write(c)
      PROVE  CountInv'
  <2>1. UNCHANGED <<nconn, begin, end, got, total>>
    BY <1>3 DEF Request, Read, Eof, RespondOK, Write, conns
  <2>2. CountsHold'
    BY <1>1, <2>1, FrameCounts
  <2>3. ChunksSafe'
    BY <1>1, <1>3, RequestChunk, ReadChunk, WriteChunk
  <2> QED
    BY <2>2, <2>3 DEF CountInv, ChunksSafe, ChunkSafe, CountsHold
<1>4. ASSUME NEW c \in Conns, Account(c) \/ Steal(c) PROVE CountInv'
  <2>1. ChunksSafe' /\ CountsHold'
    BY <1>1, <1>4, WriteChunk, AccountCounts, StealChunk, StealCounts
  <2> QED
    BY <2>1 DEF CountInv, ChunksSafe, ChunkSafe, CountsHold
<1>5. CASE FirstConn \/ SplitOne
  <2>1. ChunksSafe' /\ CountsHold'
    BY <1>1, <1>5, FirstChunk, FirstCounts, SplitChunk, SplitCounts
  <2> QED
    BY <2>1 DEF CountInv, ChunksSafe, ChunkSafe, CountsHold
<1>6. CASE UNCHANGED vars
  BY <1>2, <1>6, FrameSteps
<1>7. CASE Next
  BY <1>2, <1>3, <1>4, <1>5, <1>7, FrameSteps DEF Next, ConnStep
<1> QED
  BY <1>6, <1>7

LEMMA InitCounts == Init => CountInv
BY DEF Init, CountInv, InPlace, ChunkSpent, Accounting

\* The invariant behind Accounting, with left-over waiters, prefetches, pauses and
\* 403 answers: a connection asks for its chunk from where its counters stand, and
\* gives it up only when nothing of it is left.
THEOREM CountsInvariant == Spec => []CountInv
<1>1. IInv /\ IInv' /\ CountInv /\ [Next]_vars => CountInv'
  BY CountStep
<1> QED
  BY <1>1, InitCounts, Invariance, PTL DEF Spec

\* The bytes counted as downloaded and the bytes left are the size of the resource,
\* for every size and number of connections, at any interleaving of splits, steals,
\* failures, retries, pauses and restarts: the progress that is shown, and what
\* onDownloadComplete decides by, never drift.
THEOREM CountersAddUp == Spec => []Accounting
<1>1. CountInv => Accounting
  BY DEF CountInv
<1> QED
  BY <1>1, CountsInvariant, PTL

----------------------------------------------------------------------------
(* Done means complete *)

\* When every connection has ended and onDownloadComplete finds no error, no
\* connection has anything left, and the file holds the resource.
LEMMA EndComplete ==
  ASSUME IInv, CountInv, NoByteLost, nconn > 0, \A c \in Conns : lastErr[c] # "forbidden",
         CompletedSpent, \A c \in Existing : Ended(c), ~hasFinalErr
  PROVE  written = Bytes
<1>1. ASSUME NEW c \in Existing PROVE remain(c) <= 0
  <2>1. c \in Conns /\ remain(c) \in Int
    BY ExistingTypes
  <2>2. CASE cstate[c] = "completed"
    BY <2>1, <2>2 DEF CompletedSpent
  <2>3. CASE cstate[c] # "completed" /\ Downloaded >= Size
    <3>1. /\ SumOver(total, Existing) \in Nat
          /\ SumOver(Rest, Existing) = Rest[c] + SumOver(Rest, Existing \ {c})
          /\ SumOver(Rest, Existing) \in Nat /\ SumOver(Rest, Existing \ {c}) \in Nat
      BY SumTypes, SumTake
    <3>2. Downloaded \in Nat /\ Left \in Nat /\ Left = Rest[c] + SumOver(Rest, Existing \ {c})
      BY <3>1, SumTypes DEF Downloaded
    <3>3. Downloaded + Left = Size
      BY DEF CountInv, Accounting
    <3>4. Size \in Nat /\ Rest[c] \in Nat /\ Rest[c] = remain(c)
      BY SumTypes, ConstantsOK DEF ConstantsOK
    <3> QED
      BY <2>3, <3>1, <3>2, <3>3, <3>4
  <2>4. CASE cstate[c] # "completed" /\ ~ (Downloaded >= Size)
    <3>1. cstate[c] = "failed" /\ failed[c] /\ lastErr[c] # "forbidden"
      BY <2>4 DEF Ended
    <3>2. Downloaded < Size
      <4>1. SumOver(total, Existing) \in Nat
        BY SumTypes, SumTake
      <4> QED
        BY <2>4, <4>1, ConstantsOK DEF ConstantsOK, Downloaded
    <3>3. allChunksComplete
      BY <3>1, <3>2 DEF hasFinalErr
    <3>4. ~ (remain(c) > 0)
      BY <2>1, <2>4, <3>1, <3>3 DEF allChunksComplete
    <3> QED
      BY <2>1, <3>4
  <2> QED
    BY <2>2, <2>3, <2>4
<1>2. ASSUME NEW p \in Bytes PROVE p \in written
  <2> SUFFICES ASSUME p \notin written PROVE FALSE
    OBVIOUS
  <2>1. PICK d \in Existing : p \in Unfetched(d)
    BY DEF NoByteLost
  <2>2. d \in Conns /\ remain(d) <= 0
    BY <1>1, ExistingTypes
  <2>3. p \in Int
    BY DEF Bytes
  <2> QED
    BY <2>1, <2>2, <2>3, ConnTypes DEF Unfetched, remain
<1>3. written \subseteq Bytes
  BY DEF IInv, TypeOK, TypeOut
<1> QED
  BY <1>2, <1>3

\* How a connection's step can end it.
LEMMA ConnEnd ==
  ASSUME IInv, ChunksSafe, NEW c \in Conns, ConnStep(c) \/ ConnFault(c), lastErr[c] # "forbidden",
         "forbidden" \notin Errors
  PROVE  /\ \A d \in Conns : d # c =>
              cstate'[d] = cstate[d] /\ failed'[d] = failed[d] /\ lastErr'[d] = lastErr[d]
         /\ lastErr'[c] # "forbidden"
         /\ pc'[c] = "gone" => cancelled \/ Ended(c)'
         /\ cstate'[c] = "completed" /\ cstate[c] # "completed" => pc'[c] = "gone" /\ remain(c)' <= 0
         /\ \A d \in Conns : d # c /\ cstate[d] = "completed" => remain(d)' = remain(d)
         /\ fstate' = fstate /\ (Write(c) \/ written' = written)
         /\ UNCHANGED launched
<1> USE DEF IInv, TypeOK, TypeConns, TypeLocals, TypeFlags, conns, locals, out, slow, remain
<1>1. CASE ConnStart(c) \/ ConnCancelled(c) \/ BackoffOver(c)
  BY <1>1 DEF ConnStart, ConnCancelled, BackoffOver, WgDone
<1>2. CASE Request(c) \/ Read(c) \/ Eof(c) \/ Write(c)
  BY <1>2 DEF Request, Read, Eof, Write
<1>3. CASE RespondOK(c)
  BY <1>3 DEF RespondOK, onConnectSuccess
<1>4. CASE Account(c)
  BY <1>4 DEF Account
<1>5. CASE Steal(c)
  <2>1. \A d \in Conns : d # c /\ cstate[d] = "completed" => remain(d)' = remain(d)
    <3>1. PICK r \in Existing \ {c} :
            /\ cstate[r] # "completed"
            /\ \A d \in Conns : d # c /\ d # r =>
                 begin'[d] = begin[d] /\ end'[d] = end[d] /\ got'[d] = got[d]
      BY <1>5, StealFacts
    <3> QED
      BY <3>1
  <2>2. UNCHANGED <<cstate, failed, lastErr, launched, fstate, written>> /\ pc'[c] = "request"
    BY <1>5 DEF Steal
  <2> HIDE DEF remain
  <2> QED
    BY <2>1, <2>2
<1>6. CASE Complete(c)
  <2>1. remain(c) <= 0
    BY <1>6, ConnTypes DEF Complete, HandHeld, ChunksSafe, ChunkSafe, ChunkSpent
  <2>2. cstate'[c] = "completed" /\ pc'[c] = "gone"
    BY <1>6 DEF Complete, WgDone
  <2> QED
    BY <1>6, <2>1, <2>2 DEF Complete, Ended
<1>7. CASE RespondForbidden(c)
  BY <1>7 DEF RespondForbidden
<1>8. CASE RespondCounted(c)
  <2>1. cstate'[c] = "failed" /\ failed'[c] /\ lastErr'[c] = "counted"
    BY <1>8 DEF RespondCounted
  <2> QED
    BY <1>8, <2>1 DEF RespondCounted, onConnectFailed, Ended
<1>9. CASE Transient(c)
  BY <1>9 DEF Transient
<1> QED
  BY <1>1, <1>2, <1>3, <1>4, <1>5, <1>6, <1>7, <1>8, <1>9 DEF ConnStep, ConnFault

\* One step of a connection keeps EndInv.
LEMMA ConnEnds ==
  ASSUME IInv, IInv', BytesInv, EndInv, NEW c \in Conns, ConnStep(c) \/ ConnFault(c),
         "forbidden" \notin Errors
  PROVE  EndInv'
<1> USE DEF EndInv
<1>1. /\ pc[c] # "gone"
      /\ UNCHANGED <<nconn, loop, cancelled, file, op>>
      /\ \A d \in Conns : d # c => pc'[d] = pc[d]
      /\ extra' = extra \/ WgDone(c)
  BY ConnShape
<1>2. /\ c \in Existing /\ nconn > 0
      /\ loop \in {"split", "commit"} => c < launched
  BY <1>1, ActiveConn, ConnTypes
<1>3. /\ \A d \in Conns : d # c =>
           cstate'[d] = cstate[d] /\ failed'[d] = failed[d] /\ lastErr'[d] = lastErr[d]
      /\ lastErr'[c] # "forbidden"
      /\ pc'[c] = "gone" => cancelled \/ Ended(c)'
      /\ cstate'[c] = "completed" /\ cstate[c] # "completed" => pc'[c] = "gone" /\ remain(c)' <= 0
      /\ \A d \in Conns : d # c /\ cstate[d] = "completed" => remain(d)' = remain(d)
      /\ fstate' = fstate /\ (Write(c) \/ written' = written)
      /\ UNCHANGED launched
  <2>1. ChunksSafe
    BY DEF BytesInv, ConnsSafe, ChunksSafe, ChunkSafe
  <2> QED
    BY <2>1, ConnEnd
<1>4. \A d \in Conns : lastErr'[d] # "forbidden"
  BY <1>3
<1>5. Awaited' => Awaited
  BY <1>1 DEF Awaited, WgDone
<1>9. GoneEnded'
  <2> SUFFICES ASSUME NEW d \in Existing', pc'[d] = "gone", ~cancelled', loop' # "begin",
                      Awaited', loop' \in {"split", "commit"} => d < launched'
               PROVE  Ended(d)'
    BY DEF GoneEnded
  <2>1. d \in Existing /\ d \in Conns
    BY <1>1, ExistingTypes DEF Existing
  <2>2. CASE d = c
    BY <1>1, <1>3, <2>2
  <2>3. CASE d # c
    <3>1. Ended(d)
      BY <1>1, <1>3, <1>5, <2>1, <2>3 DEF GoneEnded
    <3> QED
      BY <1>3, <2>1, <2>3, <3>1 DEF Ended
  <2> QED
    BY <2>2, <2>3
<1>6. CompletedSpent'
  <2> SUFFICES ASSUME NEW d \in Conns, cstate'[d] = "completed"
               PROVE  /\ pc'[d] = "gone" /\ d < nconn' /\ remain(d)' <= 0
                      /\ loop' \in {"split", "commit"} => d < launched'
    BY DEF CompletedSpent
  <2>1. CASE d = c
    <3>1. cstate[c] # "completed"
      BY <1>1 DEF CompletedSpent
    <3>2. c < nconn
      BY <1>1, ActiveConn
    <3> QED
      BY <1>1, <1>2, <1>3, <2>1, <3>1, <3>2
  <2>2. CASE d # c
    BY <1>1, <1>3, <2>2 DEF CompletedSpent
  <2> QED
    BY <2>1, <2>2
<1>7. WaitersEnded'
  <2>1. ASSUME NEW a \in Attempts PROVE extra'[a] # "passed"
    <3>1. extra[a] # "passed"
      BY <1>1 DEF BytesInv, WaitersIdle
    <3> QED
      BY <1>1, <3>1 DEF WgDone, IInv, TypeOK, TypeLoop
  <2> QED
    BY <1>1, <1>2, <2>1 DEF WaitersEnded
<1>8. DoneMeansComplete'
  <2> SUFFICES ASSUME fstate' = "done" PROVE written' = Bytes
    BY DEF DoneMeansComplete
  <2>1. written = Bytes
    BY <1>3 DEF DoneMeansComplete
  <2>2. CASE written' = written
    BY <2>1, <2>2
  <2>3. CASE Write(c)
    <3>1. written \subseteq written'
      BY <1>1, <2>3 DEF Write, BytesInv, FileHeld, ConnsSafe, InPlace, rangeStart
    <3>2. written' \subseteq Bytes
      BY DEF IInv, TypeOK, TypeOut, Bytes
    <3> QED
      BY <2>1, <3>1, <3>2
  <2> QED
    BY <1>3, <2>2, <2>3
<1> QED
  BY <1>4, <1>6, <1>7, <1>8, <1>9


\* A step that moves no connection keeps what EndInv says of the connections that
\* it did not already look at.
LEMMA StillEnds ==
  ASSUME IInv, EndInv, UNCHANGED <<nconn, begin, end, got, cstate, failed, lastErr, pc>>,
         cancelled => cancelled',
         loop' = "begin" \/ loop # "begin",
         Awaited' => Awaited,
         \/ loop' = loop /\ launched' = launched
         \/ loop' \notin {"split", "commit"} /\ loop \notin {"split", "commit"}
         \/ loop = "expand" /\ launched' = launched
         \/ loop = "split" /\ loop' = "commit" /\ launched' = launched
  PROVE  (\A c \in Conns : lastErr[c] # "forbidden")' /\ GoneEnded' /\ CompletedSpent'
<1> USE DEF EndInv
<1>1. \A c \in Conns : lastErr'[c] # "forbidden"
  OBVIOUS
<1>2. nconn \in Nat /\ (loop = "expand" => launched = nconn)
  BY SumTypes DEF IInv, LaunchedCount
<1>3. GoneEnded'
  <2> SUFFICES ASSUME NEW d \in Existing', pc'[d] = "gone", ~cancelled', loop' # "begin",
                      Awaited', loop' \in {"split", "commit"} => d < launched'
               PROVE  Ended(d)'
    BY DEF GoneEnded
  <2>1. d \in Existing
    BY DEF Existing
  <2>2. Ended(d)
    BY <2>1 DEF GoneEnded
  <2> QED
    BY <2>2 DEF Ended
<1>4. CompletedSpent'
  BY <1>2 DEF CompletedSpent, remain
<1> QED
  BY <1>1, <1>3, <1>4

\* The loop's steps that launch, create or resume connections.
LEMMA BeginEnds ==
  ASSUME IInv, EndInv, LoopBegin
  PROVE  (\A c \in Conns : lastErr[c] # "forbidden")' /\ GoneEnded' /\ CompletedSpent'
<1> USE DEF EndInv, conns, out, slow, rest, env
<1>1. nconn \in Nat
  BY SumTypes
<1>2. CASE ~ (nconn > 0)
  <2>1. UNCHANGED <<nconn, begin, end, got, cstate, failed, lastErr, pc>> /\ Existing' = {} /\ loop' = "expand"
    BY <1>1, <1>2 DEF LoopBegin, Existing
  <2> QED
    BY <2>1 DEF GoneEnded, CompletedSpent, remain
<1>3. CASE nconn > 0
  <2>1. /\ UNCHANGED <<nconn, begin, end, got, lastErr>> /\ loop' = "wait"
        /\ \A c \in Conns : IF c \in Existing /\ Resumable(c)
                            THEN cstate'[c] = "notStarted" /\ pc'[c] = "start"
                            ELSE cstate'[c] = cstate[c] /\ pc'[c] = pc[c] /\ failed'[c] = failed[c]
    BY <1>3 DEF LoopBegin, resumeConnections
  <2>2. GoneEnded'
    <3> SUFFICES ASSUME NEW d \in Existing', pc'[d] = "gone" PROVE Ended(d)'
      BY DEF GoneEnded
    <3>1. d \in Existing /\ d \in Conns
      BY <2>1, ExistingTypes DEF Existing
    <3>2. ~Resumable(d)
      BY <2>1, <3>1
    <3>3. cstate'[d] = cstate[d] /\ failed'[d] = failed[d] /\ lastErr'[d] = lastErr[d]
      BY <2>1, <3>1, <3>2
    <3>4. Ended(d)
      BY <3>1, <3>2 DEF Resumable, Ended
    <3> QED
      BY <3>3, <3>4 DEF Ended
  <2>3. CompletedSpent'
    BY <2>1 DEF CompletedSpent, remain
  <2> QED
    BY <2>1, <2>2, <2>3
<1> QED
  BY <1>2, <1>3

LEMMA NewEnds ==
  ASSUME IInv, EndInv, FirstConn \/ SplitOne \/ LaunchBatch
  PROVE  (\A c \in Conns : lastErr[c] # "forbidden")' /\ GoneEnded' /\ CompletedSpent'
<1> USE DEF EndInv
<1>1. nconn \in Nat /\ Awaited /\ cancelled' = cancelled /\ UNCHANGED <<cstate, failed, lastErr>>
  BY SumTypes DEF FirstConn, SplitOne, LaunchBatch, conns, rest, Awaited
<1>2. CASE FirstConn
  <2>1. GoneEnded'
    <3>1. Existing' = {0} /\ pc'[0] = "start"
      BY <1>2, FirstFacts DEF Existing
    <3> QED
      BY <3>1 DEF GoneEnded
  <2>2. CompletedSpent'
    <3>1. \A d \in Conns : cstate[d] # "completed"
      BY <1>2, FirstFacts, ConnTypes DEF CompletedSpent
    <3> QED
      BY <1>1, <3>1 DEF CompletedSpent
  <2> QED
    BY <1>1, <2>1, <2>2
<1>3. CASE SplitOne
  <2>1. launched' = launched /\ loop \in {"expand", "split"} /\ loop' = "split" /\ launched \in Nat /\ launched <= nconn
    BY <1>3, SlotLeft DEF SplitOne, slow
  <2>2. /\ UNCHANGED <<got, pc>> /\ nconn' = nconn + 1 /\ nconn \in Conns
    BY <1>3, SplitFacts
  <2>3. PICK m \in Existing :
          /\ cstate[m] # "completed"
          /\ \A d \in Conns : d # nconn /\ d # m => begin'[d] = begin[d] /\ end'[d] = end[d]
    BY <1>3, SplitFacts
  <2>4. GoneEnded'
    <3> SUFFICES ASSUME NEW d \in Existing', pc'[d] = "gone", ~cancelled', d < launched'
                 PROVE  Ended(d)'
      BY <2>1 DEF GoneEnded
    <3>1. d \in Existing
      BY <1>1, <2>1, <2>2 DEF Existing
    <3>2. Ended(d)
      BY <1>1, <2>1, <2>2, <3>1 DEF GoneEnded
    <3> QED
      BY <1>1, <3>2 DEF Ended
  <2>5. CompletedSpent'
    <3> SUFFICES ASSUME NEW d \in Conns, cstate[d] = "completed"
                 PROVE  pc[d] = "gone" /\ d < nconn + 1 /\ remain(d)' <= 0 /\ d < launched
      BY <1>1, <2>1, <2>2 DEF CompletedSpent
    <3>1. pc[d] = "gone" /\ d < nconn /\ remain(d) <= 0 /\ (loop = "split" => d < launched)
      BY DEF CompletedSpent
    <3>2. d \in Nat /\ (loop = "expand" => launched = nconn)
      BY ConnTypes DEF IInv, LaunchedCount
    <3>3. remain(d)' = remain(d)
      BY <1>1, <2>2, <2>3, <3>1, <3>2 DEF remain
    <3> QED
      BY <1>1, <2>1, <3>1, <3>2, <3>3
  <2> QED
    BY <1>1, <2>4, <2>5
<1>4. CASE LaunchBatch
  <2>1. /\ UNCHANGED <<nconn, begin, end, got>> /\ loop = "commit" /\ loop' = "select"
        /\ launched \in Nat
        /\ \A d \in Conns : pc'[d] = IF d \in launched..(nconn - 1) THEN "start" ELSE pc[d]
    BY <1>4, ConstantsOK DEF ConstantsOK, LaunchBatch, conns, IInv, TypeOK, TypeLoop
  <2>2. GoneEnded'
    <3> SUFFICES ASSUME NEW d \in Existing', pc'[d] = "gone", ~cancelled'
                 PROVE  Ended(d)'
      BY DEF GoneEnded
    <3>1. d \in Existing /\ d \in Conns /\ d \in Int /\ d < nconn
      BY <2>1, ExistingTypes DEF Existing
    <3>2. d < launched /\ pc[d] = "gone"
      BY <1>1, <2>1, <3>1
    <3>3. Ended(d)
      BY <1>1, <2>1, <3>1, <3>2 DEF GoneEnded
    <3> QED
      BY <1>1, <3>3 DEF Ended
  <2>3. CompletedSpent'
    <3> SUFFICES ASSUME NEW d \in Conns, cstate[d] = "completed"
                 PROVE  pc'[d] = "gone" /\ d < nconn /\ remain(d)' <= 0
      BY <1>1, <2>1 DEF CompletedSpent
    <3>1. pc[d] = "gone" /\ d < nconn /\ remain(d) <= 0 /\ d < launched
      BY <2>1 DEF CompletedSpent
    <3>2. d \in Nat
      BY ConnTypes
    <3> QED
      BY <2>1, <3>1, <3>2 DEF remain
  <2> QED
    BY <1>1, <2>2, <2>3
<1> QED
  BY <1>2, <1>3, <1>4

\* While the loop is at work, no second waiter is past its last look.
LEMMA BusyWaiters ==
  ASSUME IInv, WaitersIdle, EndInv, loop \notin {"wait", "closing", "gone"} \/ op \in {"starting", "copying"},
         \A a \in Attempts : extra'[a] # extra[a] => extra'[a] = "spawned" /\ nconn' > 0,
         nconn' = nconn \/ nconn' > 0
  PROVE  WaitersEnded'
<1>1. ASSUME NEW a \in Attempts PROVE extra[a] = "gone"
  BY DEF WaitersIdle
<1> QED
  BY <1>1 DEF EndInv, WaitersEnded

LEMMA LoopEnds ==
  ASSUME IInv, IInv', BytesInv, CountInv, EndInv, LoopStep
  PROVE  EndInv'
<1> USE DEF EndInv, conns, slow, out, rest, env
<1>1. UNCHANGED <<cancelled, op>> /\ op \notin {"starting", "copying"} /\ nconn \in Nat /\ WaitersIdle
      /\ Awaited /\ (loop = "split" => launched < nconn)
  <2>1. loop # "gone" /\ UNCHANGED <<cancelled, op>>
    BY DEF LoopStep, LoopBegin, LoopExpand, MaxReached, AllPrefetched, FirstConn, SplitOne,
       SplitEnds, LaunchBatch, LoopCancelled, LoopWaited, LoopCloses
  <2> QED
    BY <2>1, SumTypes DEF IInv, Quiet, LaunchedCount, BytesInv, Awaited
<1>2. CASE LoopBegin \/ FirstConn \/ SplitOne \/ LaunchBatch
  <2>1. (\A c \in Conns : lastErr[c] # "forbidden")' /\ GoneEnded' /\ CompletedSpent'
    BY <1>2, BeginEnds, NewEnds
  <2>2. WaitersEnded'
    <3>1. loop \notin {"wait", "closing", "gone"} /\ extra' = extra /\ (nconn' = nconn \/ nconn' > 0)
      <4>1. CASE LoopBegin
        BY <4>1 DEF LoopBegin, resumeConnections
      <4>2. CASE FirstConn \/ LaunchBatch
        BY <4>2 DEF FirstConn, LaunchBatch
      <4>3. CASE SplitOne
        BY <1>1, <4>3 DEF SplitOne
      <4> QED
        BY <1>2, <4>1, <4>2, <4>3
    <3> QED
      BY <1>1, <3>1, BusyWaiters
  <2>3. DoneMeansComplete'
    BY <1>2 DEF LoopBegin, FirstConn, SplitOne, LaunchBatch, DoneMeansComplete
  <2> QED
    BY <2>1, <2>2, <2>3
<1>3. CASE LoopExpand \/ MaxReached \/ AllPrefetched \/ LoopCancelled
  <2>1. /\ UNCHANGED <<nconn, begin, end, got, cstate, failed, lastErr, pc, extra, written>>
        /\ loop \in {"select", "expand"} /\ loop' \in {"wait", "expand", "select", "gone"}
    BY <1>3 DEF LoopExpand, MaxReached, AllPrefetched, LoopCancelled
  <2>2. (\A c \in Conns : lastErr[c] # "forbidden")' /\ GoneEnded' /\ CompletedSpent'
    BY <1>1, <2>1, StillEnds
  <2>3. WaitersEnded'
    BY <1>1, <2>1, BusyWaiters
  <2>4. DoneMeansComplete'
    <3>1. CASE AllPrefetched
      <4>1. 0..(dataPos - 1) \subseteq written /\ dataPos >= Size /\ dataPos \in Nat
        BY <3>1, ConstantsOK DEF ConstantsOK, AllPrefetched, BytesInv, PrefetchHeld, IInv, TypeOK, TypeOut
      <4>2. Bytes \subseteq written
        BY <4>1, ConstantsOK DEF ConstantsOK, Bytes
      <4>3. written \subseteq Bytes
        BY DEF IInv, TypeOK, TypeOut
      <4> QED
        BY <2>1, <4>2, <4>3 DEF DoneMeansComplete
    <3>2. CASE LoopExpand \/ MaxReached \/ LoopCancelled
      BY <3>2 DEF LoopExpand, MaxReached, LoopCancelled, DoneMeansComplete
    <3> QED
      BY <1>3, <3>1, <3>2
  <2> QED
    BY <2>2, <2>3, <2>4
<1>4. CASE SplitEnds
  <2>1. /\ UNCHANGED <<nconn, begin, end, got, cstate, failed, lastErr, pc, written, launched>>
        /\ loop \in {"expand", "split"} /\ nconn > 0
        /\ fstate' = fstate \/ fstate' = "steady"
    BY <1>4 DEF SplitEnds
  <2>2. loop' = "commit" \/ (loop = "expand" /\ loop' = "wait")
    <3>1. nconn = launched => loop = "expand"
      BY <1>1, <2>1
    <3> QED
      BY <1>4, <3>1 DEF SplitEnds
  <2>3. (\A c \in Conns : lastErr[c] # "forbidden")' /\ GoneEnded' /\ CompletedSpent'
    BY <1>1, <2>1, <2>2, StillEnds
  <2>4. WaitersEnded'
    <3>1. \A a \in Attempts : extra'[a] # extra[a] => extra'[a] = "spawned"
      BY <1>4 DEF SplitEnds, IInv, TypeOK, TypeLoop
    <3> QED
      BY <1>1, <2>1, <3>1, BusyWaiters
  <2> QED
    BY <2>1, <2>3, <2>4 DEF DoneMeansComplete
<1>5. CASE LoopWaited
  <2>1. /\ UNCHANGED <<nconn, begin, end, got, cstate, failed, lastErr, pc, extra, written>>
        /\ loop = "wait" /\ loop' = "closing"
    BY <1>5 DEF LoopWaited, onDownloadComplete
  <2>2. (\A c \in Conns : lastErr[c] # "forbidden")' /\ GoneEnded' /\ CompletedSpent'
    BY <1>1, <2>1, StillEnds
  <2>3. WaitersEnded'
    BY <2>1 DEF WaitersEnded, Ended, Existing
  <2>4. DoneMeansComplete'
    <3>1. CASE fstate' = fstate
      BY <2>1, <3>1 DEF DoneMeansComplete
    <3>2. CASE fstate' # fstate
      <4>1. ~cancelled /\ (fstate' = "done" => ~hasFinalErr)
        BY <1>5, <3>2 DEF LoopWaited, onDownloadComplete
      <4>2. nconn > 0 /\ NoByteLost
        BY <1>1, <2>1 DEF BytesInv, PrefetchHeld
      <4>3. \A d \in Conns : pc[d] = "gone"
        BY <1>5, NoneRunning DEF LoopWaited
      <4>4. \A d \in Existing : Ended(d)
        BY <1>1, <2>1, <4>1, <4>3, ExistingTypes DEF GoneEnded
      <4>5. ~hasFinalErr => written = Bytes
        BY <4>2, <4>4, EndComplete
      <4> QED
        BY <2>1, <4>1, <4>5 DEF DoneMeansComplete
    <3> QED
      BY <3>1, <3>2
  <2> QED
    BY <2>2, <2>3, <2>4
<1>6. CASE LoopCloses
  <2>1. /\ UNCHANGED <<nconn, begin, end, got, cstate, failed, lastErr, pc, extra, written, fstate>>
        /\ loop = "closing" /\ loop' = "gone"
    BY <1>6 DEF LoopCloses
  <2>2. (\A c \in Conns : lastErr[c] # "forbidden")' /\ GoneEnded' /\ CompletedSpent'
    BY <1>1, <2>1, StillEnds
  <2>3. WaitersEnded'
    BY <2>1 DEF WaitersEnded, Ended, Existing
  <2> QED
    BY <2>1, <2>2, <2>3 DEF DoneMeansComplete
<1> QED
  BY <1>2, <1>3, <1>4, <1>5, <1>6 DEF LoopStep

\* A second waiter passes its last look only when the connections have ended.
LEMMA ExtraEnds ==
  ASSUME IInv, IInv', BytesInv, CountInv, EndInv, NEW a \in Attempts, ExtraStep(a)
  PROVE  EndInv'
<1> USE DEF EndInv, conns, locals, slow, out, rest, env
<1>1. /\ UNCHANGED <<nconn, begin, end, got, cstate, failed, lastErr, pc, loop, op, cancelled, launched, written>>
      /\ \A b \in Attempts : b # a => extra'[b] = extra[b]
      /\ extra[a] # "gone"
  BY DEF ExtraStep, ExtraWaits, ExtraWakes, ExtraChecks, ExtraCompletes, onDownloadComplete, IInv, TypeOK, TypeLoop
<1>2. nconn > 0 /\ loop \in {"wait", "closing", "gone"} /\ Awaited
  BY <1>1 DEF WaitersEnded, BytesInv, WaitersIdle, Awaited
<1>3. (\A c \in Conns : lastErr[c] # "forbidden")' /\ GoneEnded' /\ CompletedSpent'
  BY <1>1, <1>2, StillEnds
<1>4. WaitersEnded'
  <2>1. extra'[a] = "passed" => \A c \in Existing : Ended(c)
    <3>1. CASE ExtraChecks(a)
      <4>1. CASE cancelled
        BY <3>1, <4>1 DEF ExtraChecks, IInv, TypeOK, TypeLoop
      <4>2. CASE ~cancelled
        <5>1. \A c \in Conns : pc[c] = "gone"
          BY <3>1 DEF ExtraChecks, BytesInv, WaitersIdle
        <5> QED
          BY <1>2, <4>2, <5>1, ExistingTypes DEF GoneEnded
      <4> QED
        BY <4>1, <4>2
    <3>2. CASE ExtraWaits(a) \/ ExtraWakes(a) \/ ExtraCompletes(a)
      BY <3>2 DEF ExtraWaits, ExtraWakes, ExtraCompletes, IInv, TypeOK, TypeLoop
    <3> QED
      BY <3>1, <3>2 DEF ExtraStep
  <2>2. Existing' = Existing /\ \A c \in Existing : Ended(c)' <=> Ended(c)
    BY <1>1 DEF Existing, Ended
  <2> QED
    BY <1>1, <1>2, <2>1, <2>2 DEF WaitersEnded
<1>5. DoneMeansComplete'
  <2>1. CASE ExtraCompletes(a)
    <3>1. \A c \in Existing : Ended(c)
      BY <2>1 DEF ExtraCompletes, WaitersEnded
    <3>2. ~hasFinalErr => written = Bytes
      BY <1>2, <3>1, EndComplete DEF BytesInv
    <3> QED
      BY <1>1, <2>1, <3>2 DEF ExtraCompletes, onDownloadComplete, DoneMeansComplete
  <2>2. CASE ExtraWaits(a) \/ ExtraWakes(a) \/ ExtraChecks(a)
    BY <2>2 DEF ExtraWaits, ExtraWakes, ExtraChecks, DoneMeansComplete
  <2> QED
    BY <2>1, <2>2 DEF ExtraStep
<1> QED
  BY <1>3, <1>4, <1>5

LEMMA OtherEnds ==
  ASSUME IInv, IInv', BytesInv, EndInv,
         PrefetchRead \/ PrefetchEnd \/ StartCalled \/ StartFails \/ PauseCalled \/ OpStep \/ WatchResult
         \/ UNCHANGED vars
  PROVE  EndInv'
<1> USE DEF EndInv, conns, locals, slow, ctl, out, env, pref
<1>1. UNCHANGED <<nconn, begin, end, got, pc, extra>>
  BY DEF PrefetchRead, PrefetchEnd, StartCalled, StartFails, PauseCalled, OpStep, StartOpens, StartRuns, PauseEnds,
     WatchResult, vars
<1>2. CASE PrefetchRead \/ PrefetchEnd \/ StartCalled \/ PauseCalled \/ PauseEnds \/ WatchResult
           \/ UNCHANGED vars
  <2>1. /\ UNCHANGED <<nconn, begin, end, got, cstate, failed, lastErr, pc, loop, launched, written, extra>>
        /\ cancelled => cancelled'
        /\ fstate' = fstate \/ fstate' = "paused"
    BY <1>2 DEF PrefetchRead, PrefetchEnd, StartCalled, PauseCalled, PauseEnds, WatchResult, vars
  <2>2. Awaited' => Awaited
    BY <2>1 DEF Awaited
  <2>3. (\A c \in Conns : lastErr[c] # "forbidden")' /\ GoneEnded' /\ CompletedSpent'
    <3>1. UNCHANGED <<nconn, begin, end, got, cstate, failed, lastErr, pc>> /\ (cancelled => cancelled')
      BY <2>1
    <3>2. loop' = loop /\ launched' = launched
      BY <2>1
    <3> HIDE DEF EndInv
    <3> QED
      BY <2>2, <3>1, <3>2, StillEnds
  <2>4. WaitersEnded'
    BY <2>1 DEF WaitersEnded, Ended, Existing
  <2> QED
    BY <2>1, <2>3, <2>4 DEF DoneMeansComplete
<1>3. CASE StartOpens \/ StartFails
  <2>1. /\ UNCHANGED <<loop, extra, launched, fstate, written>> /\ op = "starting" /\ ResetForRetry
    BY <1>3 DEF StartOpens, StartFails
  <2>2. \A c \in Conns : /\ cstate'[c] = "completed" => cstate[c] = "completed"
                         /\ lastErr'[c] = lastErr[c] \/ lastErr'[c] = "none"
    <3>1. CASE fstate = "error"
      BY <2>1, <3>1 DEF ResetForRetry
    <3>2. CASE fstate # "error"
      BY <2>1, <3>2 DEF ResetForRetry
    <3> QED
      BY <3>1, <3>2
  <2>3. ~Awaited'
    BY <2>1 DEF Awaited, IInv, Quiet, BytesInv, WaitersIdle
  <2>4. GoneEnded'
    BY <2>3 DEF GoneEnded
  <2>5. CompletedSpent'
    BY <1>1, <2>1, <2>2 DEF CompletedSpent, remain
  <2>6. WaitersEnded'
    BY <1>1, <2>1, BusyWaiters DEF BytesInv
  <2> QED
    BY <2>1, <2>2, <2>4, <2>5, <2>6 DEF DoneMeansComplete
<1>4. CASE StartRuns
  <2>1. UNCHANGED <<cstate, failed, lastErr>> /\ loop' = "begin" /\ op = "copying" /\ fstate' = "slowStart"
    BY <1>4 DEF StartRuns
  <2>2. GoneEnded' /\ CompletedSpent'
    BY <1>1, <2>1 DEF GoneEnded, CompletedSpent, remain
  <2>3. WaitersEnded'
    BY <1>1, <2>1, BusyWaiters DEF BytesInv
  <2> QED
    BY <2>1, <2>2, <2>3 DEF DoneMeansComplete
<1> QED
  BY <1>2, <1>3, <1>4 DEF OpStep

\* One step of anyone keeps EndInv.
LEMMA EndStep ==
  ASSUME IInv, IInv', BytesInv, CountInv, EndInv, "forbidden" \notin Errors, [Next]_vars
  PROVE  EndInv'
<1>1. CASE \E c \in Conns : ConnStep(c) \/ ConnFault(c)
  BY <1>1, ConnEnds
<1>2. CASE LoopStep
  BY <1>2, LoopEnds
<1>3. CASE \E a \in Attempts : ExtraStep(a)
  BY <1>3, ExtraEnds
<1>4. CASE PrefetchRead \/ PrefetchEnd \/ StartCalled \/ StartFails \/ PauseCalled \/ OpStep \/ WatchResult
           \/ UNCHANGED vars
  BY <1>4, OtherEnds
<1> QED
  BY <1>1, <1>2, <1>3, <1>4 DEF Next

LEMMA InitEnds == Init => EndInv
<1> SUFFICES ASSUME Init PROVE EndInv
  OBVIOUS
<1>1. GoneEnded
  BY DEF Init, GoneEnded, Existing
<1>2. CompletedSpent /\ WaitersEnded /\ DoneMeansComplete
  BY DEF Init, CompletedSpent, WaitersEnded, DoneMeansComplete
<1> QED
  BY <1>1, <1>2 DEF Init, EndInv

\* A fetcher that is Done has the whole resource in its file: for every size,
\* number of connections, buffer, and number of failures, pauses and restarts,
\* onDownloadComplete takes a download for complete only when it is.  Three
\* conditions: the server answers no connection with 403 (such a connection is
\* forgiven, run HttpDownload_403), the second waiter of an attempt is gone before
\* the next one (WaitersDrain, HttpDownload_reuse), and a prefetch and a Pause do
\* not go together (HttpDownload_lostprefetch).
THEOREM DoneIsComplete ==
  ASSUME WaitersDrain, PrefetchMax = 0 \/ MaxPauses = 0, "forbidden" \notin Errors
  PROVE  Spec => []DoneMeansComplete
<1>1. IInv /\ IInv' /\ BytesInv /\ CountInv /\ EndInv /\ [Next]_vars => EndInv'
  BY EndStep
<1>2. EndInv => DoneMeansComplete
  BY DEF EndInv
<1>3. Spec => []BytesInv
  BY BytesInvariant
<1> QED
  BY <1>1, <1>2, <1>3, CountsInvariant, InitEnds, Invariance, PTL DEF Spec

=============================================================================
