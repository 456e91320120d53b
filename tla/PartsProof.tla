----------------------------- MODULE PartsProof -----------------------------
(***************************************************************************)
(* Proofs about the components of MCParts, for every value of their        *)
(* constants: each component has an inductive invariant in its own module, *)
(* under the conditions on its constants that are named there, and a step  *)
(* of MCParts is a step of one component and a stutter of the others.      *)
(***************************************************************************)
EXTENDS MCParts, Sequences, TaskFilesProof

----------------------------------------------------------------------------
(* HttpSingle                                                              *)

\* Every variable keeps its type: cretry stays at most Retries because a connection
\* that has its strikes is gone.
LEMMA SingleTypes ==
  ASSUME HS!SingleConstants, HS!SingleInv, [HS!Next]_HS!singleVars
  PROVE  HS!TypeOK'
<1> USE DEF HS!SingleConstants, HS!SingleInv, HS!resource, HS!conn, HS!local, HS!target,
            HS!control, HS!bounds, HS!gone, HS!Loops, HS!Bytes, HS!TypeOK, HS!StrikesHeld
<1>1. CASE HS!ResolveCalled
    BY <1>1 DEF HS!ResolveCalled
<1>2. CASE HS!ResolveFails
    BY <1>2 DEF HS!ResolveFails, HS!Fault
<1>3. CASE HS!ResolveAnswered
    BY <1>3 DEF HS!ResolveAnswered, HS!keptBody
<1>4. CASE HS!StartEarly
    BY <1>4 DEF HS!StartEarly
<1>5. CASE HS!StartCalled
    BY <1>5 DEF HS!StartCalled
<1>6. CASE HS!doStart
  <2>1. /\ sstate' = "slow" /\ sfile' = TRUE
        /\ cst' \in {"notStarted", "downloading", "completed", "failed"}
        /\ cretry' \in 0..Retries /\ cerr' \in {"none", "forbidden", "counted", "transient"}
        /\ sdone' \in {"none", "ok", "error"}
    BY <1>6 DEF HS!doStart
  <2>2. cfailed' \in BOOLEAN /\ body' \in BOOLEAN
    BY <1>6 DEF HS!doStart
  <2>3. loop' \in [HS!Loops -> {"off", "begin", "first", "select", "wait"}]
    BY <1>6 DEF HS!doStart
  <2>4. /\ UNCHANGED <<range, sized, restored, known, pendingStart, redir, exists, got, cpc, mode,
                      spos, counted, right, over, spare, panic, broken, requests, faults,
                      sstarts, spauses>>
        /\ exp' = FALSE /\ cancelled' = FALSE /\ loopDone' = "open" /\ sop' = "idle"
    BY <1>6 DEF HS!doStart
  <2>5. (/\ range \in BOOLEAN /\ sized \in BOOLEAN /\ restored \in BOOLEAN /\ known \in BOOLEAN
         /\ exists \in BOOLEAN /\ over \in BOOLEAN /\ panic \in BOOLEAN /\ broken \in BOOLEAN
         /\ pendingStart \in BOOLEAN)'
    BY <2>4
  <2>6. (/\ redir \in {"same", "other", "expired"}
         /\ got \in Nat /\ spos \in 0..Total /\ counted \in Nat
         /\ cpc \in {"gone", "take", "request", "read", "backoff"}
         /\ mode \in {"body", "fallback", "resume"}
         /\ right \subseteq HS!Bytes /\ spare \in Nat /\ requests \in Nat
         /\ faults \in 0..MaxFaults /\ sstarts \in 0..MaxStarts /\ spauses \in 0..MaxPauses)'
    BY <2>4
  <2>7. QED
    BY <2>1, <2>2, <2>3, <2>4, <2>5, <2>6
<1>7. CASE HS!LoopBegins
  <2>1. exists' \in BOOLEAN
        BY <1>7 DEF HS!LoopBegins, HS!Resumable
  <2>2. cst' \in {"notStarted", "downloading", "completed", "failed"}
        BY <1>7 DEF HS!LoopBegins, HS!Resumable
  <2>3. cfailed' \in BOOLEAN
        BY <1>7 DEF HS!LoopBegins, HS!Resumable
  <2>4. cpc' \in {"gone", "take", "request", "read", "backoff"}
        BY <1>7 DEF HS!LoopBegins, HS!Resumable
  <2>5. mode' \in {"body", "fallback", "resume"}
        BY <1>7 DEF HS!LoopBegins, HS!Resumable
  <2>6. got' \in Nat
        BY <1>7 DEF HS!LoopBegins, HS!Resumable
  <2>7. broken' \in BOOLEAN
        BY <1>7 DEF HS!LoopBegins, HS!Resumable
  <2>8. loop' \in [HS!Loops -> {"off", "begin", "first", "select", "wait"}]
        BY <1>7 DEF HS!LoopBegins, HS!Resumable
  <2>9. QED
        BY <1>7, <2>1, <2>2, <2>3, <2>4, <2>5, <2>6, <2>7, <2>8 DEF HS!LoopBegins, HS!Resumable
<1>8. CASE HS!TakesBody
  <2>1. body' \in BOOLEAN
        BY <1>8 DEF HS!TakesBody, HS!Downloads
  <2>2. cst' \in {"notStarted", "downloading", "completed", "failed"}
        BY <1>8 DEF HS!TakesBody, HS!Downloads
  <2>3. cfailed' \in BOOLEAN
        BY <1>8 DEF HS!TakesBody, HS!Downloads
  <2>4. cpc' \in {"gone", "take", "request", "read", "backoff"}
        BY <1>8 DEF HS!TakesBody, HS!Downloads
  <2>5. mode' \in {"body", "fallback", "resume"}
        BY <1>8 DEF HS!TakesBody, HS!Downloads
  <2>6. spos' \in 0..Total
        BY <1>8 DEF HS!TakesBody, HS!Downloads
  <2>7. exp' \in BOOLEAN
        BY <1>8 DEF HS!TakesBody, HS!Downloads
  <2>8. counted' \in Nat
        BY <1>8 DEF HS!TakesBody, HS!Downloads
  <2>9. QED
        BY <1>8, <2>1, <2>2, <2>3, <2>4, <2>5, <2>6, <2>7, <2>8 DEF HS!TakesBody, HS!Downloads
<1>9. CASE HS!ConnCancelled
    BY <1>9 DEF HS!ConnCancelled
<1>10. CASE HS!Reads
    BY <1>10 DEF HS!Reads, HS!remain
<1>11. CASE HS!Eof
    BY <1>11 DEF HS!Eof, HS!Ends, HS!remain
<1>12. CASE HS!BodyBreaks
  <2>1. cst' \in {"notStarted", "downloading", "completed", "failed"}
        BY <1>12 DEF HS!BodyBreaks, HS!Ends, HS!Fault
  <2>2. cfailed' \in BOOLEAN
        BY <1>12 DEF HS!BodyBreaks, HS!Ends, HS!Fault
  <2>3. faults' \in 0..MaxFaults
        BY <1>12 DEF HS!BodyBreaks, HS!Ends, HS!Fault
  <2>4. broken' \in BOOLEAN
        BY <1>12 DEF HS!BodyBreaks, HS!Ends, HS!Fault
  <2>5. QED
        BY <1>12, <2>1, <2>2, <2>3, <2>4 DEF HS!BodyBreaks, HS!Ends, HS!Fault
<1>13. CASE HS!BodyWriteFails
    BY <1>13 DEF HS!BodyWriteFails, HS!Ends, HS!Fault
<1>14. CASE HS!Answered
  <2>1. redir' \in {"same", "other", "expired"}
        BY <1>14 DEF HS!Answered, HS!Downloads, HS!remain
  <2>2. cst' \in {"notStarted", "downloading", "completed", "failed"}
        BY <1>14 DEF HS!Answered, HS!Downloads, HS!remain
  <2>3. cfailed' \in BOOLEAN
        BY <1>14 DEF HS!Answered, HS!Downloads, HS!remain
  <2>4. spos' \in 0..Total
        BY <1>14 DEF HS!Answered, HS!Downloads, HS!remain
  <2>5. exp' \in BOOLEAN
        BY <1>14 DEF HS!Answered, HS!Downloads, HS!remain
  <2>6. cpc' \in {"gone", "take", "request", "read", "backoff"}
        BY <1>14 DEF HS!Answered, HS!Downloads, HS!remain
  <2>7. requests' \in Nat
        BY <1>14 DEF HS!Answered, HS!Downloads, HS!remain
  <2>8. QED
        BY <1>14, <2>1, <2>2, <2>3, <2>4, <2>5, <2>6, <2>7 DEF HS!Answered, HS!Downloads,
       HS!remain
<1>15. CASE HS!Forbidden
    BY <1>15 DEF HS!Forbidden, HS!Refusal, HS!Ends, HS!Fault, HS!remain
<1>16. CASE HS!CountedFailure
    BY <1>16 DEF HS!CountedFailure, HS!Refusal, HS!strikes, HS!Fault, HS!remain
<1>17. CASE HS!TransientFailure
    BY <1>17 DEF HS!TransientFailure, HS!Fault, HS!remain
<1>18. CASE HS!BackoffOver
    BY <1>18 DEF HS!BackoffOver
<1>19. ASSUME NEW l \in HS!Loops, HS!LoopCompletes(l) PROVE HS!TypeOK'
  <2>1. sfile' \in BOOLEAN
        BY <1>19 DEF HS!LoopCompletes, HS!onDownloadComplete, HS!finalErr, HS!allChunksComplete,
       HS!exempt, HS!remain
  <2>2. sstate' \in {"idle", "resolving", "resolved", "slow", "steady", "paused", "done", "error"}
        BY <1>19 DEF HS!LoopCompletes, HS!onDownloadComplete, HS!finalErr, HS!allChunksComplete,
       HS!exempt, HS!remain
  <2>3. sdone' \in {"none", "ok", "error"}
        BY <1>19 DEF HS!LoopCompletes, HS!onDownloadComplete, HS!finalErr, HS!allChunksComplete,
       HS!exempt, HS!remain
  <2>4. loop' \in [HS!Loops -> {"off", "begin", "first", "select", "wait"}]
        BY <1>19 DEF HS!LoopCompletes, HS!onDownloadComplete, HS!finalErr, HS!allChunksComplete,
       HS!exempt, HS!remain
  <2>5. QED
        BY <1>19, <2>1, <2>2, <2>3, <2>4 DEF HS!LoopCompletes, HS!onDownloadComplete,
       HS!finalErr, HS!allChunksComplete, HS!exempt, HS!remain
<1>20. ASSUME NEW l \in HS!Loops, HS!LoopStops(l) PROVE HS!TypeOK'
    BY <1>20 DEF HS!LoopStops, HS!LoopExits
<1>21. ASSUME NEW l \in HS!Loops, HS!LoopExpands(l) PROVE HS!TypeOK'
  <2>1. exp' \in BOOLEAN
        BY <1>21 DEF HS!LoopExpands, HS!checkCompletion
  <2>2. loop' \in [HS!Loops -> {"off", "begin", "first", "select", "wait"}]
        BY <1>21 DEF HS!LoopExpands, HS!checkCompletion
  <2>3. sstate' \in {"idle", "resolving", "resolved", "slow", "steady", "paused", "done", "error"}
        BY <1>21 DEF HS!LoopExpands, HS!checkCompletion
  <2>4. spare' \in Nat
        BY <1>21 DEF HS!LoopExpands, HS!checkCompletion
  <2>5. QED
        BY <1>21, <2>1, <2>2, <2>3, <2>4 DEF HS!LoopExpands, HS!checkCompletion
<1>22. ASSUME NEW l \in HS!Loops, HS!LoopWaited(l) PROVE HS!TypeOK'
  <2>1. sfile' \in BOOLEAN
        BY <1>22 DEF HS!LoopWaited, HS!onDownloadComplete, HS!LoopExits, HS!finalErr,
       HS!allChunksComplete, HS!exempt, HS!remain
  <2>2. sstate' \in {"idle", "resolving", "resolved", "slow", "steady", "paused", "done", "error"}
        BY <1>22 DEF HS!LoopWaited, HS!onDownloadComplete, HS!LoopExits, HS!finalErr,
       HS!allChunksComplete, HS!exempt, HS!remain
  <2>3. sdone' \in {"none", "ok", "error"}
        BY <1>22 DEF HS!LoopWaited, HS!onDownloadComplete, HS!LoopExits, HS!finalErr,
       HS!allChunksComplete, HS!exempt, HS!remain
  <2>4. loop' \in [HS!Loops -> {"off", "begin", "first", "select", "wait"}]
        BY <1>22 DEF HS!LoopWaited, HS!onDownloadComplete, HS!LoopExits, HS!finalErr,
       HS!allChunksComplete, HS!exempt, HS!remain
  <2>5. panic' \in BOOLEAN
        BY <1>22 DEF HS!LoopWaited, HS!onDownloadComplete, HS!LoopExits, HS!finalErr,
       HS!allChunksComplete, HS!exempt, HS!remain
  <2>6. loopDone' \in {"none", "open", "closed"}
        BY <1>22 DEF HS!LoopWaited, HS!onDownloadComplete, HS!LoopExits, HS!finalErr,
       HS!allChunksComplete, HS!exempt, HS!remain
  <2>7. QED
        BY <1>22, <2>1, <2>2, <2>3, <2>4, <2>5, <2>6 DEF HS!LoopWaited, HS!onDownloadComplete,
       HS!LoopExits, HS!finalErr, HS!allChunksComplete, HS!exempt, HS!remain
<1>23. CASE HS!SpareWaited
  <2>1. sfile' \in BOOLEAN
        BY <1>23 DEF HS!SpareWaited, HS!onDownloadComplete, HS!finalErr, HS!allChunksComplete,
       HS!exempt, HS!remain
  <2>2. sstate' \in {"idle", "resolving", "resolved", "slow", "steady", "paused", "done", "error"}
        BY <1>23 DEF HS!SpareWaited, HS!onDownloadComplete, HS!finalErr, HS!allChunksComplete,
       HS!exempt, HS!remain
  <2>3. sdone' \in {"none", "ok", "error"}
        BY <1>23 DEF HS!SpareWaited, HS!onDownloadComplete, HS!finalErr, HS!allChunksComplete,
       HS!exempt, HS!remain
  <2>4. spare' \in Nat
        BY <1>23 DEF HS!SpareWaited, HS!onDownloadComplete, HS!finalErr, HS!allChunksComplete,
       HS!exempt, HS!remain
  <2>5. broken' \in BOOLEAN
        BY <1>23 DEF HS!SpareWaited, HS!onDownloadComplete, HS!finalErr, HS!allChunksComplete,
       HS!exempt, HS!remain
  <2>6. QED
        BY <1>23, <2>1, <2>2, <2>3, <2>4, <2>5 DEF HS!SpareWaited, HS!onDownloadComplete,
       HS!finalErr, HS!allChunksComplete, HS!exempt, HS!remain
<1>24. CASE HS!PauseCalled
    BY <1>24 DEF HS!PauseCalled
<1>25. CASE HS!PauseEnds
  <2>1. sstate' \in {"idle", "resolving", "resolved", "slow", "steady", "paused", "done", "error"}
        BY <1>25 DEF HS!PauseEnds
  <2>2. body' \in BOOLEAN
        BY <1>25 DEF HS!PauseEnds
  <2>3. sfile' \in BOOLEAN
        BY <1>25 DEF HS!PauseEnds
  <2>4. sop' \in {"idle", "resolve", "start", "pause"}
        BY <1>25 DEF HS!PauseEnds
  <2>5. QED
        BY <1>25, <2>1, <2>2, <2>3, <2>4 DEF HS!PauseEnds
<1>26. CASE HS!Patch
    BY <1>26 DEF HS!Patch
<1>27. CASE HS!WatchTakes
    BY <1>27 DEF HS!WatchTakes
<1>28. CASE HS!RedirectExpires
    BY <1>28 DEF HS!RedirectExpires, HS!Fault
<1>29. CASE UNCHANGED HS!singleVars
  BY <1>29 DEF HS!singleVars
<1> HIDE DEF HS!TypeOK, HS!StrikesHeld
<1>30. QED
    BY <1>1, <1>2, <1>3, <1>4, <1>5, <1>6, <1>7, <1>8, <1>9, <1>10, <1>11, <1>12, <1>13, <1>14,
     <1>15, <1>16, <1>17, <1>18, <1>19, <1>20, <1>21, <1>22, <1>23, <1>24, <1>25, <1>26, <1>27,
     <1>28, <1>29 DEF HS!Next, HS!ConnStep, HS!ConnFault, HS!LoopStep, HS!OpStep, HS!Calls

\* Start waits for the loop of the attempt before (RetryWaits), so there is one.
LEMMA SingleLoops ==
  ASSUME HS!SingleConstants, HS!SingleInv, [HS!Next]_HS!singleVars
  PROVE  HS!OneLoop'
<1> USE DEF HS!SingleConstants, HS!SingleInv, HS!resource, HS!conn, HS!local, HS!target,
            HS!control, HS!bounds, HS!gone, HS!Loops, HS!Bytes, HS!TypeOK, HS!OneLoop
<1>1. CASE HS!ResolveCalled
    BY <1>1 DEF HS!ResolveCalled
<1>2. CASE HS!ResolveFails
    BY <1>2 DEF HS!ResolveFails, HS!Fault
<1>3. CASE HS!ResolveAnswered
    BY <1>3 DEF HS!ResolveAnswered, HS!keptBody
<1>4. CASE HS!StartEarly
    BY <1>4 DEF HS!StartEarly
<1>5. CASE HS!StartCalled
    BY <1>5 DEF HS!StartCalled
<1>6. CASE HS!doStart
    BY <1>6 DEF HS!doStart
<1>7. CASE HS!LoopBegins
    BY <1>7 DEF HS!LoopBegins, HS!Resumable
<1>8. CASE HS!TakesBody
    BY <1>8 DEF HS!TakesBody, HS!Downloads
<1>9. CASE HS!ConnCancelled
    BY <1>9 DEF HS!ConnCancelled
<1>10. CASE HS!Reads
    BY <1>10 DEF HS!Reads, HS!remain
<1>11. CASE HS!Eof
    BY <1>11 DEF HS!Eof, HS!Ends, HS!remain
<1>12. CASE HS!BodyBreaks
    BY <1>12 DEF HS!BodyBreaks, HS!Ends, HS!Fault
<1>13. CASE HS!BodyWriteFails
    BY <1>13 DEF HS!BodyWriteFails, HS!Ends, HS!Fault
<1>14. CASE HS!Answered
    BY <1>14 DEF HS!Answered, HS!Downloads, HS!remain
<1>15. CASE HS!Forbidden
    BY <1>15 DEF HS!Forbidden, HS!Refusal, HS!Ends, HS!Fault, HS!remain
<1>16. CASE HS!CountedFailure
    BY <1>16 DEF HS!CountedFailure, HS!Refusal, HS!strikes, HS!Fault, HS!remain
<1>17. CASE HS!TransientFailure
    BY <1>17 DEF HS!TransientFailure, HS!Fault, HS!remain
<1>18. CASE HS!BackoffOver
    BY <1>18 DEF HS!BackoffOver
<1>19. ASSUME NEW l \in HS!Loops, HS!LoopCompletes(l) PROVE HS!OneLoop'
    BY <1>19 DEF HS!LoopCompletes, HS!onDownloadComplete, HS!finalErr, HS!allChunksComplete,
     HS!exempt, HS!remain
<1>20. ASSUME NEW l \in HS!Loops, HS!LoopStops(l) PROVE HS!OneLoop'
    BY <1>20 DEF HS!LoopStops, HS!LoopExits
<1>21. ASSUME NEW l \in HS!Loops, HS!LoopExpands(l) PROVE HS!OneLoop'
    BY <1>21 DEF HS!LoopExpands, HS!checkCompletion
<1>22. ASSUME NEW l \in HS!Loops, HS!LoopWaited(l) PROVE HS!OneLoop'
    BY <1>22 DEF HS!LoopWaited, HS!onDownloadComplete, HS!LoopExits, HS!finalErr,
     HS!allChunksComplete, HS!exempt, HS!remain
<1>23. CASE HS!SpareWaited
    BY <1>23 DEF HS!SpareWaited, HS!onDownloadComplete, HS!finalErr, HS!allChunksComplete,
     HS!exempt, HS!remain
<1>24. CASE HS!PauseCalled
    BY <1>24 DEF HS!PauseCalled
<1>25. CASE HS!PauseEnds
    BY <1>25 DEF HS!PauseEnds
<1>26. CASE HS!Patch
    BY <1>26 DEF HS!Patch
<1>27. CASE HS!WatchTakes
    BY <1>27 DEF HS!WatchTakes
<1>28. CASE HS!RedirectExpires
    BY <1>28 DEF HS!RedirectExpires, HS!Fault
<1>29. CASE UNCHANGED HS!singleVars
  BY <1>29 DEF HS!singleVars
<1> HIDE DEF HS!TypeOK, HS!OneLoop
<1>30. QED
    BY <1>1, <1>2, <1>3, <1>4, <1>5, <1>6, <1>7, <1>8, <1>9, <1>10, <1>11, <1>12, <1>13, <1>14,
     <1>15, <1>16, <1>17, <1>18, <1>19, <1>20, <1>21, <1>22, <1>23, <1>24, <1>25, <1>26, <1>27,
     <1>28, <1>29 DEF HS!Next, HS!ConnStep, HS!ConnFault, HS!LoopStep, HS!OpStep, HS!Calls

\* A connection counts its failures, and is gone at the last one.
LEMMA SingleStrikes ==
  ASSUME HS!SingleConstants, HS!SingleInv, [HS!Next]_HS!singleVars
  PROVE  HS!StrikesHeld'
<1> USE DEF HS!SingleConstants, HS!SingleInv, HS!resource, HS!conn, HS!local, HS!target,
            HS!control, HS!bounds, HS!gone, HS!Loops, HS!Bytes, HS!TypeOK, HS!OneLoop,
            HS!StrikesHeld
<1>1. CASE HS!ResolveCalled
    BY <1>1 DEF HS!ResolveCalled
<1>2. CASE HS!ResolveFails
    BY <1>2 DEF HS!ResolveFails, HS!Fault
<1>3. CASE HS!ResolveAnswered
    BY <1>3 DEF HS!ResolveAnswered, HS!keptBody
<1>4. CASE HS!StartEarly
    BY <1>4 DEF HS!StartEarly
<1>5. CASE HS!StartCalled
    BY <1>5 DEF HS!StartCalled
<1>6. CASE HS!doStart
    BY <1>6 DEF HS!doStart
<1>7. CASE HS!LoopBegins
    BY <1>7 DEF HS!LoopBegins, HS!Resumable
<1>8. CASE HS!TakesBody
    BY <1>8 DEF HS!TakesBody, HS!Downloads
<1>9. CASE HS!ConnCancelled
    BY <1>9 DEF HS!ConnCancelled
<1>10. CASE HS!Reads
    BY <1>10 DEF HS!Reads, HS!remain
<1>11. CASE HS!Eof
    BY <1>11 DEF HS!Eof, HS!Ends, HS!remain
<1>12. CASE HS!BodyBreaks
    BY <1>12 DEF HS!BodyBreaks, HS!Ends, HS!Fault
<1>13. CASE HS!BodyWriteFails
    BY <1>13 DEF HS!BodyWriteFails, HS!Ends, HS!Fault
<1>14. CASE HS!Answered
    BY <1>14 DEF HS!Answered, HS!Downloads, HS!remain
<1>15. CASE HS!Forbidden
    BY <1>15 DEF HS!Forbidden, HS!Refusal, HS!Ends, HS!Fault, HS!remain
<1>16. CASE HS!CountedFailure
    BY <1>16 DEF HS!CountedFailure, HS!Refusal, HS!strikes, HS!Fault, HS!remain
<1>17. CASE HS!TransientFailure
    BY <1>17 DEF HS!TransientFailure, HS!Fault, HS!remain
<1>18. CASE HS!BackoffOver
    BY <1>18 DEF HS!BackoffOver
<1>19. ASSUME NEW l \in HS!Loops, HS!LoopCompletes(l) PROVE HS!StrikesHeld'
    BY <1>19 DEF HS!LoopCompletes, HS!onDownloadComplete, HS!finalErr, HS!allChunksComplete,
     HS!exempt, HS!remain
<1>20. ASSUME NEW l \in HS!Loops, HS!LoopStops(l) PROVE HS!StrikesHeld'
    BY <1>20 DEF HS!LoopStops, HS!LoopExits
<1>21. ASSUME NEW l \in HS!Loops, HS!LoopExpands(l) PROVE HS!StrikesHeld'
    BY <1>21 DEF HS!LoopExpands, HS!checkCompletion
<1>22. ASSUME NEW l \in HS!Loops, HS!LoopWaited(l) PROVE HS!StrikesHeld'
    BY <1>22 DEF HS!LoopWaited, HS!onDownloadComplete, HS!LoopExits, HS!finalErr,
     HS!allChunksComplete, HS!exempt, HS!remain
<1>23. CASE HS!SpareWaited
    BY <1>23 DEF HS!SpareWaited, HS!onDownloadComplete, HS!finalErr, HS!allChunksComplete,
     HS!exempt, HS!remain
<1>24. CASE HS!PauseCalled
    BY <1>24 DEF HS!PauseCalled
<1>25. CASE HS!PauseEnds
    BY <1>25 DEF HS!PauseEnds
<1>26. CASE HS!Patch
    BY <1>26 DEF HS!Patch
<1>27. CASE HS!WatchTakes
    BY <1>27 DEF HS!WatchTakes
<1>28. CASE HS!RedirectExpires
    BY <1>28 DEF HS!RedirectExpires, HS!Fault
<1>29. CASE UNCHANGED HS!singleVars
  BY <1>29 DEF HS!singleVars
<1> HIDE DEF HS!TypeOK, HS!OneLoop, HS!StrikesHeld
<1>30. QED
    BY <1>1, <1>2, <1>3, <1>4, <1>5, <1>6, <1>7, <1>8, <1>9, <1>10, <1>11, <1>12, <1>13, <1>14,
     <1>15, <1>16, <1>17, <1>18, <1>19, <1>20, <1>21, <1>22, <1>23, <1>24, <1>25, <1>26, <1>27,
     <1>28, <1>29 DEF HS!Next, HS!ConnStep, HS!ConnFault, HS!LoopStep, HS!OpStep, HS!Calls

\* Only the goroutine of the first start takes the answer of Resolve, and it does
\* not send a request of its own as long as that answer is there.
LEMMA SingleAnswer ==
  ASSUME HS!SingleConstants, HS!SingleInv, [HS!Next]_HS!singleVars
  PROVE  HS!AnswerHeld'
<1> USE DEF HS!SingleConstants, HS!SingleInv, HS!resource, HS!conn, HS!local, HS!target,
            HS!control, HS!bounds, HS!gone, HS!Loops, HS!Bytes, HS!TypeOK, HS!OneLoop,
            HS!StrikesHeld, HS!AnswerHeld
<1>1. CASE HS!ResolveCalled
    BY <1>1 DEF HS!ResolveCalled
<1>2. CASE HS!ResolveFails
    BY <1>2 DEF HS!ResolveFails, HS!Fault
<1>3. CASE HS!ResolveAnswered
    BY <1>3 DEF HS!ResolveAnswered, HS!keptBody
<1>4. CASE HS!StartEarly
    BY <1>4 DEF HS!StartEarly
<1>5. CASE HS!StartCalled
    BY <1>5 DEF HS!StartCalled
<1>6. CASE HS!doStart
    BY <1>6 DEF HS!doStart
<1>7. CASE HS!LoopBegins
    BY <1>7 DEF HS!LoopBegins, HS!Resumable
<1>8. CASE HS!TakesBody
    BY <1>8 DEF HS!TakesBody, HS!Downloads
<1>9. CASE HS!ConnCancelled
    BY <1>9 DEF HS!ConnCancelled
<1>10. CASE HS!Reads
    BY <1>10 DEF HS!Reads, HS!remain
<1>11. CASE HS!Eof
    BY <1>11 DEF HS!Eof, HS!Ends, HS!remain
<1>12. CASE HS!BodyBreaks
    BY <1>12 DEF HS!BodyBreaks, HS!Ends, HS!Fault
<1>13. CASE HS!BodyWriteFails
    BY <1>13 DEF HS!BodyWriteFails, HS!Ends, HS!Fault
<1>14. CASE HS!Answered
    BY <1>14 DEF HS!Answered, HS!Downloads, HS!remain
<1>15. CASE HS!Forbidden
    BY <1>15 DEF HS!Forbidden, HS!Refusal, HS!Ends, HS!Fault, HS!remain
<1>16. CASE HS!CountedFailure
    BY <1>16 DEF HS!CountedFailure, HS!Refusal, HS!strikes, HS!Fault, HS!remain
<1>17. CASE HS!TransientFailure
    BY <1>17 DEF HS!TransientFailure, HS!Fault, HS!remain
<1>18. CASE HS!BackoffOver
    BY <1>18 DEF HS!BackoffOver
<1>19. ASSUME NEW l \in HS!Loops, HS!LoopCompletes(l) PROVE HS!AnswerHeld'
    BY <1>19 DEF HS!LoopCompletes, HS!onDownloadComplete, HS!finalErr, HS!allChunksComplete,
     HS!exempt, HS!remain
<1>20. ASSUME NEW l \in HS!Loops, HS!LoopStops(l) PROVE HS!AnswerHeld'
    BY <1>20 DEF HS!LoopStops, HS!LoopExits
<1>21. ASSUME NEW l \in HS!Loops, HS!LoopExpands(l) PROVE HS!AnswerHeld'
    BY <1>21 DEF HS!LoopExpands, HS!checkCompletion
<1>22. ASSUME NEW l \in HS!Loops, HS!LoopWaited(l) PROVE HS!AnswerHeld'
    BY <1>22 DEF HS!LoopWaited, HS!onDownloadComplete, HS!LoopExits, HS!finalErr,
     HS!allChunksComplete, HS!exempt, HS!remain
<1>23. CASE HS!SpareWaited
    BY <1>23 DEF HS!SpareWaited, HS!onDownloadComplete, HS!finalErr, HS!allChunksComplete,
     HS!exempt, HS!remain
<1>24. CASE HS!PauseCalled
    BY <1>24 DEF HS!PauseCalled
<1>25. CASE HS!PauseEnds
    BY <1>25 DEF HS!PauseEnds
<1>26. CASE HS!Patch
    BY <1>26 DEF HS!Patch
<1>27. CASE HS!WatchTakes
    BY <1>27 DEF HS!WatchTakes
<1>28. CASE HS!RedirectExpires
    BY <1>28 DEF HS!RedirectExpires, HS!Fault
<1>29. CASE UNCHANGED HS!singleVars
  BY <1>29 DEF HS!singleVars
<1> HIDE DEF HS!TypeOK, HS!OneLoop, HS!StrikesHeld, HS!AnswerHeld
<1>30. QED
    BY <1>1, <1>2, <1>3, <1>4, <1>5, <1>6, <1>7, <1>8, <1>9, <1>10, <1>11, <1>12, <1>13, <1>14,
     <1>15, <1>16, <1>17, <1>18, <1>19, <1>20, <1>21, <1>22, <1>23, <1>24, <1>25, <1>26, <1>27,
     <1>28, <1>29 DEF HS!Next, HS!ConnStep, HS!ConnFault, HS!LoopStep, HS!OpStep, HS!Calls

\* The bytes of the file follow what the connection counts; every step that could
\* break this off sets broken.
LEMMA SingleFile ==
  ASSUME HS!SingleConstants, HS!SingleInv, [HS!Next]_HS!singleVars
  PROVE  HS!FileFollows'
<1> USE DEF HS!SingleConstants, HS!SingleInv, HS!resource, HS!conn, HS!local, HS!target,
            HS!control, HS!bounds, HS!gone, HS!Loops, HS!Bytes, HS!TypeOK, HS!OneLoop,
            HS!StrikesHeld, HS!FileFollows, HS!Through
<1>1. CASE HS!ResolveCalled
    BY <1>1 DEF HS!ResolveCalled
<1>2. CASE HS!ResolveFails
    BY <1>2 DEF HS!ResolveFails, HS!Fault
<1>3. CASE HS!ResolveAnswered
    BY <1>3 DEF HS!ResolveAnswered, HS!keptBody
<1>4. CASE HS!StartEarly
    BY <1>4 DEF HS!StartEarly
<1>5. CASE HS!StartCalled
    BY <1>5 DEF HS!StartCalled
<1>6. CASE HS!doStart
    BY <1>6 DEF HS!doStart
<1>7. CASE HS!LoopBegins
  <2> SUFFICES ASSUME ~broken', ~(range' /\ mode' = "resume") PROVE HS!FileFollows'
    OBVIOUS
  <2>1. ~broken /\ ~(range /\ mode = "resume")
    <3>1. range' = range /\ (broken => broken') /\ mode' \in {mode, "resume"}
      BY <1>7 DEF HS!LoopBegins
    <3>2. CASE mode = "resume"
      BY <1>7, <3>1, <3>2 DEF HS!LoopBegins
    <3>3. CASE mode # "resume"
      BY <3>1, <3>3
    <3>4. QED
      BY <3>2, <3>3
  <2>2. /\ right = 0..(got - 1) /\ got \in Nat /\ got <= Total /\ ~over /\ cerr # "forbidden"
        /\ cpc = "gone" /\ sfile /\ (cst = "completed" => got = Total)
        /\ (~exists => got = 0) /\ (cst = "failed" => got = 0) /\ sstate # "done" /\ (spare > 0 => cancelled)
    BY <1>7, <2>1 DEF HS!LoopBegins
  <2>3. CASE ~exists
    BY <1>7, <2>2, <2>3 DEF HS!LoopBegins
  <2>4. CASE exists /\ HS!Resumable
    <3>1. got = 0
      BY <1>7, <2>2, <2>4 DEF HS!LoopBegins
    <3>2. QED
      BY <1>7, <2>2, <2>4, <3>1 DEF HS!LoopBegins
  <2>5. CASE exists /\ ~HS!Resumable
    BY <1>7, <2>2, <2>5 DEF HS!LoopBegins, HS!Resumable
  <2>6. QED
    BY <2>3, <2>4, <2>5
<1>8. CASE HS!TakesBody
    BY <1>8 DEF HS!TakesBody, HS!Downloads
<1>9. CASE HS!ConnCancelled
    BY <1>9 DEF HS!ConnCancelled
<1>10. CASE HS!Reads
    BY <1>10 DEF HS!Reads, HS!remain
<1>11. CASE HS!Eof
    BY <1>11 DEF HS!Eof, HS!Ends, HS!remain
<1>12. CASE HS!BodyBreaks
    BY <1>12 DEF HS!BodyBreaks, HS!Ends, HS!Fault
<1>13. CASE HS!BodyWriteFails
    BY <1>13 DEF HS!BodyWriteFails, HS!Ends, HS!Fault
<1>14. CASE HS!Answered
    BY <1>14 DEF HS!Answered, HS!Downloads, HS!remain
<1>15. CASE HS!Forbidden
    BY <1>15 DEF HS!Forbidden, HS!Refusal, HS!Ends, HS!Fault, HS!remain
<1>16. CASE HS!CountedFailure
    BY <1>16 DEF HS!CountedFailure, HS!Refusal, HS!strikes, HS!Fault, HS!remain
<1>17. CASE HS!TransientFailure
    BY <1>17 DEF HS!TransientFailure, HS!Fault, HS!remain
<1>18. CASE HS!BackoffOver
    BY <1>18 DEF HS!BackoffOver
<1>19. ASSUME NEW l \in HS!Loops, HS!LoopCompletes(l) PROVE HS!FileFollows'
    BY <1>19 DEF HS!LoopCompletes, HS!onDownloadComplete, HS!finalErr, HS!allChunksComplete,
     HS!exempt, HS!remain
<1>20. ASSUME NEW l \in HS!Loops, HS!LoopStops(l) PROVE HS!FileFollows'
    BY <1>20 DEF HS!LoopStops, HS!LoopExits
<1>21. ASSUME NEW l \in HS!Loops, HS!LoopExpands(l) PROVE HS!FileFollows'
    BY <1>21 DEF HS!LoopExpands, HS!checkCompletion
<1>22. ASSUME NEW l \in HS!Loops, HS!LoopWaited(l) PROVE HS!FileFollows'
    BY <1>22 DEF HS!LoopWaited, HS!onDownloadComplete, HS!LoopExits, HS!finalErr,
     HS!allChunksComplete, HS!exempt, HS!remain
<1>23. CASE HS!SpareWaited
    BY <1>23 DEF HS!SpareWaited, HS!onDownloadComplete, HS!finalErr, HS!allChunksComplete,
     HS!exempt, HS!remain
<1>24. CASE HS!PauseCalled
    BY <1>24 DEF HS!PauseCalled
<1>25. CASE HS!PauseEnds
    BY <1>25 DEF HS!PauseEnds
<1>26. CASE HS!Patch
    BY <1>26 DEF HS!Patch
<1>27. CASE HS!WatchTakes
    BY <1>27 DEF HS!WatchTakes
<1>28. CASE HS!RedirectExpires
    BY <1>28 DEF HS!RedirectExpires, HS!Fault
<1>29. CASE UNCHANGED HS!singleVars
  BY <1>29 DEF HS!singleVars
<1> HIDE DEF HS!TypeOK, HS!OneLoop, HS!StrikesHeld, HS!FileFollows, HS!Through
<1>30. QED
    BY <1>1, <1>2, <1>3, <1>4, <1>5, <1>6, <1>7, <1>8, <1>9, <1>10, <1>11, <1>12, <1>13, <1>14,
     <1>15, <1>16, <1>17, <1>18, <1>19, <1>20, <1>21, <1>22, <1>23, <1>24, <1>25, <1>26, <1>27,
     <1>28, <1>29 DEF HS!Next, HS!ConnStep, HS!ConnFault, HS!LoopStep, HS!OpStep, HS!Calls


\* The invariant holds at first, for a new fetcher and for a restored one.
LEMMA SingleInit ==
  ASSUME HS!SingleConstants, HS!Init
  PROVE  HS!SingleInv
<1> USE DEF HS!SingleConstants, HS!Init, HS!gone, HS!Loops, HS!Bytes
<1>1. HS!TypeOK
  <2>1. right \subseteq HS!Bytes /\ got \in Nat
    OBVIOUS
  <2>2. /\ exists \in BOOLEAN /\ known \in BOOLEAN /\ cst \in {"notStarted", "downloading"}
        /\ sstate \in {"idle", "resolved"}
    OBVIOUS
  <2>3. loop \in [HS!Loops -> {"off", "begin", "first", "select", "wait"}]
    OBVIOUS
  <2>4. /\ range \in BOOLEAN /\ sized \in BOOLEAN /\ restored \in BOOLEAN
        /\ body \in BOOLEAN /\ pendingStart \in BOOLEAN /\ cfailed \in BOOLEAN
        /\ over \in BOOLEAN /\ sfile \in BOOLEAN /\ exp \in BOOLEAN /\ cancelled \in BOOLEAN
        /\ panic \in BOOLEAN /\ broken \in BOOLEAN
    OBVIOUS
  <2>5. /\ redir = "same" /\ cerr = "none" /\ cretry = 0 /\ counted = 0 /\ spos = 0
        /\ cpc = "gone" /\ mode = "body" /\ sdone = "none" /\ loopDone = "none" /\ spare = 0
        /\ sop = "idle" /\ requests = 0 /\ faults = 0 /\ sstarts = 0 /\ spauses = 0
    OBVIOUS
  <2> HIDE DEF HS!Init
  <2>6. QED
    BY <2>1, <2>2, <2>3, <2>4, <2>5 DEF HS!TypeOK
<1>2. HS!OneLoop /\ HS!StrikesHeld
  BY DEF HS!OneLoop, HS!StrikesHeld
<1>3. HS!AnswerHeld
  BY DEF HS!AnswerHeld
<1>4. HS!FileFollows
  BY DEF HS!FileFollows, HS!Through
<1>5. QED
  BY <1>1, <1>2, <1>3, <1>4 DEF HS!SingleInv

\* A step of another component leaves the fetcher alone.
LEMMA SingleSteps ==
  ASSUME [PartsNext]_partsVars
  PROVE  [HS!Next]_HS!singleVars
<1> USE DEF HS!singleVars, HS!resource, HS!conn, HS!local, HS!target, HS!control, HS!bounds, singleVars
<1>1. CASE SingleNext
  BY <1>1 DEF SingleNext
<1>2. CASE MultiNext
  BY <1>2 DEF MultiNext
<1>3. CASE BtNext
  BY <1>3 DEF BtNext
<1>4. CASE ExtNext
  BY <1>4 DEF ExtNext
<1>5. CASE FilesNext
  BY <1>5 DEF FilesNext
<1>6. CASE UNCHANGED partsVars
  BY <1>6 DEF partsVars
<1>7. QED
  BY <1>1, <1>2, <1>3, <1>4, <1>5, <1>6 DEF PartsNext

\* The inductive invariant of the fetcher for a resource without ranges: one download
\* loop at a time, the answer of Resolve kept for the first start, the file follows
\* what the connection counts.
THEOREM SingleInvariant ==
  ASSUME HS!SingleConstants
  PROVE  PartsSpec => []HS!SingleInv
<1>1. PartsInit => HS!SingleInv
  BY SingleInit DEF PartsInit
<1>2. HS!SingleInv /\ [PartsNext]_partsVars => HS!SingleInv'
  <2> SUFFICES ASSUME HS!SingleInv, [PartsNext]_partsVars
               PROVE  HS!SingleInv'
    OBVIOUS
  <2>1. [HS!Next]_HS!singleVars
    BY SingleSteps
  <2>2. HS!TypeOK' /\ HS!OneLoop' /\ HS!StrikesHeld' /\ HS!AnswerHeld' /\ HS!FileFollows'
    BY <2>1, SingleTypes, SingleLoops, SingleStrikes, SingleAnswer, SingleFile
  <2>3. QED
    BY <2>2 DEF HS!SingleInv
<1>3. QED
  BY <1>1, <1>2, PTL DEF PartsSpec

\* What Resolve was answered is what the first start downloads: no second request is
\* sent, whatever fails (Resolve, startResolveDownload, runConnectionWithResolveResp).
THEOREM AnswerIsKept ==
  ASSUME HS!SingleConstants
  PROVE  PartsSpec => []OneRequest
<1>1. HS!SingleInv => OneRequest
  BY DEF HS!SingleInv, HS!AnswerHeld, OneRequest, HS!OneRequest
<1>2. QED
  BY <1>1, SingleInvariant, PTL

\* A download that is Done is whole, with the exceptions WholeUnlessBroken names, when
\* Start finds neither the loop nor a left-over waiter of the attempt before
\* (onDownloadComplete).
THEOREM DoneIsWhole ==
  ASSUME HS!SingleConstants
  PROVE  PartsSpec => []WholeUnlessBroken
<1>1. HS!SingleInv => WholeUnlessBroken
  BY DEF HS!SingleInv, HS!FileFollows, HS!TypeOK, WholeUnlessBroken, HS!WholeUnlessBroken,
         HS!Whole, HS!Bytes
<1>2. QED
  BY <1>1, SingleInvariant, PTL

----------------------------------------------------------------------------
(* MultiPart                                                               *)

\* The key of an archive.
LEMMA MultiKeys ==
  ASSUME MP!MultiConstants, NEW t \in Parts
  PROVE  /\ Archive[t] \in MP!Archives /\ Archive[t] # "" /\ t \in MP!PartsOf(Archive[t])
         /\ Lead[Archive[t]] \in Parts /\ Archive[Lead[Archive[t]]] = Archive[t]
         /\ MP!fullBaseName(t) \in {Archive[t], ""}
         /\ MP!fullBaseName(Lead[Archive[t]]) \in {Archive[t], ""}
<1>1. Archive[t] \in MP!Archives /\ t \in MP!PartsOf(Archive[t])
  BY DEF MP!Archives, MP!PartsOf
<1>2. Archive[t] # "" /\ Lead[Archive[t]] \in MP!PartsOf(Archive[t])
  BY <1>1 DEF MP!MultiConstants
<1>3. Lead[Archive[t]] \in Parts /\ Archive[Lead[Archive[t]]] = Archive[t]
  BY <1>2 DEF MP!PartsOf
<1>4. QED
  BY <1>1, <1>2, <1>3 DEF MP!fullBaseName

\* A new job, and what the worker makes of the one it takes.
LEMMA JobForms ==
  ASSUME MP!MultiConstants
  PROVE  /\ \A t \in Parts : \A kind \in {"single", "multi"} :
              MP!newJob(t, kind) \in MP!JobRecords /\ MP!newJob(t, kind).at = "begin"
              /\ ~MP!newJob(t, kind).ok
         /\ MP!NoJob \in MP!JobRecords
         /\ MP!NoJob.at = "none" /\ MP!NoJob.kind = "none" /\ ~MP!NoJob.ok /\ MP!NoJob.key = ""
  BY DEF MP!newJob, MP!NoJob, MP!JobRecords

\* A job begins when the worker takes it.
LEMMA MultiJobs ==
  ASSUME MP!MultiConstants, MP!MultiInv, [MP!Next]_MP!multiVars
  PROVE  MP!JobsFormed'
<1> USE DEF MP!MultiInv, MP!tasksVars, MP!shown, MP!worker, MP!JobsFormed
<1>1. ASSUME NEW t \in Parts, MP!Recognise(t) PROVE MP!JobsFormed'
  <2>1. jobs' \in {jobs, jobs \union {MP!newJob(t, "single")}} /\ UNCHANGED job
    BY <1>1 DEF MP!Recognise, MP!enqueueSingleExtraction
  <2>2. QED
    BY <2>1, JobForms
<1>2. ASSUME NEW t \in Parts, MP!Claim(t) PROVE MP!JobsFormed'
  BY <1>2, JobForms DEF MP!Claim
<1>3. ASSUME NEW j \in jobs, MP!Begins(j) PROVE MP!JobsFormed'
  <2>1. j \in MP!JobRecords /\ j.t \in Parts
    BY DEF MP!TypeOK
  <2>2. MP!keyOf(j) \in MP!Archives \union {""}
    BY <2>1, MultiKeys DEF MP!keyOf
  <2>3. job' = [j EXCEPT !.at = "extract", !.key = MP!keyOf(j)] /\ jobs' = jobs \ {j}
    BY <1>3 DEF MP!Begins
  <2>4. job' \in MP!JobRecords /\ job'.at = "extract" /\ job'.t = j.t
    BY <2>1, <2>2, <2>3 DEF MP!JobRecords
  <2>5. QED
    BY <2>1, <2>3, <2>4
<1>4. CASE MP!Extracts
  <2>1. PICK ok \in BOOLEAN : job' = [job EXCEPT !.at = "result", !.ok = ok]
    BY <1>4 DEF MP!Extracts, MP!whole
  <2>2. job' \in MP!JobRecords /\ job'.at = "result" /\ job'.t = job.t /\ job'.kind = job.kind
    BY <2>1 DEF MP!JobRecords
  <2>3. QED
    BY <1>4, <2>2 DEF MP!Extracts
<1>5. CASE MP!Results
  <2>1. CASE job.kind = "multi"
    <3>1. job' = [job EXCEPT !.at = "update"] /\ UNCHANGED jobs
      BY <1>5, <2>1 DEF MP!Results
    <3>2. job' \in MP!JobRecords /\ job'.at = "update" /\ job'.t = job.t /\ job'.kind = job.kind
      BY <3>1 DEF MP!JobRecords
    <3>3. QED
      BY <3>1, <3>2
  <2>2. CASE job.kind # "multi"
    BY <1>5, <2>2, JobForms DEF MP!Results
  <2>3. QED
    BY <2>1, <2>2
<1>6. CASE MP!Updates
  <2>1. job' = [job EXCEPT !.at = "release"] /\ UNCHANGED jobs
    BY <1>6 DEF MP!Updates
  <2>2. job' \in MP!JobRecords /\ job'.at = "release" /\ job'.t = job.t /\ job'.kind = job.kind
    BY <2>1 DEF MP!JobRecords
  <2>3. QED
    BY <2>1, <2>2
<1>7. CASE MP!Releases
  BY <1>7, JobForms DEF MP!Releases
<1>8. CASE MP!Restart
  BY <1>8, JobForms DEF MP!Restart
<1>9. CASE UNCHANGED <<jobs, job>>
  <2> SUFFICES MP!JobRecords' = MP!JobRecords
    BY <1>9
  <2> QED
    BY DEF MP!JobRecords, MP!Archives
<1>10. QED
  BY <1>1, <1>2, <1>3, <1>4, <1>5, <1>6, <1>7, <1>8, <1>9
     DEF MP!Next, MP!WatchStep, MP!WorkerStep, MP!multiVars, MP!Starts, MP!Finishes, MP!Delete,
         MP!Check, MP!Waits, MP!Handled

\* What is deleted or done stays so, and a file goes only from a part that is.
LEMMA MultiOneWay ==
  ASSUME MP!MultiConstants, MP!MultiInv, [MP!Next]_MP!multiVars, NEW t \in Parts
  PROVE  /\ t \in queuedTasks' => t \in queuedTasks
         /\ dl[t] = "done" => dl'[t] = "done" /\ (disk'[t] => disk[t])
         /\ t \notin queuedTasks => (dl'[t] = "done" => dl[t] = "done") /\ (disk'[t] => disk[t])
         /\ disk[t] /\ ~disk'[t] => t \notin queuedTasks' \/ dl'[t] = "done"
<1> USE DEF MP!MultiInv, MP!TypeOK
<1>1. CASE \E u \in Parts : MP!Starts(u)
  BY <1>1 DEF MP!Starts
<1>2. CASE \E u \in Parts : MP!Finishes(u)
  BY <1>2 DEF MP!Finishes
<1>3. CASE \E u \in Parts : MP!Delete(u)
  BY <1>3 DEF MP!Delete
<1>4. CASE MP!Restart
  BY <1>4 DEF MP!Restart
<1>5. CASE MP!Results
  <2>1. UNCHANGED <<queuedTasks, dl>> /\ (disk'[t] => disk[t])
    BY <1>5 DEF MP!Results
  <2>2. disk[t] /\ ~disk'[t] => job.ok /\ t \in MP!PartsOf(Archive[job.t])
    BY <1>5 DEF MP!Results, MP!collected
  <2>3. job.ok => \A u \in MP!PartsOf(Archive[job.t]) : dl[u] = "done"
    BY DEF MP!ClaimHeld
  <2>4. QED
    BY <2>1, <2>2, <2>3
<1>6. CASE UNCHANGED <<queuedTasks, dl, disk>>
  BY <1>6
<1> HIDE DEF MP!MultiInv, MP!TypeOK
<1>7. \/ \E u \in Parts : MP!Starts(u) \/ MP!Finishes(u) \/ MP!Delete(u)
      \/ MP!Restart \/ MP!Results \/ UNCHANGED <<queuedTasks, dl, disk>>
  BY DEF MP!Next, MP!WatchStep, MP!WorkerStep, MP!multiVars, MP!tasksVars, MP!Recognise, MP!Check,
         MP!Waits, MP!Claim, MP!Handled, MP!Begins, MP!Extracts, MP!Updates, MP!Releases
<1>8. QED
  BY <1>1, <1>2, <1>3, <1>4, <1>5, <1>6, <1>7

\* What cannot become whole any more does not, and an archive that can does not
\* lose a part of its kind.
LEMMA MultiStays ==
  ASSUME MP!MultiConstants, MP!MultiInv, [MP!Next]_MP!multiVars,
         NEW a \in MP!Archives, ~MP!Incomplete(a)'
  PROVE  /\ ~MP!Incomplete(a)
         /\ \A t \in MP!PartsOf(a) : MP!isMultiPart(t) => MP!isMultiPart(t)'
<1>1. \A t \in MP!PartsOf(a) : t \in Parts /\ Archive[t] = a
  BY DEF MP!PartsOf
<1>2. Second[a] # "" => Second[a] \in MP!PartsOf(a)
  BY DEF MP!MultiConstants
<1>3. ~MP!Incomplete(a)
  BY <1>1, MultiOneWay DEF MP!Incomplete
<1>4. ASSUME NEW t \in MP!PartsOf(a), MP!isMultiPart(t) PROVE MP!isMultiPart(t)'
  <2>1. CASE Second[a] = "" \/ Lead[a] # t
    BY <1>1, <2>1 DEF MP!isMultiPart
  <2>2. CASE Second[a] # "" /\ Lead[a] = t
    <3>1. disk[Second[a]]
      BY <1>1, <1>4, <2>2 DEF MP!isMultiPart
    <3>2. disk'[Second[a]]
      BY <1>1, <1>2, <2>2, <3>1, MultiOneWay DEF MP!Incomplete
    <3>3. QED
      BY <1>1, <2>2, <3>2 DEF MP!isMultiPart
  <2>3. QED
    BY <2>1, <2>2
<1>5. QED
  BY <1>3, <1>4

\* A watcher that checks or claims for an archive that may become whole has seen
\* it as one of parts.
LEMMA MultiSeen ==
  ASSUME MP!MultiConstants, MP!MultiInv, [MP!Next]_MP!multiVars,
         NEW a \in MP!Archives, ~MP!Incomplete(a)', NEW t \in MP!PartsOf(a),
         wpc'[t] \in {"check", "claim"}
  PROVE  MP!isMultiPart(t)'
<1>1. t \in Parts /\ wpc \in [Parts -> {"off", "enqueue", "check", "wait", "claim", "handled"}]
  BY DEF MP!PartsOf, MP!MultiInv, MP!TypeOK
<1>2. wpc[t] \in {"check", "claim"} \/ MP!isMultiPart(t)
  <2> USE <1>1
  <2>1. CASE \E u \in Parts : MP!Finishes(u)
    BY <2>1 DEF MP!Finishes
  <2>2. CASE MP!Restart
    BY <2>2 DEF MP!Restart
  <2>3. CASE \E u \in Parts : MP!Recognise(u)
    BY <2>3 DEF MP!Recognise, MP!enqueueSingleExtraction
  <2>4. CASE \E u \in Parts : MP!Check(u)
    BY <2>4 DEF MP!Check
  <2>5. CASE \E u \in Parts : MP!Waits(u)
    BY <2>5 DEF MP!Waits
  <2>6. CASE \E u \in Parts : MP!Claim(u)
    BY <2>6 DEF MP!Claim
  <2>7. CASE \E u \in Parts : MP!Handled(u)
    BY <2>7 DEF MP!Handled
  <2>8. CASE UNCHANGED wpc
    BY <2>8
  <2>9. QED
    BY <2>1, <2>2, <2>3, <2>4, <2>5, <2>6, <2>7, <2>8
       DEF MP!Next, MP!WatchStep, MP!WorkerStep, MP!multiVars, MP!Starts, MP!Delete,
           MP!Begins, MP!Extracts, MP!Results, MP!Updates, MP!Releases
<1>3. MP!isMultiPart(t)
  BY <1>2, MultiStays DEF MP!MultiInv, MP!ClaimHeld
<1>4. QED
  BY <1>3, MultiStays

\* The job of an archive that may become whole is one, and holds the claim.
LEMMA MultiClaimed ==
  ASSUME MP!MultiConstants, MP!MultiInv, [MP!Next]_MP!multiVars,
         NEW a \in MP!Archives, ~MP!Incomplete(a)'
  PROVE  /\ MP!working(a)' # {} => a \in claims'
         /\ \A j, k \in MP!working(a)' : j = k
<1>1. /\ MP!working(a) # {} => a \in claims
      /\ \A j, k \in MP!working(a) : j = k
      /\ a # ""
      /\ \A t \in MP!PartsOf(a) : wpc[t] \in {"check", "claim"} => MP!isMultiPart(t)
  BY MultiStays DEF MP!MultiInv, MP!ClaimHeld, MP!MultiConstants
<1>2. \A j \in jobs : j # job /\ j.t \in Parts
  BY DEF MP!MultiInv, MP!TypeOK, MP!JobsFormed
<1>3. job.key # "" => job.kind = "multi" /\ job.key = Archive[job.t]
  BY DEF MP!MultiInv, MP!ClaimHeld
<1> USE DEF MP!working
<1>4. CASE UNCHANGED <<jobs, job, claims>>
  BY <1>1, <1>4
<1>5. CASE MP!Restart
  BY <1>5, JobForms DEF MP!Restart
<1>6. CASE \E t \in Parts : MP!Recognise(t)
  <2>1. PICK t \in Parts : MP!Recognise(t)
    BY <1>6
  <2>2. jobs' \subseteq jobs \union {MP!newJob(t, "single")} /\ UNCHANGED <<job, claims>>
    BY <2>1 DEF MP!Recognise, MP!enqueueSingleExtraction, MP!worker
  <2>3. MP!newJob(t, "single").kind = "single"
    BY DEF MP!newJob
  <2>4. MP!working(a)' \subseteq MP!working(a)
    BY <2>2, <2>3
  <2>5. QED
    BY <1>1, <2>2, <2>4
<1>7. CASE \E t \in Parts : MP!Claim(t)
  <2>1. PICK t \in Parts : MP!Claim(t)
    BY <1>7
  <2>2. CASE jobs' = jobs /\ claims' = claims
    BY <1>4, <2>1, <2>2 DEF MP!Claim
  <2>3. CASE ~(jobs' = jobs /\ claims' = claims)
    <3>1. /\ MP!fullBaseName(t) \notin claims
          /\ claims' = claims \union {MP!fullBaseName(t)}
          /\ jobs' = jobs \union {MP!newJob(t, "multi")} /\ job' = job /\ wpc[t] = "claim"
      BY <2>1, <2>3 DEF MP!Claim, MP!claimed
    <3>2. MP!newJob(t, "multi").t = t
      BY DEF MP!newJob
    <3>3. CASE Archive[t] # a
      <4>1. MP!working(a)' = MP!working(a)
        BY <3>1, <3>2, <3>3
      <4>2. QED
        BY <1>1, <3>1, <4>1
    <3>4. CASE Archive[t] = a
      <4>1. MP!fullBaseName(t) = a
        BY <1>1, <3>1, <3>4 DEF MP!PartsOf, MP!fullBaseName
      <4>2. MP!working(a) = {}
        BY <1>1, <3>1, <4>1
      <4>3. MP!working(a)' \subseteq {MP!newJob(t, "multi")}
        BY <3>1, <4>2
      <4>4. QED
        BY <3>1, <4>1, <4>3
    <3>5. QED
      BY <3>3, <3>4
  <2>4. QED
    BY <2>2, <2>3
<1>8. CASE \E j \in jobs : MP!Begins(j)
  <2>1. PICK j \in jobs : MP!Begins(j)
    BY <1>8
  <2>2. /\ job = MP!NoJob /\ jobs' = jobs \ {j} /\ claims' = claims
        /\ job' = [j EXCEPT !.at = "extract", !.key = MP!keyOf(j)]
    BY <2>1 DEF MP!Begins
  <2>3. j \in MP!JobRecords
    BY DEF MP!MultiInv, MP!JobsFormed
  <2>4. job'.kind = j.kind /\ job'.t = j.t
    BY <2>2, <2>3 DEF MP!JobRecords
  <2>5. CASE j \in MP!working(a)
    <3>1. MP!working(a)' \subseteq {job'}
      BY <1>1, <2>2, <2>5
    <3>2. QED
      BY <1>1, <2>2, <2>5, <3>1
  <2>6. CASE j \notin MP!working(a)
    <3>1. MP!working(a)' \subseteq MP!working(a)
      BY <2>2, <2>4, <2>6
    <3>2. QED
      BY <1>1, <2>2, <3>1
  <2>7. QED
    BY <2>5, <2>6
<1>9. CASE job' = MP!NoJob /\ UNCHANGED jobs /\ claims' \in {claims, claims \ {job.key}}
  <2>1. MP!working(a)' \subseteq MP!working(a) \ {job}
    BY <1>2, <1>9, JobForms
  <2>2. MP!working(a)' # {} => a \in claims'
    <3>1. CASE job \in MP!working(a)
      BY <1>1, <2>1, <3>1
    <3>2. CASE job \notin MP!working(a)
      <4>1. job.key # a
        BY <1>1, <1>3, <3>2
      <4>2. QED
        BY <1>1, <1>9, <2>1, <4>1
    <3>3. QED
      BY <3>1, <3>2
  <2>3. QED
    BY <1>1, <2>1, <2>2
<1>10. CASE job'.kind = job.kind /\ job'.t = job.t /\ UNCHANGED <<jobs, claims>>
  <2>1. CASE job \in MP!working(a)
    <3>1. MP!working(a)' \subseteq {job'}
      BY <1>1, <1>2, <1>10, <2>1
    <3>2. QED
      BY <1>1, <1>10, <2>1, <3>1
  <2>2. CASE job \notin MP!working(a)
    <3>1. MP!working(a)' \subseteq MP!working(a)
      BY <1>10, <2>2
    <3>2. QED
      BY <1>1, <1>10, <3>1
  <2>3. QED
    BY <2>1, <2>2
<1> HIDE DEF MP!working
<1>11. job \in MP!JobRecords
  BY DEF MP!MultiInv, MP!JobsFormed
<1>12. CASE MP!Extracts
  <2>1. \E ok : job' = [job EXCEPT !.at = "result", !.ok = ok]
    BY <1>12 DEF MP!Extracts
  <2>2. QED
    BY <1>10, <1>11, <1>12, <2>1 DEF MP!Extracts, MP!JobRecords
<1>13. CASE MP!Results
  <2>1. job' = [job EXCEPT !.at = "update"] \/ job' = MP!NoJob
    BY <1>13 DEF MP!Results
  <2>2. UNCHANGED <<jobs, claims>>
    BY <1>13 DEF MP!Results
  <2>3. QED
    BY <1>9, <1>10, <1>11, <2>1, <2>2 DEF MP!JobRecords
<1>14. CASE MP!Updates
  BY <1>10, <1>11, <1>14 DEF MP!Updates, MP!JobRecords
<1>15. CASE MP!Releases
  BY <1>9, <1>15 DEF MP!Releases
<1>16. QED
  BY <1>4, <1>5, <1>6, <1>7, <1>8, <1>12, <1>13, <1>14, <1>15
     DEF MP!Next, MP!WatchStep, MP!WorkerStep, MP!multiVars, MP!worker, MP!Starts, MP!Finishes,
         MP!Delete, MP!Check, MP!Waits, MP!Handled

\* What the worker's job holds and has found stays true.
LEMMA MultiJobHolds ==
  ASSUME MP!MultiConstants, MP!MultiInv, [MP!Next]_MP!multiVars
  PROVE  /\ job'.key # "" => job'.kind = "multi" /\ job'.key = Archive[job'.t]
         /\ job'.ok => \A t \in MP!PartsOf(Archive[job'.t]) : dl'[t] = "done"
<1>1. /\ job.key # "" => job.kind = "multi" /\ job.key = Archive[job.t]
      /\ job.ok => \A t \in MP!PartsOf(Archive[job.t]) : dl[t] = "done"
      /\ job \in MP!JobRecords
  BY DEF MP!MultiInv, MP!ClaimHeld, MP!JobsFormed
<1>2. \A t \in Parts : dl[t] = "done" => dl'[t] = "done"
  BY MultiOneWay
<1>3. \A a : MP!PartsOf(a) \subseteq Parts
  BY DEF MP!PartsOf
<1>4. CASE job'.key = job.key /\ job'.kind = job.kind /\ job'.t = job.t /\ job'.ok = job.ok
  BY <1>1, <1>2, <1>3, <1>4
<1>5. CASE job' = MP!NoJob
  BY <1>5, JobForms
<1>6. CASE \E j \in jobs : MP!Begins(j)
  <2>1. PICK j \in jobs : MP!Begins(j)
    BY <1>6
  <2>2. j \in MP!JobRecords /\ j.t \in Parts /\ (j.kind = "multi" \/ MP!keyOf(j) = "")
    BY DEF MP!MultiInv, MP!JobsFormed, MP!TypeOK, MP!keyOf
  <2>3. job' = [j EXCEPT !.at = "extract", !.key = MP!keyOf(j)]
    BY <2>1 DEF MP!Begins
  <2>4. job'.key = MP!keyOf(j) /\ job'.kind = j.kind /\ job'.t = j.t /\ job'.ok = j.ok
    BY <2>2, <2>3 DEF MP!JobRecords
  <2>5. MP!keyOf(j) \in {Archive[j.t], ""}
    BY <2>2, MultiKeys DEF MP!keyOf
  <2>6. ~j.ok
    BY DEF MP!MultiInv, MP!JobsFormed
  <2>7. QED
    BY <2>2, <2>4, <2>5, <2>6
<1>7. CASE MP!Extracts
  <2>1. PICK ok \in {FALSE, job.kind = "multi" /\ MP!whole(Archive[job.t])} :
          job' = [job EXCEPT !.at = "result", !.ok = ok]
    BY <1>7 DEF MP!Extracts
  <2>2. job'.key = job.key /\ job'.kind = job.kind /\ job'.t = job.t /\ job'.ok = ok
    BY <1>1, <2>1 DEF MP!JobRecords
  <2>3. ok => \A t \in MP!PartsOf(Archive[job.t]) : dl[t] = "done"
    BY <2>1 DEF MP!whole
  <2>4. QED
    BY <1>1, <1>2, <1>3, <2>2, <2>3
<1>8. CASE MP!Results \/ MP!Updates
  <2>1. job' = [job EXCEPT !.at = "update"] \/ job' = [job EXCEPT !.at = "release"]
          \/ job' = MP!NoJob
    BY <1>8 DEF MP!Results, MP!Updates
  <2>2. QED
    BY <1>1, <1>4, <1>5, <2>1 DEF MP!JobRecords
<1>9. QED
  BY <1>4, <1>5, <1>6, <1>7, <1>8
     DEF MP!Next, MP!WatchStep, MP!WorkerStep, MP!multiVars, MP!worker, MP!Starts, MP!Finishes,
         MP!Delete, MP!Check, MP!Waits, MP!Handled, MP!Recognise, MP!enqueueSingleExtraction,
         MP!Claim, MP!Restart, MP!Releases

\* Every variable of the archives keeps its type.
LEMMA MultiTypes ==
  ASSUME MP!MultiConstants, MP!MultiInv, [MP!Next]_MP!multiVars
  PROVE  MP!TypeOK'
<1> DEFINE Watch == {"off", "enqueue", "check", "wait", "claim", "handled"}
           Shown == {"none", "queued", "extracting", "waitingParts", "done", "error"}
<1> USE DEF MP!tasksVars, MP!shown, MP!worker
<1>1. /\ queuedTasks \subseteq Parts /\ dl \in [Parts -> {"ready", "running", "done"}]
      /\ disk \in [Parts -> BOOLEAN] /\ xstat \in [Parts -> Shown] /\ wpc \in [Parts -> Watch]
      /\ claims \subseteq MP!Archives \union {""} /\ delAfter \in BOOLEAN
      /\ (\A j \in jobs : j.t \in Parts /\ j.kind \in {"single", "multi"})
      /\ fresh \subseteq Parts /\ tried \subseteq MP!Archives
      /\ job \in MP!JobRecords /\ (job.kind = "none" \/ job.t \in Parts)
  BY DEF MP!MultiInv, MP!TypeOK, MP!JobsFormed
<1>2. (queuedTasks \subseteq Parts /\ fresh \subseteq Parts /\ delAfter \in BOOLEAN)'
  BY <1>1 DEF MP!Next, MP!WatchStep, MP!WorkerStep, MP!multiVars, MP!Starts, MP!Finishes,
       MP!Delete, MP!Restart, MP!Recognise, MP!Check, MP!Waits, MP!Claim, MP!Handled, MP!Begins,
       MP!Extracts, MP!Results, MP!Updates, MP!Releases
<1>3. (dl \in [Parts -> {"ready", "running", "done"}])'
  <2>1. CASE \E t \in Parts : MP!Starts(t) \/ MP!Finishes(t)
    <3>1. \E t \in Parts : \E d \in {"running", "done"} : dl' = [dl EXCEPT ![t] = d]
      BY <2>1 DEF MP!Starts, MP!Finishes
    <3>2. QED
      BY <1>1, <3>1
  <2>2. CASE MP!Restart
    BY <1>1, <2>2 DEF MP!Restart
  <2>3. CASE UNCHANGED dl
    BY <1>1, <2>3
  <2>4. QED
    BY <2>1, <2>2, <2>3
       DEF MP!Next, MP!WatchStep, MP!WorkerStep, MP!multiVars, MP!Delete, MP!Recognise, MP!Check,
           MP!Waits, MP!Claim, MP!Handled, MP!Begins, MP!Extracts, MP!Results, MP!Updates,
           MP!Releases
<1>4. (disk \in [Parts -> BOOLEAN])'
  <2>1. CASE \E t \in Parts : MP!Starts(t)
    BY <1>1, <2>1 DEF MP!Starts
  <2>2. CASE \E t \in Parts : MP!Delete(t)
    BY <1>1, <2>2 DEF MP!Delete
  <2>3. CASE MP!Results
    BY <1>1, <2>3 DEF MP!Results
  <2>4. CASE UNCHANGED disk
    BY <1>1, <2>4
  <2>5. QED
    BY <2>1, <2>2, <2>3, <2>4
       DEF MP!Next, MP!WatchStep, MP!WorkerStep, MP!multiVars, MP!Finishes, MP!Restart,
           MP!Recognise, MP!Check, MP!Waits, MP!Claim, MP!Handled, MP!Begins, MP!Extracts,
           MP!Updates, MP!Releases
<1>5. (xstat \in [Parts -> Shown])'
  <2>1. CASE \E t \in Parts : MP!Recognise(t) \/ MP!Waits(t) \/ MP!Claim(t) \/ MP!Handled(t)
    BY <1>1, <2>1 DEF MP!Recognise, MP!enqueueSingleExtraction, MP!Waits, MP!Claim, MP!Handled
  <2>2. CASE \E j \in jobs : MP!Begins(j)
    BY <1>1, <2>2 DEF MP!Begins
  <2>3. CASE MP!Results
    BY <1>1, <2>3 DEF MP!Results
  <2>4. CASE MP!Updates
    BY <1>1, <2>4 DEF MP!Updates
  <2>5. CASE UNCHANGED xstat
    BY <1>1, <2>5
  <2>6. QED
    BY <2>1, <2>2, <2>3, <2>4, <2>5
       DEF MP!Next, MP!WatchStep, MP!WorkerStep, MP!multiVars, MP!Starts, MP!Finishes, MP!Delete,
           MP!Restart, MP!Check, MP!Extracts, MP!Releases
<1>6. (wpc \in [Parts -> Watch])'
  <2>1. CASE \E t \in Parts : MP!Recognise(t) \/ MP!Check(t) \/ MP!Claim(t)
    BY <1>1, <2>1 DEF MP!Recognise, MP!enqueueSingleExtraction, MP!Check, MP!Claim
  <2>2. CASE \E t \in Parts : MP!Finishes(t) \/ MP!Waits(t) \/ MP!Handled(t)
    BY <1>1, <2>2 DEF MP!Finishes, MP!Waits, MP!Handled
  <2>3. CASE MP!Restart
    BY <1>1, <2>3 DEF MP!Restart
  <2>4. CASE UNCHANGED wpc
    BY <1>1, <2>4
  <2>5. QED
    BY <2>1, <2>2, <2>3, <2>4
       DEF MP!Next, MP!WatchStep, MP!WorkerStep, MP!multiVars, MP!Starts, MP!Delete, MP!Begins,
           MP!Extracts, MP!Results, MP!Updates, MP!Releases
<1>7. (claims \subseteq MP!Archives \union {""})'
  <2>1. CASE \E t \in Parts : MP!Claim(t)
    <3>1. PICK t \in Parts : MP!Claim(t)
      BY <2>1
    <3>2. claims' \subseteq claims \union {MP!fullBaseName(t)}
      BY <3>1 DEF MP!Claim
    <3>3. MP!fullBaseName(t) \in MP!Archives \union {""}
      BY MultiKeys
    <3>4. QED
      BY <1>1, <3>2, <3>3
  <2>2. CASE claims' \subseteq claims
    BY <1>1, <2>2
  <2>3. QED
    BY <2>1, <2>2
       DEF MP!Next, MP!WatchStep, MP!WorkerStep, MP!multiVars, MP!Starts, MP!Finishes, MP!Delete,
           MP!Restart, MP!Recognise, MP!enqueueSingleExtraction, MP!Check, MP!Waits, MP!Handled,
           MP!Begins, MP!Extracts, MP!Results, MP!Updates, MP!Releases
<1>8. (\A j \in jobs : j.t \in Parts /\ j.kind \in {"single", "multi"})'
  <2>1. \A t \in Parts : /\ MP!newJob(t, "single").t = t /\ MP!newJob(t, "single").kind = "single"
                         /\ MP!newJob(t, "multi").t = t /\ MP!newJob(t, "multi").kind = "multi"
    BY DEF MP!newJob
  <2>2. CASE \E t \in Parts : MP!Recognise(t) \/ MP!Claim(t)
    <3>1. PICK t \in Parts : MP!Recognise(t) \/ MP!Claim(t)
      BY <2>2
    <3>2. jobs' \subseteq jobs \union {MP!newJob(t, "single"), MP!newJob(t, "multi")}
      BY <3>1 DEF MP!Recognise, MP!enqueueSingleExtraction, MP!Claim
    <3>3. \A j \in {MP!newJob(t, "single"), MP!newJob(t, "multi")} :
            j.t \in Parts /\ j.kind \in {"single", "multi"}
      BY <2>1
    <3>4. QED
      BY <1>1, <3>2, <3>3
  <2>3. CASE jobs' \subseteq jobs
    BY <1>1, <2>3
  <2>4. QED
    BY <2>2, <2>3
       DEF MP!Next, MP!WatchStep, MP!WorkerStep, MP!multiVars, MP!Starts, MP!Finishes, MP!Delete,
           MP!Restart, MP!Check, MP!Waits, MP!Handled, MP!Begins, MP!Extracts, MP!Results,
           MP!Updates, MP!Releases
<1>9. (tried \subseteq MP!Archives)'
  <2>1. CASE MP!Extracts
    <3>1. job.kind = "multi" => Archive[job.t] \in MP!Archives
      BY <1>1, MultiKeys
    <3>2. tried' \subseteq tried \union (IF job.kind = "multi" THEN {Archive[job.t]} ELSE {})
      BY <2>1 DEF MP!Extracts
    <3>3. QED
      BY <1>1, <3>1, <3>2
  <2>2. CASE UNCHANGED tried
    BY <1>1, <2>2
  <2>3. QED
    BY <2>1, <2>2
       DEF MP!Next, MP!WatchStep, MP!WorkerStep, MP!multiVars, MP!Starts, MP!Finishes, MP!Delete,
           MP!Restart, MP!Recognise, MP!Check, MP!Waits, MP!Claim, MP!Handled, MP!Begins,
           MP!Results, MP!Updates, MP!Releases
<1>10. QED
  BY <1>2, <1>3, <1>4, <1>5, <1>6, <1>7, <1>8, <1>9 DEF MP!TypeOK

LEMMA MultiInit ==
  ASSUME MP!MultiConstants, MP!Init
  PROVE  MP!MultiInv
<1>1. MP!TypeOK
  BY DEF MP!Init, MP!TypeOK
<1>2. MP!JobsFormed
  BY JobForms DEF MP!Init, MP!JobsFormed
<1>3. MP!ClaimHeld
  BY JobForms DEF MP!Init, MP!ClaimHeld, MP!working, MP!PartsOf
<1>4. QED
  BY <1>1, <1>2, <1>3 DEF MP!MultiInv

\* A step of another component leaves the archives alone.
LEMMA MultiSteps ==
  ASSUME [PartsNext]_partsVars
  PROVE  [MP!Next]_MP!multiVars
<1> USE DEF MP!multiVars, MP!tasksVars, MP!shown, MP!worker, multiVars
<1>1. CASE SingleNext
  BY <1>1 DEF SingleNext
<1>2. CASE MultiNext
  BY <1>2 DEF MultiNext
<1>3. CASE BtNext
  BY <1>3 DEF BtNext
<1>4. CASE ExtNext
  BY <1>4 DEF ExtNext
<1>5. CASE FilesNext
  BY <1>5 DEF FilesNext
<1>6. CASE UNCHANGED partsVars
  BY <1>6 DEF partsVars
<1>7. QED
  BY <1>1, <1>2, <1>3, <1>4, <1>5, <1>6 DEF PartsNext

\* The inductive invariant of the archives in parts: of an archive that may become
\* whole there is one job, which holds the claim of the archive.
THEOREM MultiInvariant ==
  ASSUME MP!MultiConstants
  PROVE  PartsSpec => []MP!MultiInv
<1>1. PartsInit => MP!MultiInv
  BY MultiInit DEF PartsInit
<1>2. MP!MultiInv /\ [PartsNext]_partsVars => MP!MultiInv'
  <2> SUFFICES ASSUME MP!MultiInv, [PartsNext]_partsVars
               PROVE  MP!MultiInv'
    OBVIOUS
  <2>1. [MP!Next]_MP!multiVars
    BY MultiSteps
  <2>2. MP!TypeOK' /\ MP!JobsFormed'
    BY <2>1, MultiTypes, MultiJobs
  <2>3. MP!ClaimHeld'
    BY <2>1, MultiJobHolds, MultiSeen, MultiClaimed DEF MP!ClaimHeld
  <2>4. QED
    BY <2>2, <2>3 DEF MP!MultiInv
<1>3. QED
  BY <1>1, <1>2, PTL DEF PartsSpec

\* The cardinality MultiPart speaks of is that of FiniteSets.
LEMMA MultiCardinality ==
  ASSUME NEW S
  PROVE  MP!Cardinality(S) = Cardinality(S)
  BY Zenon DEF MP!Cardinality, Cardinality

\* An archive whose parts are all done and there is in the queue at most once
\* (tryClaimMultiPartExtraction, releaseMultiPartExtractionClaim).
THEOREM ExtractedOnce ==
  ASSUME MP!MultiConstants
  PROVE  PartsSpec => []OneAtATime
<1>1. MP!MultiInv => OneAtATime
  <2> SUFFICES ASSUME MP!MultiInv
               PROVE  MP!OneAtATime
    BY DEF OneAtATime
  <2> SUFFICES ASSUME NEW a \in MP!Archives, MP!whole(a)
               PROVE  Cardinality(MP!working(a)) <= 1
    BY MultiCardinality DEF MP!OneAtATime
  <2>1. ~MP!Incomplete(a)
    BY DEF MP!whole, MP!Incomplete
  <2>2. \A j, k \in MP!working(a) : j = k
    BY <2>1 DEF MP!MultiInv, MP!ClaimHeld
  <2>3. CASE MP!working(a) = {}
    BY <2>3, FS_EmptySet
  <2>4. CASE MP!working(a) # {}
    <3>1. PICK j : MP!working(a) = {j}
      BY <2>2, <2>4
    <3>2. QED
      BY <3>1, FS_Singleton
  <2>5. QED
    BY <2>3, <2>4
<1>2. QED
  BY <1>1, MultiInvariant, PTL

----------------------------------------------------------------------------
(* BtFetcher                                                               *)

\* A step of Close leaves the calls of Close well-formed.
LEMMA BtClosing ==
  ASSUME closing \in [Fetchers -> [BT!Closers -> {"off", "drop", "send", "count", "client"}]],
         NEW f \in Fetchers, NEW w \in BT!Closers,
         NEW to \in {"off", "drop", "send", "count", "client"}, BT!Closes(f, w, to)
  PROVE  closing' \in [Fetchers -> [BT!Closers -> {"off", "drop", "send", "count", "client"}]]
  BY DEF BT!Closes

\* Every variable of the fetchers keeps its type.
LEMMA BtTypes ==
  ASSUME BT!BtConstants, BT!BtInv, [BT!Next]_BT!btVars
  PROVE  BT!TypeOK'
<1> USE DEF BT!BtConstants, BT!BtInv, BT!btClient, BT!handle, BT!runs, BT!data, BT!channels,
            BT!waiters, BT!ends, BT!task, BT!TypeOK, BT!Closers
<1>1. ASSUME NEW f \in Fetchers, BT!Starts(f)
       PROVE  BT!TypeOK'
  BY <1>1 DEF BT!Starts, BT!Called
<1>2. ASSUME NEW f \in Fetchers, BT!Uploads(f)
       PROVE  BT!TypeOK'
  BY <1>2 DEF BT!Uploads, BT!Called
<1>3. ASSUME NEW f \in Fetchers, BT!Delete(f)
       PROVE  BT!TypeOK'
  <2>1. CASE built[f]
    <3>1. deleted' \in [Fetchers -> BOOLEAN]
      BY <1>3, <2>1 DEF BT!Delete, BT!Called, BT!Closes
    <3>2. closing' \in [Fetchers -> [BT!Closers -> {"off", "drop", "send", "count", "client"}]]
      <4>1. BT!Closes(f, "delete", "drop") /\ "delete" \in BT!Closers
        BY <1>3, <2>1 DEF BT!Delete
      <4>2. QED
        BY <4>1, BtClosing
    <3>3. QED
      BY <1>3, <2>1, <3>1, <3>2 DEF BT!Delete, BT!Called
  <2>2. CASE ~built[f]
    BY <1>3, <2>2 DEF BT!Delete, BT!Called, BT!Closes
  <2>3. QED
    BY <2>1, <2>2
<1>4. ASSUME NEW f \in Fetchers, BT!Pause(f)
       PROVE  BT!TypeOK'
  <2>1. CASE ~built[f]
    BY <1>4, <2>1 DEF BT!Pause, BT!Called, BT!Panics
  <2>2. CASE built[f] /\ torrent[f]
    <3>1. onHold' \in [Fetchers -> BOOLEAN]
      BY <1>4, <2>2 DEF BT!Pause, BT!Called, BT!Panics
    <3>2. allow' \in [Fetchers -> BOOLEAN]
      BY <1>4, <2>2 DEF BT!Pause, BT!Called, BT!Panics
    <3>3. QED
      BY <1>4, <2>2, <3>1, <3>2 DEF BT!Pause, BT!Called
  <2>3. CASE built[f] /\ ~torrent[f]
    BY <1>4, <2>3 DEF BT!Pause, BT!Called, BT!Panics
  <2>4. QED
    BY <2>1, <2>2, <2>3
<1>5. ASSUME NEW f \in Fetchers, BT!Stats(f)
       PROVE  BT!TypeOK'
  BY <1>5 DEF BT!Stats, BT!Called
<1>6. ASSUME NEW f \in Fetchers, NEW S \in Selections, BT!Patch(f, S)
       PROVE  BT!TypeOK'
  BY <1>6 DEF BT!Patch, BT!Called
<1>7. ASSUME NEW f \in Fetchers, BT!initClient(f)
       PROVE  BT!TypeOK'
  BY <1>7 DEF BT!initClient
<1>8. ASSUME NEW f \in Fetchers, BT!addTorrent(f)
       PROVE  BT!TypeOK'
  <2>1. CASE client
    <3>1. live' \subseteq Fetchers
      BY <1>8, <2>1 DEF BT!addTorrent, BT!Panics
    <3>2. torrent' \in [Fetchers -> BOOLEAN]
      BY <1>8, <2>1 DEF BT!addTorrent, BT!Panics
    <3>3. starter' \in [Fetchers -> {"off", "init", "add", "info", "run"}]
      BY <1>8, <2>1 DEF BT!addTorrent, BT!Panics
    <3>4. UNCHANGED <<client, built, info, ready, asUpload, seeder, allow, have, sel, dropped, udone,
                      waiter, upWaiter, closing, patching, finished, onHold, deleted, short,
                      dead>>
      BY <1>8, <2>1 DEF BT!addTorrent
    <3>5. \A b \in {built', torrent', info', ready', asUpload', allow', dropped', udone', finished',
                    onHold', deleted'} : b \in [Fetchers -> BOOLEAN]
      BY <3>2, <3>4
    <3>6. /\ (have \in [Fetchers -> SUBSET Files] /\ sel \in [Fetchers -> SUBSET Files])'
          /\ (client \in BOOLEAN /\ short \in BOOLEAN /\ dead \in BOOLEAN)'
      BY <3>4
    <3>7. QED
      BY <3>1, <3>3, <3>4, <3>5, <3>6
  <2>2. CASE ~client
    BY <1>8, <2>2 DEF BT!addTorrent, BT!Panics
  <2>3. QED
    BY <2>1, <2>2
<1>9. ASSUME NEW f \in Fetchers, BT!GotInfo(f)
       PROVE  BT!TypeOK'
  BY <1>9 DEF BT!GotInfo
<1>10. ASSUME NEW f \in Fetchers, BT!Runs(f)
        PROVE  BT!TypeOK'
  BY <1>10 DEF BT!Runs
<1>11. ASSUME NEW f \in Fetchers, NEW w \in BT!Closers, BT!Drops(f, w)
        PROVE  BT!TypeOK'
  BY <1>11 DEF BT!Drops, BT!Closes, BT!dropCtx
<1>12. ASSUME NEW f \in Fetchers, NEW w \in BT!Closers, BT!Sends(f, w)
        PROVE  BT!TypeOK'
  BY <1>12 DEF BT!Sends, BT!Closes
<1>13. ASSUME NEW f \in Fetchers, NEW w \in BT!Closers, BT!Counts(f, w)
        PROVE  BT!TypeOK'
  <2>1. CASE client
    <3>1. closing' \in [Fetchers -> [BT!Closers -> {"off", "drop", "send", "count", "client"}]]
      <4>1. \E to \in {"off", "client"} : BT!Closes(f, w, to)
        BY <1>13, <2>1 DEF BT!Counts
      <4>2. QED
        BY <4>1, BtClosing
    <3>2. QED
      BY <1>13, <2>1, <3>1 DEF BT!Counts
  <2>2. CASE ~client
    BY <1>13, <2>2 DEF BT!Counts, BT!Closes, BT!Panics
  <2>3. QED
    BY <2>1, <2>2
<1>14. ASSUME NEW f \in Fetchers, NEW w \in BT!Closers, BT!ClosesClient(f, w)
        PROVE  BT!TypeOK'
  BY <1>14 DEF BT!ClosesClient, BT!Closes
<1>15. ASSUME NEW f \in Fetchers, BT!WaitReturns(f)
        PROVE  BT!TypeOK'
  BY <1>15 DEF BT!WaitReturns
<1>16. ASSUME NEW f \in Fetchers, BT!WaitUploadReturns(f)
        PROVE  BT!TypeOK'
  BY <1>16 DEF BT!WaitUploadReturns
<1>17. ASSUME NEW f \in Fetchers, BT!SeederEnds(f)
        PROVE  BT!TypeOK'
  BY <1>17 DEF BT!SeederEnds
<1>18. ASSUME NEW f \in Fetchers, BT!PatchResets(f)
        PROVE  BT!TypeOK'
  BY <1>18 DEF BT!PatchResets
<1>19. ASSUME NEW f \in Fetchers, BT!InfoArrives(f)
        PROVE  BT!TypeOK'
  BY <1>19 DEF BT!InfoArrives
<1>20. ASSUME NEW f \in Fetchers, BT!Fetches(f)
        PROVE  BT!TypeOK'
  BY <1>20 DEF BT!Fetches
<1>21. ASSUME NEW f \in Fetchers, BT!SeedEnds(f)
        PROVE  BT!TypeOK'
  BY <1>21 DEF BT!SeedEnds, BT!maySeed
<1>22. ASSUME NEW f \in Fetchers, BT!ProgressReads(f)
        PROVE  BT!TypeOK'
  BY <1>22 DEF BT!ProgressReads, BT!Panics
<1>23. CASE UNCHANGED BT!btVars
  BY <1>23 DEF BT!btVars
<1> HIDE DEF BT!TypeOK, BT!Closers
<1>24. QED
  BY <1>1, <1>2, <1>3, <1>4, <1>5, <1>6, <1>7, <1>8, <1>9, <1>10, <1>11, <1>12, <1>13, <1>14,
     <1>15, <1>16, <1>17, <1>18, <1>19, <1>20, <1>21, <1>22, <1>23 DEF BT!Next, BT!ApiCalls,
     BT!StartStep, BT!CloseStep, BT!WaitStep

\* The seeder closes what is complete, and Patch does not select what is not there.
LEMMA BtSeeds ==
  ASSUME BT!BtConstants, BT!BtInv, [BT!Next]_BT!btVars
  PROVE  BT!SeedsWhole'
<1> USE DEF BT!BtConstants, BT!BtInv, BT!btClient, BT!handle, BT!runs, BT!data, BT!channels,
            BT!waiters, BT!ends, BT!task, BT!TypeOK, BT!Closers, BT!SeedsWhole, BT!isDone
<1>1. ASSUME NEW f \in Fetchers, BT!Starts(f)
       PROVE  BT!SeedsWhole'
  BY <1>1 DEF BT!Starts, BT!Called
<1>2. ASSUME NEW f \in Fetchers, BT!Uploads(f)
       PROVE  BT!SeedsWhole'
  BY <1>2 DEF BT!Uploads, BT!Called
<1>3. ASSUME NEW f \in Fetchers, BT!Delete(f)
       PROVE  BT!SeedsWhole'
  BY <1>3 DEF BT!Delete, BT!Called, BT!Closes
<1>4. ASSUME NEW f \in Fetchers, BT!Pause(f)
       PROVE  BT!SeedsWhole'
  BY <1>4 DEF BT!Pause, BT!Called, BT!Panics
<1>5. ASSUME NEW f \in Fetchers, BT!Stats(f)
       PROVE  BT!SeedsWhole'
  BY <1>5 DEF BT!Stats, BT!Called
<1>6. ASSUME NEW f \in Fetchers, NEW S \in Selections, BT!Patch(f, S)
       PROVE  BT!SeedsWhole'
  BY <1>6 DEF BT!Patch, BT!Called
<1>7. ASSUME NEW f \in Fetchers, BT!initClient(f)
       PROVE  BT!SeedsWhole'
  BY <1>7 DEF BT!initClient
<1>8. ASSUME NEW f \in Fetchers, BT!addTorrent(f)
       PROVE  BT!SeedsWhole'
  BY <1>8 DEF BT!addTorrent, BT!Panics
<1>9. ASSUME NEW f \in Fetchers, BT!GotInfo(f)
       PROVE  BT!SeedsWhole'
  BY <1>9 DEF BT!GotInfo
<1>10. ASSUME NEW f \in Fetchers, BT!Runs(f)
        PROVE  BT!SeedsWhole'
  BY <1>10 DEF BT!Runs
<1>11. ASSUME NEW f \in Fetchers, NEW w \in BT!Closers, BT!Drops(f, w)
        PROVE  BT!SeedsWhole'
  BY <1>11 DEF BT!Drops, BT!Closes, BT!dropCtx
<1>12. ASSUME NEW f \in Fetchers, NEW w \in BT!Closers, BT!Sends(f, w)
        PROVE  BT!SeedsWhole'
  BY <1>12 DEF BT!Sends, BT!Closes
<1>13. ASSUME NEW f \in Fetchers, NEW w \in BT!Closers, BT!Counts(f, w)
        PROVE  BT!SeedsWhole'
  <2>1. CASE client
    <3>1. \E to \in {"client", "off"} : BT!Closes(f, w, to)
      BY <1>13, <2>1 DEF BT!Counts
    <3>2. PICK to \in {"client", "off"} : BT!Closes(f, w, to)
      BY <3>1
    <3>3. closing[f][w] # "off"
      BY <1>13 DEF BT!Counts
    <3>4. \A g \in Fetchers, v \in BT!Closers : closing'[g][v] # "off" => closing[g][v] # "off"
      BY <3>2, <3>3 DEF BT!Closes
    <3>5. UNCHANGED <<short, sel, asUpload, seeder, finished, built, have, waiter, deleted, dropped>>
      BY <1>13, <2>1 DEF BT!Counts
    <3>6. QED
      BY <3>4, <3>5
  <2>2. CASE ~client
    BY <1>13, <2>2 DEF BT!Counts, BT!Closes, BT!Panics
  <2>3. QED
    BY <2>1, <2>2
<1>14. ASSUME NEW f \in Fetchers, NEW w \in BT!Closers, BT!ClosesClient(f, w)
        PROVE  BT!SeedsWhole'
  BY <1>14 DEF BT!ClosesClient, BT!Closes
<1>15. ASSUME NEW f \in Fetchers, BT!WaitReturns(f)
        PROVE  BT!SeedsWhole'
  <2>1. deleted[f] \/ (sel[f] # {} /\ BT!isDone(f))
    <3>1. sel[f] # {}
      <4>1. sel[f] \in Selections \/ sel[f] = Files
        OBVIOUS
      <4>2. Files # {} /\ (\A S \in Selections : S # {})
        OBVIOUS
      <4>3. QED
        BY <4>1, <4>2, Zenon
    <3>2. dropped[f] \/ BT!isDone(f)
      BY <1>15 DEF BT!WaitReturns
    <3>3. QED
      BY <3>1, <3>2
  <2>2. ~short'
    BY <1>15, <2>1 DEF BT!WaitReturns
  <2>3. built[f]
    BY <1>15 DEF BT!WaitReturns
  <2>4. QED
    BY <1>15, <2>2, <2>3 DEF BT!WaitReturns
<1>16. ASSUME NEW f \in Fetchers, BT!WaitUploadReturns(f)
        PROVE  BT!SeedsWhole'
  BY <1>16 DEF BT!WaitUploadReturns
<1>17. ASSUME NEW f \in Fetchers, BT!SeederEnds(f)
        PROVE  BT!SeedsWhole'
  BY <1>17 DEF BT!SeederEnds
<1>18. ASSUME NEW f \in Fetchers, BT!PatchResets(f)
        PROVE  BT!SeedsWhole'
  BY <1>18 DEF BT!PatchResets
<1>19. ASSUME NEW f \in Fetchers, BT!InfoArrives(f)
        PROVE  BT!SeedsWhole'
  BY <1>19 DEF BT!InfoArrives
<1>20. ASSUME NEW f \in Fetchers, BT!Fetches(f)
        PROVE  BT!SeedsWhole'
  BY <1>20 DEF BT!Fetches
<1>21. ASSUME NEW f \in Fetchers, BT!SeedEnds(f)
        PROVE  BT!SeedsWhole'
  BY <1>21 DEF BT!SeedEnds, BT!maySeed
<1>22. ASSUME NEW f \in Fetchers, BT!ProgressReads(f)
        PROVE  BT!SeedsWhole'
  BY <1>22 DEF BT!ProgressReads, BT!Panics
<1>23. CASE UNCHANGED BT!btVars
  BY <1>23 DEF BT!btVars
<1> HIDE DEF BT!TypeOK, BT!Closers, BT!SeedsWhole, BT!isDone
<1>24. QED
  BY <1>1, <1>2, <1>3, <1>4, <1>5, <1>6, <1>7, <1>8, <1>9, <1>10, <1>11, <1>12, <1>13, <1>14,
     <1>15, <1>16, <1>17, <1>18, <1>19, <1>20, <1>21, <1>22, <1>23 DEF BT!Next, BT!ApiCalls,
     BT!StartStep, BT!CloseStep, BT!WaitStep


LEMMA BtInit ==
  ASSUME BT!BtConstants, BT!Init
  PROVE  BT!BtInv
<1>1. BT!TypeOK
  BY DEF BT!BtConstants, BT!Init, BT!TypeOK, BT!Closers
<1>2. BT!SeedsWhole
  BY DEF BT!BtConstants, BT!Init, BT!SeedsWhole, BT!Closers, BT!isDone
<1>3. QED
  BY <1>1, <1>2 DEF BT!BtInv

\* A step of another component leaves the fetchers alone.
LEMMA BtSteps ==
  ASSUME [PartsNext]_partsVars
  PROVE  [BT!Next]_BT!btVars
<1> USE DEF BT!btVars, BT!btClient, BT!handle, BT!runs, BT!data, BT!channels, BT!waiters, BT!ends,
            BT!task, btVars
<1>1. CASE SingleNext
  BY <1>1 DEF SingleNext
<1>2. CASE MultiNext
  BY <1>2 DEF MultiNext
<1>3. CASE BtNext
  BY <1>3 DEF BtNext
<1>4. CASE ExtNext
  BY <1>4 DEF ExtNext
<1>5. CASE FilesNext
  BY <1>5 DEF FilesNext
<1>6. CASE UNCHANGED partsVars
  BY <1>6 DEF partsVars
<1>7. QED
  BY <1>1, <1>2, <1>3, <1>4, <1>5, <1>6 DEF PartsNext

\* The inductive invariant of the BitTorrent fetchers: what is seeded, closed by the
\* seeder or dropped for another reason than Delete is complete.
THEOREM BtInvariant ==
  ASSUME BT!BtConstants
  PROVE  PartsSpec => []BT!BtInv
<1>1. PartsInit => BT!BtInv
  BY BtInit DEF PartsInit
<1>2. BT!BtInv /\ [PartsNext]_partsVars => BT!BtInv'
  <2> SUFFICES ASSUME BT!BtInv, [PartsNext]_partsVars
               PROVE  BT!BtInv'
    OBVIOUS
  <2>1. [BT!Next]_BT!btVars
    BY BtSteps
  <2>2. BT!TypeOK' /\ BT!SeedsWhole'
    BY <2>1, BtTypes, BtSeeds
  <2>3. QED
    BY <2>2 DEF BT!BtInv
<1>3. QED
  BY <1>1, <1>2, PTL DEF PartsSpec

\* Wait returns for a task that is not deleted only when its files are there (Wait,
\* doUpload, Close), with one selection to patch to.
THEOREM WaitedIsComplete ==
  ASSUME BT!BtConstants
  PROVE  PartsSpec => []WaitMeansComplete
<1>1. BT!BtInv => WaitMeansComplete
  BY DEF BT!BtInv, BT!SeedsWhole, WaitMeansComplete, BT!WaitMeansComplete
<1>2. QED
  BY <1>1, BtInvariant, PTL

----------------------------------------------------------------------------
(* Extensions                                                              *)

\* What the settings of a version, of an upgrade and of a change are.
LEMMA ExtDefaults ==
  ASSUME EX!ExtConstants, NEW v \in DOMAIN Manifests
  PROVE  EX!defaults(Manifests[v]) \in EX!Settings
<1> DEFINE D == DOMAIN Manifests[v]
           s == EX!defaults(Manifests[v])
<1>1. D \in SUBSET Names
  BY DEF EX!ExtConstants
<1>2. \A n \in D : Manifests[v][n] \in EX!Types
  BY DEF EX!Types
<1>3. s \in [D -> [type : EX!Types, value : Values \union {"default"}]]
  BY <1>2 DEF EX!defaults
<1>4. QED
  BY <1>1, <1>3 DEF EX!Settings

LEMMA ExtSettings ==
  ASSUME NEW s \in EX!Settings
  PROVE  /\ DOMAIN s \subseteq Names
         /\ s \in [DOMAIN s -> [type : EX!Types, value : Values \union {"default"}]]
  BY DEF EX!Settings

LEMMA ExtMerged ==
  ASSUME NEW old \in EX!Settings, NEW new \in EX!Settings
  PROVE  /\ EX!merged(old, new) \in EX!Settings /\ DOMAIN EX!merged(old, new) = DOMAIN new
         /\ \A n \in DOMAIN new : n \in DOMAIN old /\ EX!merged(old, new)[n].type = old[n].type
              => EX!merged(old, new)[n] = old[n]
<1> DEFINE S == [type : EX!Types, value : Values \union {"default"}]
           s == EX!merged(old, new)
<1>1. DOMAIN new \in SUBSET Names /\ new \in [DOMAIN new -> S] /\ old \in [DOMAIN old -> S]
  BY ExtSettings
<1>2. s = [n \in DOMAIN new |-> IF n \in DOMAIN old /\ old[n].type = new[n].type
                                THEN old[n] ELSE new[n]]
  BY DEF EX!merged
<1>3. s \in [DOMAIN new -> S]
  BY <1>1, <1>2
<1>4. s \in EX!Settings
  BY <1>1, <1>3 DEF EX!Settings
<1>5. \A n \in DOMAIN new : n \in DOMAIN old /\ s[n].type = old[n].type => s[n] = old[n]
  BY <1>2
<1>6. QED
  BY <1>2, <1>4, <1>5

LEMMA ExtChanged ==
  ASSUME NEW s \in EX!Settings, NEW n \in DOMAIN s, NEW v \in Values,
         NEW u, u = [s EXCEPT ![n].value = v]
  PROVE  /\ u \in EX!Settings /\ DOMAIN u = DOMAIN s
         /\ \A m \in DOMAIN s : m # n => u[m] = s[m]
<1> DEFINE S == [type : EX!Types, value : Values \union {"default"}]
<1>1. DOMAIN s \in SUBSET Names /\ s \in [DOMAIN s -> S]
  BY ExtSettings
<1>2. u = [s EXCEPT ![n] = [s[n] EXCEPT !.value = v]]
  OBVIOUS
<1>3. [s[n] EXCEPT !.value = v] \in S
  BY <1>1
<1>4. u \in [DOMAIN s -> S]
  BY <1>1, <1>2, <1>3
<1>5. QED
  BY <1>1, <1>2, <1>4 DEF EX!Settings

LEMMA ExtEmpty ==
  ASSUME EX!ExtConstants
  PROVE EX!NoExt \in EX!Records /\ DOMAIN EX!NoExt.settings = {}
<1>1. DOMAIN EX!NoExt.settings = {}
  BY DEF EX!NoExt
<1>2. EX!NoExt.settings \in [{} -> [type : EX!Types, value : Values \union {"default"}]]
  BY DEF EX!NoExt
<1>3. EX!NoExt.settings \in EX!Settings
  BY <1>2 DEF EX!Settings
<1>4. EX!NoExt = [version |-> 0, disabled |-> FALSE, settings |-> EX!NoExt.settings]
  BY DEF EX!NoExt
<1>5. 0 \in 0..Len(Manifests)
  BY DEF EX!ExtConstants
<1>6. EX!NoExt \in EX!Records
  <2>1. PICK s : s \in EX!Settings /\ EX!NoExt = [version |-> 0, disabled |-> FALSE, settings |-> s]
    BY <1>3, <1>4
  <2>2. [version |-> 0, disabled |-> FALSE, settings |-> s] \in EX!Records
    BY <1>5, <2>1 DEF EX!Records
  <2>3. QED
    BY <2>1, <2>2
<1>7. QED
  BY <1>1, <1>6

\* append puts a new extension behind those that are listed.
LEMMA ExtListAdds ==
  ASSUME EX!ListFormed, NEW x \in Exts, x \notin EX!listed, size' = size + 1,
         array' = IF size < Len(array) THEN [array EXCEPT ![size + 1] = x] ELSE Append(array, x)
  PROVE  /\ EX!ListFormed' /\ EX!listed' = EX!listed \union {x}
         /\ DOMAIN array \subseteq DOMAIN array'
<1>1. /\ array \in Seq(Exts) /\ size \in 0..Len(array) /\ Len(array) \in Nat
      /\ \A i, j \in 1..size : array[i] = array[j] => i = j
  BY DEF EX!ListFormed
<1>2. /\ array' \in Seq(Exts) /\ size + 1 <= Len(array') /\ Len(array) <= Len(array')
      /\ array'[size + 1] = x /\ \A i \in 1..size : array'[i] = array[i]
  <2>1. CASE size < Len(array)
    BY <1>1, <2>1
  <2>2. CASE ~(size < Len(array))
    BY <1>1, <2>2
  <2>3. QED
    BY <2>1, <2>2
<1>3. EX!listed' = EX!listed \union {x}
  <2>1. 1..size' = 1..size \union {size + 1}
    BY <1>1
  <2>2. QED
    BY <1>2, <2>1 DEF EX!listed
<1>4. \A i \in 1..size : array[i] # x
  BY DEF EX!listed
<1>5. EX!ListFormed'
  BY <1>1, <1>2, <1>4 DEF EX!ListFormed
<1>6. DOMAIN array \subseteq DOMAIN array'
  BY <1>1, <1>2
<1>7. QED
  BY <1>3, <1>5, <1>6

\* What follows an extension that is deleted moves to the left.
LEMMA ExtListDrops ==
  ASSUME EX!ListFormed, NEW k \in 1..size, size' = size - 1,
         array' = [i \in DOMAIN array |-> IF i >= k /\ i < size THEN array[i + 1] ELSE array[i]]
  PROVE  /\ EX!ListFormed' /\ EX!listed' = EX!listed \ {array[k]}
         /\ DOMAIN array' = DOMAIN array
<1>1. /\ array \in Seq(Exts) /\ size \in 0..Len(array) /\ Len(array) \in Nat
      /\ \A i, j \in 1..size : array[i] = array[j] => i = j
      /\ DOMAIN array = 1..Len(array) /\ \A i \in 1..Len(array) : array[i] \in Exts
  BY DEF EX!ListFormed
<1>2. array' \in [1..Len(array) -> Exts]
  BY <1>1
<1>3. array' \in Seq(Exts) /\ Len(array') = Len(array)
  BY <1>1, <1>2
<1>4. \A i \in 1..(size - 1) : array'[i] = IF i >= k THEN array[i + 1] ELSE array[i]
  BY <1>1
<1>5. EX!ListFormed'
  BY <1>1, <1>3, <1>4 DEF EX!ListFormed
<1>6. EX!listed' \subseteq EX!listed \ {array[k]}
  <2> SUFFICES ASSUME NEW i \in 1..(size - 1)
               PROVE  array'[i] \in EX!listed \ {array[k]}
    BY DEF EX!listed
  <2>1. i \in 1..size /\ i + 1 \in 1..size
    BY <1>1
  <2>2. array'[i] = IF i >= k THEN array[i + 1] ELSE array[i]
    BY <1>4
  <2>3. CASE i >= k
    <3>1. i + 1 # k
      BY <1>1, <2>3
    <3>2. QED
      BY <1>1, <2>1, <2>2, <2>3, <3>1 DEF EX!listed
  <2>4. CASE ~(i >= k)
    <3>1. i # k
      BY <1>1, <2>4
    <3>2. QED
      BY <1>1, <2>1, <2>2, <2>4, <3>1 DEF EX!listed
  <2>5. QED
    BY <2>3, <2>4
<1>7. EX!listed \ {array[k]} \subseteq EX!listed'
  <2> SUFFICES ASSUME NEW j \in 1..size, array[j] # array[k]
               PROVE  array[j] \in EX!listed'
    BY DEF EX!listed
  <2>1. j # k
    OBVIOUS
  <2>2. PICK i \in 1..(size - 1) : array'[i] = array[j]
    <3>0. j < k \/ j > k
      BY <1>1, <2>1
    <3>1. CASE j < k
      BY <1>1, <1>4, <3>1
    <3>2. CASE j > k
      <4>1. j - 1 \in 1..(size - 1) /\ j - 1 >= k /\ (j - 1) + 1 = j
        BY <1>1, <3>2
      <4>2. array'[j - 1] = array[j]
        BY <1>4, <4>1
      <4>3. QED
        BY <4>1, <4>2
    <3>3. QED
      BY <3>0, <3>1, <3>2
  <2>3. QED
    BY <2>2 DEF EX!listed
<1>8. QED
  BY <1>2, <1>1, <1>5, <1>6, <1>7

\* After a restart each extension of the storage is listed once.
LEMMA ExtCardinality ==
  ASSUME NEW S
  PROVE  EX!Cardinality(S) = Cardinality(S)
  BY Zenon DEF EX!Cardinality, Cardinality

LEMMA ExtListLoads ==
  ASSUME NEW S, S \subseteq Exts, IsFiniteSet(S), NEW order \in [1..EX!Cardinality(S) -> S],
         \A i, j \in DOMAIN order : i # j => order[i] # order[j],
         array' = order, size' = Len(order)
  PROVE  EX!ListFormed' /\ EX!listed' = S
<1>1. Cardinality(S) \in Nat /\ order \in [1..Cardinality(S) -> S]
  BY ExtCardinality, FS_CardinalityType
<1>2. order \in Seq(Exts) /\ Len(order) = Cardinality(S)
  BY <1>1
<1>3. EX!ListFormed'
  <2>1. \A i, j \in 1..Len(order) : order[i] = order[j] => i = j
    BY <1>1, <1>2
  <2>2. Len(order) \in 0..Len(order)
    BY <1>1, <1>2
  <2>3. QED
    BY <1>2, <2>1, <2>2 DEF EX!ListFormed
<1>4. order \in Injection(1..Cardinality(S), S)
  BY <1>1 DEF Injection, IsInjective
<1>5. IsFiniteSet(1..Cardinality(S)) /\ Cardinality(1..Cardinality(S)) = Cardinality(S)
  BY <1>1, FS_Interval
<1>6. order \in Surjection(1..Cardinality(S), S)
  BY <1>4, <1>5, FS_Injection
<1>7. EX!listed' = S
  <2>1. \A x \in S : \E i \in 1..Len(order) : order[i] = x
    BY <1>2, <1>6 DEF Surjection
  <2>2. \A i \in 1..Len(order) : order[i] \in S
    BY <1>1, <1>2
  <2>3. QED
    BY <2>1, <2>2 DEF EX!listed
<1>8. QED
  BY <1>3, <1>7

\* What a call that begins, that ends and that stores leaves of CallsFormed.
LEMMA ExtRecord ==
  ASSUME NEW r \in EX!CallRecords
  PROVE  /\ r # EX!rest /\ r.x \in Exts
         /\ r.op \in {"install", "upgrade", "settings", "switch", "delete"}
         /\ r.at \in {"put", "list", "record"}
         /\ r = [op |-> r.op, x |-> r.x, at |-> r.at]
  BY DEF EX!CallRecords, EX!rest

LEMMA ExtCallBegins ==
  ASSUME EX!ExtConstants, EX!CallsFormed, NEW c \in Callers, NEW x \in Exts,
         NEW o \in {"install", "upgrade", "settings", "switch", "delete"},
         NEW w \in {"put", "list"}, w = "put" <=> o # "delete", EX!Call(c, o, x, w),
         EX!listed \subseteq EX!listed', x \in EX!listed'
  PROVE  /\ EX!CallsFormed'
         /\ o \in Alone => \A d \in Callers : ecall[d] = EX!rest
         /\ \A y \in Exts : (\A d \in Callers : ~EX!Pending(d, y)') =>
              y # x /\ \A d \in Callers : ~EX!Pending(d, y)
<1> DEFINE r == [op |-> o, x |-> x, at |-> w]
<1>1. r \in EX!CallRecords /\ r.op = o /\ r.x = x /\ r.at = w
  BY DEF EX!CallRecords
<1>2. r # EX!rest
  BY <1>1, ExtRecord
<1> HIDE DEF r
<1>3. /\ ecall[c] = EX!rest /\ ecall' = [ecall EXCEPT ![c] = r]
      /\ o \in Alone => \A d \in Callers : ecall[d] = EX!rest
      /\ \A d \in Callers : ecall[d] # EX!rest => ecall[d].op \notin Alone
  BY DEF EX!Call, r
<1>4. ecall \in [Callers -> EX!CallRecords \union {EX!rest}] /\ {"install", "delete"} \subseteq Alone
  BY DEF EX!CallsFormed, EX!ExtConstants
<1>5. /\ ecall' \in [Callers -> EX!CallRecords \union {EX!rest}]
      /\ ecall'[c] = r /\ \A d \in Callers : d # c => ecall'[d] = ecall[d]
  BY <1>1, <1>3, <1>4
<1>6. ASSUME NEW d \in Callers, ecall'[d] # EX!rest
      PROVE  /\ ecall'[d].at = "put" <=> ecall'[d].op # "delete"
             /\ ecall'[d].x \in EX!listed' <=> ecall'[d].at # "record"
             /\ ecall'[d].op \in Alone => \A e \in Callers \ {d} : ecall'[e] = EX!rest
  <2>1. CASE d = c
    BY <1>1, <1>3, <1>5, <2>1
  <2>2. CASE d # c
    <3>1. /\ ecall[d] # EX!rest /\ ecall'[d] = ecall[d] /\ ecall[d].op \notin Alone
          /\ ecall[d].at = "put" <=> ecall[d].op # "delete"
          /\ ecall[d].x \in EX!listed <=> ecall[d].at # "record"
      BY <1>3, <1>5, <1>6, <2>2 DEF EX!CallsFormed
    <3>2. ecall[d].op # "delete"
      BY <1>4, <3>1
    <3>3. QED
      BY <3>1, <3>2
  <2>3. QED
    BY <2>1, <2>2
<1>7. EX!CallsFormed'
  BY <1>5, <1>6 DEF EX!CallsFormed, EX!rest
<1>8. ASSUME NEW y \in Exts, \A d \in Callers : ~EX!Pending(d, y)'
      PROVE  y # x /\ \A d \in Callers : ~EX!Pending(d, y)
  <2>1. \A d \in Callers : ~(ecall'[d] # EX!rest /\ ecall'[d].x = y)
    BY <1>8 DEF EX!Pending, EX!rest
  <2>2. y # x
    BY <1>1, <1>2, <1>5, <2>1
  <2>3. \A d \in Callers : ~(ecall[d] # EX!rest /\ ecall[d].x = y)
    BY <1>3, <1>5, <2>1
  <2>4. QED
    BY <2>2, <2>3 DEF EX!Pending
<1>9. QED
  BY <1>3, <1>7, <1>8

LEMMA ExtCallEnds ==
  ASSUME EX!CallsFormed, NEW c \in Callers, ecall[c] # EX!rest,
         ecall' = [ecall EXCEPT ![c] = EX!rest], UNCHANGED <<array, size>>
  PROVE  /\ EX!CallsFormed' /\ EX!listed' = EX!listed
         /\ ecall[c] \in EX!CallRecords
         /\ \A y \in Exts : (\A d \in Callers : ~EX!Pending(d, y)') =>
              y = ecall[c].x \/ \A d \in Callers : ~EX!Pending(d, y)
<1>1. /\ ecall \in [Callers -> EX!CallRecords \union {EX!rest}] /\ ecall'[c] = EX!rest
      /\ ecall' \in [Callers -> EX!CallRecords \union {EX!rest}]
      /\ \A d \in Callers : d # c => ecall'[d] = ecall[d]
  BY DEF EX!CallsFormed
<1>2. EX!listed' = EX!listed
  BY DEF EX!listed
<1>3. EX!CallsFormed'
  <2>1. ASSUME NEW d \in Callers, ecall'[d] # EX!rest
        PROVE  /\ ecall'[d].at = "put" <=> ecall'[d].op # "delete"
               /\ ecall'[d].x \in EX!listed' <=> ecall'[d].at # "record"
               /\ ecall'[d].op \in Alone => \A e \in Callers \ {d} : ecall'[e] = EX!rest
    <3>1. d # c /\ ecall'[d] = ecall[d]
      BY <1>1, <2>1
    <3>2. QED
      BY <1>1, <1>2, <2>1, <3>1 DEF EX!CallsFormed
  <2>2. QED
    BY <1>1, <2>1 DEF EX!CallsFormed, EX!rest
<1>4. ASSUME NEW y \in Exts, \A d \in Callers : ~EX!Pending(d, y)', y # ecall[c].x,
             NEW d \in Callers
      PROVE  ~EX!Pending(d, y)
  <2>1. ~(ecall'[d] # EX!rest /\ ecall'[d].x = y)
    BY <1>4 DEF EX!Pending, EX!rest
  <2>2. QED
    BY <1>1, <1>4, <2>1 DEF EX!Pending
<1>5. QED
  BY <1>1, <1>2, <1>3, <1>4

\* What a step of a trigger, or a call that does not load the list, leaves.
LEMMA ExtTriggersStay ==
  ASSUME EX!TriggersFormed, trigger' = trigger, DOMAIN array \subseteq DOMAIN array'
  PROVE  EX!TriggersFormed'
  BY DEF EX!TriggersFormed, EX!At, EX!TriggerRecords, EX!rest

LEMMA ExtStoredStays ==
  ASSUME EX!StoredAsMeant, UNCHANGED <<array, size, ext, record, ecall, meant>>
  PROVE  EX!StoredAsMeant'
<1>1. EX!listed' = EX!listed
  BY DEF EX!listed
<1>2. QED
  BY <1>1 DEF EX!StoredAsMeant, EX!Pending, EX!NoExt, EX!rest

LEMMA ExtCallsStay ==
  ASSUME EX!CallsFormed, UNCHANGED <<array, size, ecall>>
  PROVE  EX!CallsFormed'
<1>1. EX!listed' = EX!listed
  BY DEF EX!listed
<1>2. QED
  BY <1>1 DEF EX!CallsFormed, EX!CallRecords, EX!rest

\* What a trigger has, and where a step may take it.
LEMMA ExtTrigger ==
  ASSUME EX!TriggersFormed, NEW g \in Triggers, trigger[g] # EX!rest
  PROVE  /\ trigger[g] \in EX!TriggerRecords /\ trigger[g].i \in Nat \ {0} /\ trigger[g].n \in Nat
         /\ trigger[g].op \in {"next", "call", "set", "ended"}
         /\ trigger[g].raw \in SUBSET Keys /\ trigger[g].ran \in SUBSET (Exts \X Exts)
         /\ trigger[g].handler \in Exts \union {"none"}
         /\ EX!Skipped(g) \in EX!TriggerRecords /\ EX!Skipped(g).op = "next"
         /\ \A e \in {"none", "other", "message"} :
              /\ [EX!Skipped(g) EXCEPT !.err = e] \in EX!TriggerRecords
              /\ [EX!Skipped(g) EXCEPT !.err = e].op = "next"
<1>1. trigger[g] \in EX!TriggerRecords
  BY DEF EX!TriggersFormed
<1>2. trigger[g].i \in Nat \ {0} /\ trigger[g].i + 1 \in Nat \ {0}
  BY <1>1 DEF EX!TriggerRecords
<1>3. EX!Skipped(g) \in EX!TriggerRecords /\ EX!Skipped(g).op = "next"
  BY <1>1, <1>2 DEF EX!TriggerRecords, EX!Skipped
<1>4. \A e \in {"none", "other", "message"} :
        /\ [EX!Skipped(g) EXCEPT !.err = e] \in EX!TriggerRecords
        /\ [EX!Skipped(g) EXCEPT !.err = e].op = "next"
  BY <1>3 DEF EX!TriggerRecords
<1>5. QED
  BY <1>1, <1>2, <1>3, <1>4 DEF EX!TriggerRecords

LEMMA ExtTriggerMoves ==
  ASSUME EX!TriggersFormed, NEW g \in Triggers, NEW r, EX!Moves(g, r), UNCHANGED array,
         r \in EX!TriggerRecords \union {EX!rest},
         r = EX!rest \/ r.op \in {"next", "ended"} \/ r.i \in DOMAIN array
  PROVE  EX!TriggersFormed'
<1>1. trigger' = [trigger EXCEPT ![g] = r] /\ trigger \in [Triggers -> EX!TriggerRecords \union {EX!rest}]
  BY DEF EX!Moves, EX!TriggersFormed
<1>2. /\ trigger' \in [Triggers -> EX!TriggerRecords \union {EX!rest}]
      /\ trigger'[g] = r /\ \A h \in Triggers : h # g => trigger'[h] = trigger[h]
  BY <1>1
<1>3. ASSUME NEW h \in Triggers, trigger'[h] # EX!rest, trigger'[h].op \in {"call", "set"}
      PROVE  trigger'[h].i \in DOMAIN array'
  <2>1. CASE h = g
    BY <1>2, <1>3, <2>1
  <2>2. CASE h # g
    BY <1>2, <1>3, <2>2 DEF EX!TriggersFormed, EX!At
  <2>3. QED
    BY <2>1, <2>2
<1>4. QED
  BY <1>2, <1>3 DEF EX!TriggersFormed, EX!At, EX!rest, EX!TriggerRecords
LEMMA ExtRest ==
  ASSUME EX!ExtInv,
         UNCHANGED <<array, size, ext, record, ecall, meant>>, EX!TriggersFormed',
         folder' = folder, store' \in [Exts -> SUBSET Keys], message' \subseteq Triggers
  PROVE  EX!ExtInv'
<1>1. EX!ListFormed'
  BY DEF EX!ListFormed, EX!ExtInv
<1>2. EX!Recorded'
  BY DEF EX!Recorded, EX!ExtInv, EX!Records, EX!Settings, EX!Types
<1>3. EX!CallsFormed'
  BY ExtCallsStay DEF EX!ExtInv
<1>4. EX!StoredAsMeant'
  BY ExtStoredStays DEF EX!ExtInv
<1>5. QED
  BY <1>1, <1>2, <1>3, <1>4 DEF EX!ExtInv

\* A step of a trigger disturbs neither the list nor what is stored of it.
LEMMA ExtTriggerSteps ==
  ASSUME EX!ExtInv, NEW g \in Triggers, EX!TriggerStep(g)
  PROVE  EX!ExtInv'
<1>0. /\ EX!TriggersFormed /\ EX!ListFormed /\ store \in [Exts -> SUBSET Keys]
      /\ message \subseteq Triggers /\ array \in Seq(Exts) /\ size \in Nat
  BY DEF EX!ExtInv, EX!Recorded, EX!ListFormed
<1>1. ASSUME EX!TriggerBegins(g)
      PROVE  EX!ExtInv'
  <2> DEFINE r == [op |-> "next", i |-> 1, n |-> size, handler |-> "none", err |-> "none",
                   raw |-> {}, ran |-> {}]
  <2>1. r \in EX!TriggerRecords /\ r.op = "next"
    BY <1>0 DEF EX!TriggerRecords
  <2>2. EX!Moves(g, r)
    BY <1>1 DEF EX!TriggerBegins, EX!Moves
  <2> HIDE DEF r
  <2>3. /\ UNCHANGED <<array, size, ext, record, ecall, meant, folder, store>>
        /\ message' \subseteq Triggers
    BY <1>0, <1>1 DEF EX!TriggerBegins, EX!memory, EX!saved
  <2>4. EX!TriggersFormed'
    BY <1>0, <2>1, <2>2, <2>3, ExtTriggerMoves
  <2>5. QED
    BY <1>0, <2>3, <2>4, ExtRest
<1>2. ASSUME EX!TriggerSkips(g)
      PROVE  EX!ExtInv'
  <2>1. trigger[g] # EX!rest
    BY <1>2 DEF EX!TriggerSkips, EX!At
  <2>2. PICK r : /\ r \in EX!TriggerRecords /\ r.op = "next" /\ EX!Moves(g, r)
    BY <1>0, <1>2, <2>1, ExtTrigger DEF EX!TriggerSkips
  <2>3. UNCHANGED <<array, size, ext, record, ecall, meant, folder, store, message>>
    BY <1>2 DEF EX!TriggerSkips, EX!memory, EX!saved, EX!history
  <2>4. EX!TriggersFormed'
    BY <1>0, <2>2, <2>3, ExtTriggerMoves
  <2>5. QED
    BY <1>0, <2>3, <2>4, ExtRest
<1>3. ASSUME EX!TriggerRuns(g)
      PROVE  EX!ExtInv'
  <2>1. trigger[g] # EX!rest /\ trigger[g].i \in DOMAIN array /\ EX!Current(g) \in Exts
    BY <1>0, <1>3 DEF EX!TriggerRuns, EX!At, EX!Current
  <2> DEFINE x == EX!Current(g)
             h == IF x \in Registers THEN x ELSE trigger[g].handler
             r == [trigger[g] EXCEPT !.op = "call", !.handler = h, !.err = "none",
                                     !.ran = @ \union {<<h, x>>}]
  <2>2. EX!Moves(g, IF h = "none" THEN [EX!Skipped(g) EXCEPT !.err = "none"] ELSE r)
    BY <1>3 DEF EX!TriggerRuns
  <2>3. h = "none" \/ h \in Exts
    BY <1>0, <2>1, ExtTrigger
  <2>4. CASE h = "none"
    BY <1>0, <2>1, <2>2, <2>4, ExtTrigger, <1>3, ExtTriggerMoves, ExtRest
      DEF EX!TriggerRuns, EX!memory, EX!saved, EX!history
  <2>5. CASE h # "none"
    <3>1. r \in EX!TriggerRecords /\ r.i \in DOMAIN array
      <4>1. trigger[g] \in EX!TriggerRecords /\ <<h, x>> \in Exts \X Exts
        BY <1>0, <2>1, <2>3, <2>5, ExtTrigger
      <4>2. trigger[g].ran \union {<<h, x>>} \in SUBSET (Exts \X Exts)
        BY <1>0, <2>1, <4>1, ExtTrigger
      <4> HIDE DEF h, x
      <4>3. QED
        BY <2>1, <2>3, <4>1, <4>2 DEF EX!TriggerRecords
    <3>2. EX!Moves(g, r)
      BY <2>2, <2>5
    <3> HIDE DEF r
    <3>3. UNCHANGED <<array, size, ext, record, ecall, meant, folder, store, message>>
      BY <1>3 DEF EX!TriggerRuns, EX!memory, EX!saved, EX!history
    <3>4. EX!TriggersFormed'
      BY <1>0, <3>1, <3>2, <3>3, ExtTriggerMoves
    <3>5. QED
      BY <1>0, <3>3, <3>4, ExtRest
  <2>6. QED
    BY <2>4, <2>5
<1>4. ASSUME EX!HandlerEnds(g)
      PROVE  EX!ExtInv'
  <2>1. trigger[g] # EX!rest
    BY <1>4 DEF EX!HandlerEnds, EX!At
  <2>2. PICK e \in {"none", "other", "message"} :
          /\ EX!Moves(g, [EX!Skipped(g) EXCEPT !.err = e])
          /\ message' = IF e = "message" THEN message \union {g} ELSE message
    BY <1>4 DEF EX!HandlerEnds
  <2>3. /\ UNCHANGED <<array, size, ext, record, ecall, meant, folder, store>>
        /\ message' \subseteq Triggers
    BY <1>0, <1>4, <2>2 DEF EX!HandlerEnds, EX!memory, EX!saved
  <2>4. EX!TriggersFormed'
    BY <1>0, <2>1, <2>2, <2>3, ExtTrigger, ExtTriggerMoves
  <2>5. QED
    BY <1>0, <2>3, <2>4, ExtRest
<1>5. ASSUME EX!HandlerReads(g)
      PROVE  EX!ExtInv'
  <2>1. trigger[g] # EX!rest /\ trigger[g].i \in DOMAIN array /\ EX!Current(g) \in Exts
    BY <1>0, <1>5 DEF EX!HandlerReads, EX!At, EX!Current, EX!TriggersFormed
  <2> DEFINE r == [trigger[g] EXCEPT !.op = "set", !.raw = store[EX!Current(g)]]
  <2>2. r \in EX!TriggerRecords /\ r.i \in DOMAIN array
    <3>1. trigger[g] \in EX!TriggerRecords /\ store[EX!Current(g)] \in SUBSET Keys
      BY <1>0, <2>1, ExtTrigger
    <3>2. QED
      BY <2>1, <3>1 DEF EX!TriggerRecords
  <2>3. EX!Moves(g, r)
    BY <1>5 DEF EX!HandlerReads
  <2> HIDE DEF r
  <2>4. UNCHANGED <<array, size, ext, record, ecall, meant, folder, store, message>>
    BY <1>5 DEF EX!HandlerReads, EX!memory, EX!saved, EX!history
  <2>5. EX!TriggersFormed'
    BY <1>0, <2>2, <2>3, <2>4, ExtTriggerMoves
  <2>6. QED
    BY <1>0, <2>4, <2>5, ExtRest
<1>6. ASSUME EX!HandlerWrites(g)
      PROVE  EX!ExtInv'
  <2>1. trigger[g] # EX!rest
    BY <1>6 DEF EX!HandlerWrites, EX!At
  <2>2. /\ UNCHANGED <<array, size, ext, record, ecall, meant, folder, message>>
        /\ EX!Moves(g, [EX!Skipped(g) EXCEPT !.err = "none"])
    BY <1>6 DEF EX!HandlerWrites, EX!memory, EX!history
  <2>3. store' \in [Exts -> SUBSET Keys]
    <3>1. trigger[g].raw \in SUBSET Keys
      BY <1>0, <2>1, ExtTrigger
    <3>2. QED
      BY <1>0, <1>6, <3>1 DEF EX!HandlerWrites
  <2>4. EX!TriggersFormed'
    BY <1>0, <2>1, <2>2, ExtTrigger, ExtTriggerMoves
  <2>5. QED
    BY <1>0, <2>2, <2>3, <2>4, ExtRest
<1>7. ASSUME EX!TriggerEnds(g)
      PROVE  EX!ExtInv'
  <2>1. trigger[g] # EX!rest
    BY <1>7 DEF EX!TriggerEnds, EX!At
  <2> DEFINE r == [trigger[g] EXCEPT !.op = "ended"]
  <2>2. r \in EX!TriggerRecords /\ r.op = "ended"
    <3>1. trigger[g] \in EX!TriggerRecords
      BY <1>0, <2>1, ExtTrigger
    <3>2. QED
      BY <3>1 DEF EX!TriggerRecords
  <2>3. EX!Moves(g, r)
    BY <1>7 DEF EX!TriggerEnds
  <2> HIDE DEF r
  <2>4. UNCHANGED <<array, size, ext, record, ecall, meant, folder, store, message>>
    BY <1>7 DEF EX!TriggerEnds, EX!memory, EX!saved, EX!history
  <2>5. EX!TriggersFormed'
    BY <1>0, <2>2, <2>3, <2>4, ExtTriggerMoves
  <2>6. QED
    BY <1>0, <2>4, <2>5, ExtRest
<1>8. ASSUME EX!TriggerReturns(g)
      PROVE  EX!ExtInv'
  <2>1. /\ UNCHANGED <<array, size, ext, record, ecall, meant, folder, store>>
        /\ message' \subseteq Triggers /\ EX!Moves(g, EX!rest)
    BY <1>0, <1>8 DEF EX!TriggerReturns, EX!memory, EX!saved
  <2>2. EX!TriggersFormed'
    BY <1>0, <2>1, ExtTriggerMoves
  <2>3. QED
    BY <1>0, <2>1, <2>2, ExtRest
<1>9. QED
  BY <1>1, <1>2, <1>3, <1>4, <1>5, <1>6, <1>7, <1>8 DEF EX!TriggerStep
\* What the invariant says of each extension.
LEMMA ExtParts ==
  ASSUME EX!ExtInv
  PROVE  /\ EX!ListFormed /\ EX!Recorded /\ EX!CallsFormed /\ EX!TriggersFormed /\ EX!StoredAsMeant
         /\ ext \in [Exts -> EX!Records] /\ record \in [Exts -> EX!Records]
         /\ folder \subseteq Exts /\ store \in [Exts -> SUBSET Keys] /\ message \subseteq Triggers
         /\ meant \in [Exts -> [Names -> Values \union {"default", "none"}]]
         /\ \A x \in Exts : /\ ext[x] \in EX!Records /\ ext[x].settings \in EX!Settings
                            /\ ext[x].version \in 0..Len(Manifests) /\ ext[x].disabled \in BOOLEAN
                            /\ ext[x] = [version |-> ext[x].version, disabled |-> ext[x].disabled,
                                         settings |-> ext[x].settings]
<1>1. \A r \in EX!Records :
        /\ r.settings \in EX!Settings /\ r.version \in 0..Len(Manifests) /\ r.disabled \in BOOLEAN
        /\ r = [version |-> r.version, disabled |-> r.disabled, settings |-> r.settings]
  BY DEF EX!Records
<1>2. QED
  BY <1>1 DEF EX!ExtInv, EX!Recorded

LEMMA ExtRecordedBy ==
  ASSUME ext' \in [Exts -> EX!Records], record' \in [Exts -> EX!Records],
         folder' \subseteq Exts, store' \in [Exts -> SUBSET Keys], message' \subseteq Triggers,
         meant' \in [Exts -> [Names -> Values \union {"default", "none"}]]
  PROVE  EX!Recorded'
  BY DEF EX!Recorded, EX!Records, EX!Settings, EX!Types

\* A part of StoredAsMeant for each extension: what is stored, what is meant.
LEMMA ExtStoredBy ==
  ASSUME NEW x \in Exts, EX!StoredAsMeant,
         \A y \in Exts : y # x /\ (\A d \in Callers : ~EX!Pending(d, y)') =>
           \A d \in Callers : ~EX!Pending(d, y),
         \A y \in Exts : y # x => (y \in EX!listed' <=> y \in EX!listed),
         \A y \in Exts : y # x => ext'[y] = ext[y] /\ record'[y] = record[y] /\ meant'[y] = meant[y],
         (\A d \in Callers : ~EX!Pending(d, x)') =>
           record'[x] = IF x \in EX!listed' THEN ext'[x] ELSE EX!NoExt,
         \A n \in Names : meant'[x][n] # "none" => \A e \in {ext'[x], record'[x]} :
           n \in DOMAIN e.settings /\ e.settings[n].value = meant'[x][n]
  PROVE  EX!StoredAsMeant'
<1>1. ASSUME NEW y \in Exts, \A d \in Callers : ~EX!Pending(d, y)'
      PROVE  record'[y] = IF y \in EX!listed' THEN ext'[y] ELSE EX!NoExt
  <2>1. CASE y = x
    BY <1>1, <2>1
  <2>2. CASE y # x
    <3>1. \A d \in Callers : ~EX!Pending(d, y)
      BY <1>1, <2>2
    <3>2. record[y] = IF y \in EX!listed THEN ext[y] ELSE EX!NoExt
      BY <3>1 DEF EX!StoredAsMeant
    <3>3. QED
      BY <2>2, <3>2
  <2>3. QED
    BY <2>1, <2>2
<1>2. ASSUME NEW y \in Exts, NEW n \in Names, meant'[y][n] # "none", NEW e \in {ext'[y], record'[y]}
      PROVE  n \in DOMAIN e.settings /\ e.settings[n].value = meant'[y][n]
  <2>1. CASE y = x
    BY <1>2, <2>1
  <2>2. CASE y # x
    BY <1>2, <2>2 DEF EX!StoredAsMeant
  <2>3. QED
    BY <2>1, <2>2
<1>3. EX!NoExt' = EX!NoExt
  BY DEF EX!NoExt
<1>4. QED
  BY <1>1, <1>2, <1>3 DEF EX!StoredAsMeant

LEMMA ExtUpgrades ==
  ASSUME EX!ExtConstants, EX!ExtInv, NEW c \in Callers, NEW x \in Exts,
         NEW v \in DOMAIN Manifests, EX!Install(c, x, v), x \in EX!listed
  PROVE  EX!ExtInv'
<1> DEFINE new == EX!defaults(Manifests[v])
           s == EX!merged(ext[x].settings, new)
<1>0. EX!Call(c, "upgrade", x, "put") /\ UNCHANGED <<array, size>>
  BY DEF EX!Install, EX!getExtension
<1>1. EX!listed' = EX!listed
  BY <1>0 DEF EX!listed
<1>2. /\ EX!CallsFormed'
      /\ \A y \in Exts : (\A d \in Callers : ~EX!Pending(d, y)') =>
           y # x /\ \A d \in Callers : ~EX!Pending(d, y)
  BY <1>0, <1>1, ExtParts, ExtCallBegins
<1>3. /\ s \in EX!Settings
      /\ \A n \in DOMAIN s : n \in DOMAIN ext[x].settings /\ s[n].type = ext[x].settings[n].type
           => s[n] = ext[x].settings[n]
  BY ExtParts, ExtDefaults, ExtMerged
<1>4. EX!newSettings(ext[x].settings, new) = s
  BY DEF EX!newSettings
<1> HIDE DEF s
<1>5. ext' = [ext EXCEPT ![x] = [version |-> v, disabled |-> ext[x].disabled, settings |-> s]]
  <2>1. ext' = [ext EXCEPT ![x].version = v, ![x].settings = EX!newSettings(@, new)]
    BY DEF EX!Install, EX!getExtension
  <2>2. ext' = [ext EXCEPT ![x] = [ext[x] EXCEPT !.version = v, !.settings = s]]
    BY <1>4, <2>1, ExtParts
  <2>3. [ext[x] EXCEPT !.version = v, !.settings = s]
          = [version |-> v, disabled |-> ext[x].disabled, settings |-> s]
    <3>1. PICK a, b, t : ext[x] = [version |-> a, disabled |-> b, settings |-> t]
      BY ExtParts
    <3>2. PICK r : r = [ext[x] EXCEPT !.version = v]
      OBVIOUS
    <3>3. r = [version |-> v, disabled |-> b, settings |-> t]
      BY <3>1, <3>2
    <3>4. [r EXCEPT !.settings = s] = [version |-> v, disabled |-> b, settings |-> s]
      BY <3>3
    <3>5. [ext[x] EXCEPT !.version = v, !.settings = s] = [r EXCEPT !.settings = s]
      BY <3>1, <3>2
    <3>6. QED
      BY <3>1, <3>4, <3>5
  <2>4. QED
    BY <2>2, <2>3
<1>6. v \in 0..Len(Manifests)
  BY DEF EX!ExtConstants
<1>7. ext' \in [Exts -> EX!Records]
  <2>1. [version |-> v, disabled |-> ext[x].disabled, settings |-> s] \in EX!Records
    BY <1>3, <1>6, ExtParts DEF EX!Records
  <2>2. QED
    BY <1>5, <2>1, ExtParts
<1>8. /\ meant' = [meant EXCEPT ![x] = [n \in Names |->
            IF n \in DOMAIN ext'[x].settings /\ n \in DOMAIN ext[x].settings
                 /\ ext'[x].settings[n].type = ext[x].settings[n].type
            THEN meant[x][n] ELSE "none"]]
      /\ UNCHANGED <<record, store, trigger, message>> /\ folder' = folder \union {x}
  BY DEF EX!Install
<1>9. meant' \in [Exts -> [Names -> Values \union {"default", "none"}]]
  BY <1>8, ExtParts
<1>10. EX!Recorded'
  BY <1>7, <1>8, <1>9, ExtParts, ExtRecordedBy
<1>11. EX!StoredAsMeant'
  <2>1. ext'[x].settings = s /\ \A y \in Exts : y # x => ext'[y] = ext[y] /\ meant'[y] = meant[y]
    BY <1>5, <1>8, ExtParts
  <2>2. ASSUME NEW n \in Names, meant'[x][n] # "none", NEW e \in {ext'[x], record'[x]}
        PROVE  n \in DOMAIN e.settings /\ e.settings[n].value = meant'[x][n]
    <3>1. /\ n \in DOMAIN s /\ n \in DOMAIN ext[x].settings /\ s[n].type = ext[x].settings[n].type
          /\ meant'[x][n] = meant[x][n]
      BY <1>8, <2>1, <2>2, ExtParts
    <3>2. \A f \in {ext[x], record[x]} :
            n \in DOMAIN f.settings /\ f.settings[n].value = meant[x][n]
      BY <2>2, <3>1, ExtParts DEF EX!StoredAsMeant
    <3>3. s[n] = ext[x].settings[n]
      BY <1>3, <3>1
    <3>4. QED
      BY <1>8, <2>1, <2>2, <3>1, <3>2, <3>3
  <2>3. QED
    BY <1>1, <1>2, <1>8, <2>1, <2>2, ExtParts, ExtStoredBy
<1>12. EX!ListFormed' /\ EX!TriggersFormed'
  BY <1>0, <1>8, ExtParts, ExtTriggersStay DEF EX!ListFormed
<1>13. QED
  BY <1>2, <1>10, <1>11, <1>12 DEF EX!ExtInv

LEMMA ExtInstalls ==
  ASSUME EX!ExtConstants, EX!ExtInv, NEW c \in Callers, NEW x \in Exts,
         NEW v \in DOMAIN Manifests, EX!Install(c, x, v), x \notin EX!listed
  PROVE  EX!ExtInv'
<1> DEFINE s == EX!defaults(Manifests[v])
<1>0. /\ EX!Call(c, "install", x, "put") /\ size' = size + 1
      /\ array' = IF size < Len(array) THEN [array EXCEPT ![size + 1] = x] ELSE Append(array, x)
      /\ ext' = [ext EXCEPT ![x] = [version |-> v, disabled |-> FALSE, settings |-> s]]
  BY DEF EX!Install, EX!getExtension
<1>1. /\ EX!ListFormed' /\ EX!listed' = EX!listed \union {x} /\ DOMAIN array \subseteq DOMAIN array'
  BY <1>0, ExtParts, ExtListAdds
<1>2. /\ EX!CallsFormed' /\ \A d \in Callers : ecall[d] = EX!rest
      /\ \A y \in Exts : (\A d \in Callers : ~EX!Pending(d, y)') =>
           y # x /\ \A d \in Callers : ~EX!Pending(d, y)
  <2>1. "install" \in Alone
    BY DEF EX!ExtConstants
  <2>2. QED
    BY <1>0, <1>1, <2>1, ExtParts, ExtCallBegins
<1>3. s \in EX!Settings
  BY ExtDefaults
<1> HIDE DEF s
<1>4. ext' \in [Exts -> EX!Records]
  <2>1. v \in 0..Len(Manifests)
    BY DEF EX!ExtConstants
  <2>2. [version |-> v, disabled |-> FALSE, settings |-> s] \in EX!Records
    BY <1>3, <2>1 DEF EX!Records
  <2>3. QED
    BY <1>0, <2>2, ExtParts
<1>5. /\ meant' = [meant EXCEPT ![x] = [n \in Names |->
            IF n \in DOMAIN ext'[x].settings /\ n \in DOMAIN ext[x].settings
                 /\ ext'[x].settings[n].type = ext[x].settings[n].type
            THEN meant[x][n] ELSE "none"]]
      /\ UNCHANGED <<record, store, trigger, message>> /\ folder' = folder \union {x}
  BY DEF EX!Install
<1>6. meant' \in [Exts -> [Names -> Values \union {"default", "none"}]]
  BY <1>5, ExtParts
<1>7. EX!Recorded'
  BY <1>4, <1>5, <1>6, ExtParts, ExtRecordedBy
<1>8. \A n \in Names : meant[x][n] = "none"
  <2>1. record[x] = EX!NoExt
    BY <1>2, ExtParts DEF EX!StoredAsMeant, EX!Pending
  <2>2. QED
    BY <2>1, ExtEmpty, ExtParts DEF EX!StoredAsMeant
<1>9. EX!StoredAsMeant'
  <2>1. \A n \in Names : meant'[x][n] = "none"
    BY <1>5, <1>8, ExtParts
  <2>2. \A y \in Exts : y # x => ext'[y] = ext[y] /\ meant'[y] = meant[y]
    BY <1>0, <1>5, ExtParts
  <2>3. QED
    BY <1>1, <1>2, <1>5, <2>1, <2>2, ExtParts, ExtStoredBy
<1>10. EX!TriggersFormed'
  BY <1>1, <1>5, ExtParts, ExtTriggersStay
<1>11. QED
  BY <1>1, <1>2, <1>7, <1>9, <1>10 DEF EX!ExtInv
LEMMA ExtUpdates ==
  ASSUME EX!ExtConstants, EX!ExtInv, NEW c \in Callers, NEW x \in Exts,
         NEW n \in Names, NEW v \in Values, EX!UpdateExtensionSettings(c, x, n, v)
  PROVE  EX!ExtInv'
<1> DEFINE s == ext[x].settings
           u == [s EXCEPT ![n].value = v]
<1>0. /\ EX!Call(c, "settings", x, "put") /\ x \in EX!listed /\ n \in DOMAIN s
      /\ UNCHANGED <<array, size, record, folder, store, trigger, message>>
      /\ ext' = [ext EXCEPT ![x].settings[n].value = v]
      /\ meant' = [meant EXCEPT ![x][n] = "none"]
  BY DEF EX!UpdateExtensionSettings, EX!getExtension, EX!saved
<1>1. EX!listed' = EX!listed
  BY <1>0 DEF EX!listed
<1>2. /\ EX!CallsFormed'
      /\ \A y \in Exts : (\A d \in Callers : ~EX!Pending(d, y)') =>
           y # x /\ \A d \in Callers : ~EX!Pending(d, y)
  BY <1>0, <1>1, ExtParts, ExtCallBegins
<1>3. /\ u \in EX!Settings /\ DOMAIN u = DOMAIN s
      /\ \A m \in DOMAIN s : m # n => u[m] = s[m]
  BY <1>0, ExtParts, ExtChanged
<1>4. ext' = [ext EXCEPT ![x] = [ext[x] EXCEPT !.settings = u]]
  BY <1>0, ExtParts
<1> HIDE DEF u
<1>5. PICK a \in 0..Len(Manifests), b \in BOOLEAN :
        ext[x] = [version |-> a, disabled |-> b, settings |-> s]
  BY ExtParts
<1>6. /\ ext' = [ext EXCEPT ![x] = [version |-> a, disabled |-> b, settings |-> u]]
      /\ [version |-> a, disabled |-> b, settings |-> u] \in EX!Records
  <2>1. [ext[x] EXCEPT !.settings = u] = [version |-> a, disabled |-> b, settings |-> u]
    BY <1>5
  <2>2. QED
    BY <1>3, <1>4, <2>1 DEF EX!Records
<1>7. /\ ext' \in [Exts -> EX!Records] /\ ext'[x].settings = u
      /\ \A y \in Exts : y # x => ext'[y] = ext[y] /\ meant'[y] = meant[y]
      /\ meant' \in [Exts -> [Names -> Values \union {"default", "none"}]]
      /\ meant'[x][n] = "none" /\ \A m \in Names : m # n => meant'[x][m] = meant[x][m]
  <2>1. /\ ext' \in [Exts -> EX!Records] /\ ext'[x].settings = u
        /\ \A y \in Exts : y # x => ext'[y] = ext[y]
    BY <1>6, ExtParts
  <2>2. /\ meant' = [meant EXCEPT ![x] = [meant[x] EXCEPT ![n] = "none"]]
        /\ meant[x] \in [Names -> Values \union {"default", "none"}]
    BY <1>0, ExtParts
  <2>3. [meant[x] EXCEPT ![n] = "none"] \in [Names -> Values \union {"default", "none"}]
    BY <2>2
  <2>4. /\ meant' \in [Exts -> [Names -> Values \union {"default", "none"}]]
        /\ meant'[x] = [meant[x] EXCEPT ![n] = "none"]
        /\ \A y \in Exts : y # x => meant'[y] = meant[y]
    BY <2>2, <2>3, ExtParts
  <2>5. QED
    BY <2>1, <2>2, <2>4
<1>8. EX!Recorded'
  BY <1>0, <1>7, ExtParts, ExtRecordedBy
<1>9. ASSUME NEW m \in Names, meant'[x][m] # "none", NEW e \in {ext'[x], record'[x]}
      PROVE  m \in DOMAIN e.settings /\ e.settings[m].value = meant'[x][m]
  <2>1. m # n /\ meant'[x][m] = meant[x][m]
    BY <1>7, <1>9
  <2>2. \A f \in {ext[x], record[x]} : m \in DOMAIN f.settings /\ f.settings[m].value = meant[x][m]
    BY <1>9, <2>1, ExtParts DEF EX!StoredAsMeant
  <2>3. CASE e = ext'[x]
    <3>1. m \in DOMAIN s /\ u[m] = s[m] /\ s[m].value = meant[x][m]
      BY <1>3, <2>1, <2>2
    <3>2. QED
      BY <1>3, <1>7, <2>1, <2>3, <3>1
  <2>4. CASE e = record'[x]
    BY <1>0, <2>1, <2>2, <2>4
  <2>5. QED
    BY <1>9, <2>3, <2>4
<1>10. EX!StoredAsMeant'
  BY <1>0, <1>1, <1>2, <1>7, <1>9, ExtParts, ExtStoredBy
<1>11. EX!ListFormed' /\ EX!TriggersFormed'
  BY <1>0, ExtParts, ExtTriggersStay DEF EX!ListFormed
<1>12. QED
  BY <1>2, <1>8, <1>10, <1>11 DEF EX!ExtInv

LEMMA ExtSwitches ==
  ASSUME EX!ExtConstants, EX!ExtInv, NEW c \in Callers, NEW x \in Exts,
         EX!SwitchExtension(c, x)
  PROVE  EX!ExtInv'
<1> DEFINE s == ext[x].settings
<1>0. /\ EX!Call(c, "switch", x, "put") /\ x \in EX!listed
      /\ UNCHANGED <<array, size, record, folder, store, trigger, message, meant>>
      /\ ext' = [ext EXCEPT ![x].disabled = ~@]
  BY DEF EX!SwitchExtension, EX!getExtension, EX!saved, EX!history
<1>1. EX!listed' = EX!listed
  BY <1>0 DEF EX!listed
<1>2. /\ EX!CallsFormed'
      /\ \A y \in Exts : (\A d \in Callers : ~EX!Pending(d, y)') =>
           y # x /\ \A d \in Callers : ~EX!Pending(d, y)
  BY <1>0, <1>1, ExtParts, ExtCallBegins
<1>3. PICK a \in 0..Len(Manifests), b \in BOOLEAN :
        ext[x] = [version |-> a, disabled |-> b, settings |-> s]
  BY ExtParts
<1>4. PICK b2 \in BOOLEAN :
        ext' = [ext EXCEPT ![x] = [version |-> a, disabled |-> b2, settings |-> s]]
  <2>1. ext' = [ext EXCEPT ![x] = [ext[x] EXCEPT !.disabled = ~ext[x].disabled]]
    BY <1>0, ExtParts
  <2>2. [ext[x] EXCEPT !.disabled = ~ext[x].disabled]
          = [version |-> a, disabled |-> ~ext[x].disabled, settings |-> s]
    BY <1>3
  <2>3. (~ext[x].disabled) \in BOOLEAN
    OBVIOUS
  <2>4. QED
    BY <2>1, <2>2, <2>3
<1>5. [version |-> a, disabled |-> b2, settings |-> s] \in EX!Records
  BY ExtParts DEF EX!Records
<1>6. /\ ext' \in [Exts -> EX!Records] /\ ext'[x].settings = s
      /\ \A y \in Exts : y # x => ext'[y] = ext[y]
  BY <1>4, <1>5, ExtParts
<1>7. EX!Recorded'
  BY <1>0, <1>6, ExtParts, ExtRecordedBy
<1>8. ASSUME NEW m \in Names, meant'[x][m] # "none", NEW e \in {ext'[x], record'[x]}
      PROVE  m \in DOMAIN e.settings /\ e.settings[m].value = meant'[x][m]
  <2>1. \A f \in {ext[x], record[x]} : m \in DOMAIN f.settings /\ f.settings[m].value = meant[x][m]
    BY <1>0, <1>8, ExtParts DEF EX!StoredAsMeant
  <2>2. QED
    BY <1>0, <1>6, <1>8, <2>1
<1>9. EX!StoredAsMeant'
  BY <1>0, <1>1, <1>2, <1>6, <1>8, ExtParts, ExtStoredBy
<1>10. EX!ListFormed' /\ EX!TriggersFormed'
  BY <1>0, ExtParts, ExtTriggersStay DEF EX!ListFormed
<1>11. QED
  BY <1>2, <1>7, <1>9, <1>10 DEF EX!ExtInv

\* The extension is stored as it is by then.
LEMMA ExtPuts ==
  ASSUME EX!ExtInv, NEW c \in Callers, EX!Puts(c)
  PROVE  EX!ExtInv'
<1> DEFINE x == ecall[c].x
<1>0. /\ ecall[c] # EX!rest /\ ecall[c].at = "put" /\ ecall' = [ecall EXCEPT ![c] = EX!rest]
      /\ UNCHANGED <<array, size, ext, folder, store, trigger, message>>
      /\ record' = [record EXCEPT ![x] = ext[x]]
      /\ meant' = IF ecall[c].op # "settings" THEN meant
                  ELSE [meant EXCEPT ![x] = [n \in Names |->
                          IF n \in DOMAIN ext[x].settings
                          THEN ext[x].settings[n].value ELSE "none"]]
  BY DEF EX!Puts, EX!memory, EX!stored
<1>1. /\ EX!CallsFormed' /\ EX!listed' = EX!listed /\ ecall[c] \in EX!CallRecords
      /\ \A y \in Exts : (\A d \in Callers : ~EX!Pending(d, y)') =>
           y = x \/ \A d \in Callers : ~EX!Pending(d, y)
  BY <1>0, ExtParts, ExtCallEnds
<1>2. x \in Exts /\ x \in EX!listed
  <2>1. x \in EX!listed
    BY <1>0, ExtParts DEF EX!CallsFormed
  <2>2. QED
    BY <1>1, <2>1, ExtRecord
<1> HIDE DEF x
<1>3. \A n \in DOMAIN ext[x].settings : ext[x].settings[n].value \in Values \union {"default"}
  <2>1. /\ DOMAIN ext[x].settings \subseteq Names
        /\ ext[x].settings \in
             [DOMAIN ext[x].settings -> [type : EX!Types, value : Values \union {"default"}]]
    BY <1>2, ExtParts, ExtSettings
  <2>2. QED
    BY <2>1
<1>4. /\ record' \in [Exts -> EX!Records] /\ record'[x] = ext[x]
      /\ \A y \in Exts : y # x => record'[y] = record[y] /\ meant'[y] = meant[y]
      /\ meant' \in [Exts -> [Names -> Values \union {"default", "none"}]]
  <2>1. /\ record' \in [Exts -> EX!Records] /\ record'[x] = ext[x]
        /\ \A y \in Exts : y # x => record'[y] = record[y]
    BY <1>0, <1>2, ExtParts
  <2>2. CASE ecall[c].op # "settings"
    BY <1>0, <2>1, <2>2, ExtParts
  <2>3. CASE ecall[c].op = "settings"
    <3>1. [n \in Names |-> IF n \in DOMAIN ext[x].settings
                           THEN ext[x].settings[n].value ELSE "none"]
            \in [Names -> Values \union {"default", "none"}]
      BY <1>3
    <3>2. QED
      BY <1>0, <1>2, <2>1, <2>3, <3>1, ExtParts
  <2>4. QED
    BY <2>2, <2>3
<1>5. EX!Recorded'
  BY <1>0, <1>4, ExtParts, ExtRecordedBy
<1>6. ASSUME NEW m \in Names, meant'[x][m] # "none", NEW e \in {ext'[x], record'[x]}
      PROVE  m \in DOMAIN e.settings /\ e.settings[m].value = meant'[x][m]
  <2>1. e = ext[x]
    BY <1>0, <1>4, <1>6
  <2>2. CASE ecall[c].op # "settings"
    BY <1>0, <1>2, <1>6, <2>1, <2>2, ExtParts DEF EX!StoredAsMeant
  <2>3. CASE ecall[c].op = "settings"
    <3>1. meant'[x][m] = IF m \in DOMAIN ext[x].settings
                         THEN ext[x].settings[m].value ELSE "none"
      BY <1>0, <1>2, <2>3, ExtParts
    <3>2. QED
      BY <1>6, <2>1, <3>1
  <2>4. QED
    BY <2>2, <2>3
<1>7. EX!StoredAsMeant'
  BY <1>0, <1>1, <1>2, <1>4, <1>6, ExtParts, ExtStoredBy
<1>8. EX!ListFormed' /\ EX!TriggersFormed'
  BY <1>0, ExtParts, ExtTriggersStay DEF EX!ListFormed
<1>9. QED
  BY <1>1, <1>5, <1>7, <1>8 DEF EX!ExtInv
LEMMA ExtDeletes ==
  ASSUME EX!ExtConstants, EX!ExtInv, NEW c \in Callers, NEW x \in Exts,
         EX!DeleteExtension(c, x)
  PROVE  EX!ExtInv'
<1>0. /\ EX!Call(c, "delete", x, "list") /\ x \in EX!listed /\ folder' = folder \ {x}
      /\ UNCHANGED <<array, size, ext, record, store, trigger, message, meant>>
  BY DEF EX!DeleteExtension, EX!getExtension, EX!memory, EX!history
<1>1. EX!listed' = EX!listed
  BY <1>0 DEF EX!listed
<1>2. /\ EX!CallsFormed'
      /\ \A y \in Exts : (\A d \in Callers : ~EX!Pending(d, y)') =>
           y # x /\ \A d \in Callers : ~EX!Pending(d, y)
  BY <1>0, <1>1, ExtParts, ExtCallBegins
<1>3. EX!Recorded'
  BY <1>0, ExtParts, ExtRecordedBy
<1>4. EX!StoredAsMeant'
  <2>1. \A n \in Names : meant'[x][n] # "none" => \A e \in {ext'[x], record'[x]} :
          n \in DOMAIN e.settings /\ e.settings[n].value = meant'[x][n]
    BY <1>0, ExtParts DEF EX!StoredAsMeant
  <2>2. QED
    BY <1>0, <1>1, <1>2, <2>1, ExtParts, ExtStoredBy
<1>5. EX!ListFormed' /\ EX!TriggersFormed'
  BY <1>0, ExtParts, ExtTriggersStay DEF EX!ListFormed
<1>6. QED
  BY <1>2, <1>3, <1>4, <1>5 DEF EX!ExtInv

\* Nobody else is in a call while one deletes.
LEMMA ExtDeleteLists ==
  ASSUME EX!ExtConstants, EX!ExtInv, NEW c \in Callers, EX!DeleteLists(c)
  PROVE  EX!ExtInv'
<1> DEFINE x == ecall[c].x
           places == {i \in 1..size : array[i] = x}
<1>0. /\ ecall[c] # EX!rest /\ ecall[c].at = "list"
      /\ ecall' = [ecall EXCEPT ![c].at = "record"]
      /\ UNCHANGED <<ext, record, folder, store, trigger, message, meant>>
  BY DEF EX!DeleteLists, EX!saved, EX!history
<1>1. ecall[c] \in EX!CallRecords /\ ecall \in [Callers -> EX!CallRecords \union {EX!rest}]
  BY <1>0, ExtParts DEF EX!CallsFormed
<1>2. /\ ecall[c].op = "delete" /\ x \in EX!listed /\ x \in Exts
      /\ \A d \in Callers : d # c => ecall[d] = EX!rest
  <2>1. ecall[c].op = "delete" /\ x \in EX!listed
    BY <1>0, ExtParts DEF EX!CallsFormed
  <2>2. "delete" \in Alone
    BY DEF EX!ExtConstants
  <2>3. QED
    BY <1>0, <1>1, <2>1, <2>2, ExtParts, ExtRecord DEF EX!CallsFormed
<1>3. PICK k \in 1..size : array[k] = x
  BY <1>2 DEF EX!listed
<1>4. places = {k}
  BY <1>3, ExtParts DEF EX!ListFormed
<1>5. (CHOOSE i \in places : \A j \in places : i <= j) = k
  <2>1. k \in places /\ k <= k /\ \A j \in places : j = k
    BY <1>3, <1>4
  <2>2. QED
    BY <2>1
<1>6. /\ array' = [i \in DOMAIN array |-> IF i >= k /\ i < size THEN array[i + 1] ELSE array[i]]
      /\ size' = size - 1
  <2>1. places # {}
    BY <1>4
  <2>2. IF places = {} THEN UNCHANGED <<array, size>>
        ELSE /\ array' = [i \in DOMAIN array |->
                  IF i >= (CHOOSE i1 \in places : \A j \in places : i1 <= j) /\ i < size
                  THEN array[i + 1] ELSE array[i]]
             /\ size' = size - 1
    BY DEF EX!DeleteLists
  <2> HIDE DEF places
  <2>3. QED
    BY <1>5, <2>1, <2>2
<1> HIDE DEF places
<1>7. EX!ListFormed' /\ EX!listed' = EX!listed \ {x} /\ DOMAIN array' = DOMAIN array
  BY <1>3, <1>6, ExtParts, ExtListDrops
<1>8. PICK r \in EX!CallRecords : /\ r.op = "delete" /\ r.x = x /\ r.at = "record"
                                  /\ ecall' = [ecall EXCEPT ![c] = r]
  <2>1. ecall[c] = [op |-> "delete", x |-> x, at |-> "list"]
    BY <1>0, <1>1, <1>2, ExtRecord
  <2>2. ecall' = [ecall EXCEPT ![c] = [ecall[c] EXCEPT !.at = "record"]]
    BY <1>0, <1>1
  <2>3. [ecall[c] EXCEPT !.at = "record"] = [op |-> "delete", x |-> x, at |-> "record"]
    BY <2>1
  <2>4. [op |-> "delete", x |-> x, at |-> "record"] \in EX!CallRecords
    BY <1>2 DEF EX!CallRecords
  <2>5. QED
    BY <2>2, <2>3, <2>4
<1>9. r # EX!rest
  BY ExtRecord
<1> HIDE DEF x
<1>10. /\ ecall' \in [Callers -> EX!CallRecords \union {EX!rest}] /\ ecall'[c] = r
       /\ \A d \in Callers : d # c => ecall'[d] = EX!rest
  BY <1>1, <1>2, <1>8
<1>11. EX!CallsFormed'
  <2>1. ASSUME NEW d \in Callers, ecall'[d] # EX!rest
        PROVE  /\ ecall'[d].at = "put" <=> ecall'[d].op # "delete"
               /\ ecall'[d].x \in EX!listed' <=> ecall'[d].at # "record"
               /\ ecall'[d].op \in Alone => \A e \in Callers \ {d} : ecall'[e] = EX!rest
    <3>1. d = c
      BY <1>10, <2>1
    <3>2. QED
      BY <1>7, <1>8, <1>10, <3>1
  <2>2. QED
    BY <1>10, <2>1 DEF EX!CallsFormed, EX!rest
<1>12. ASSUME NEW y \in Exts, \A d \in Callers : ~EX!Pending(d, y)'
       PROVE  y # x /\ \A d \in Callers : ~EX!Pending(d, y)
  <2>1. ~(ecall'[c] # EX!rest /\ ecall'[c].x = y)
    BY <1>12 DEF EX!Pending, EX!rest
  <2>2. y # x
    BY <1>8, <1>9, <1>10, <2>1
  <2>3. QED
    BY <1>2, <2>2 DEF EX!Pending, x
<1>13. EX!Recorded'
  BY <1>0, ExtParts, ExtRecordedBy
<1>14. EX!StoredAsMeant'
  <2>1. \A n \in Names : meant'[x][n] # "none" => \A e \in {ext'[x], record'[x]} :
          n \in DOMAIN e.settings /\ e.settings[n].value = meant'[x][n]
    BY <1>0, <1>2, ExtParts DEF EX!StoredAsMeant
  <2>2. QED
    BY <1>0, <1>2, <1>7, <1>12, <2>1, ExtParts, ExtStoredBy
<1>15. EX!TriggersFormed'
  BY <1>0, <1>7, ExtParts, ExtTriggersStay
<1>16. QED
  BY <1>7, <1>11, <1>13, <1>14, <1>15 DEF EX!ExtInv

LEMMA ExtDeleteRecords ==
  ASSUME EX!ExtConstants, EX!ExtInv, NEW c \in Callers, EX!DeleteRecords(c)
  PROVE  EX!ExtInv'
<1> DEFINE x == ecall[c].x
<1>0. /\ ecall[c] # EX!rest /\ ecall[c].at = "record" /\ ecall' = [ecall EXCEPT ![c] = EX!rest]
      /\ UNCHANGED <<array, size, ext, folder, trigger, message>>
      /\ record' = [record EXCEPT ![x] = EX!NoExt] /\ store' = [store EXCEPT ![x] = {}]
      /\ meant' = [meant EXCEPT ![x] = [n \in Names |-> "none"]]
  BY DEF EX!DeleteRecords, EX!memory
<1>1. /\ EX!CallsFormed' /\ EX!listed' = EX!listed /\ ecall[c] \in EX!CallRecords
      /\ \A y \in Exts : (\A d \in Callers : ~EX!Pending(d, y)') =>
           y = x \/ \A d \in Callers : ~EX!Pending(d, y)
  BY <1>0, ExtParts, ExtCallEnds
<1>2. x \in Exts /\ x \notin EX!listed
  <2>1. x \notin EX!listed
    BY <1>0, ExtParts DEF EX!CallsFormed
  <2>2. QED
    BY <1>1, <2>1, ExtRecord
<1> HIDE DEF x
<1>3. /\ record' \in [Exts -> EX!Records] /\ record'[x] = EX!NoExt
      /\ \A y \in Exts : y # x => record'[y] = record[y] /\ meant'[y] = meant[y]
      /\ meant' \in [Exts -> [Names -> Values \union {"default", "none"}]]
      /\ \A n \in Names : meant'[x][n] = "none"
      /\ store' \in [Exts -> SUBSET Keys]
  BY <1>0, <1>2, ExtParts, ExtEmpty
<1>4. EX!Recorded'
  BY <1>0, <1>3, ExtParts, ExtRecordedBy
<1>5. EX!StoredAsMeant'
  BY <1>0, <1>1, <1>2, <1>3, ExtParts, ExtStoredBy
<1>6. EX!ListFormed' /\ EX!TriggersFormed'
  BY <1>0, ExtParts, ExtTriggersStay DEF EX!ListFormed
<1>7. QED
  BY <1>1, <1>4, <1>5, <1>6 DEF EX!ExtInv

\* A restart shows what is stored.
LEMMA ExtReboots ==
  ASSUME EX!ExtConstants, EX!ExtInv, EX!Reboot
  PROVE  EX!ExtInv'
<1> DEFINE S == {x \in Exts : record[x] # EX!NoExt}
<1>0. PICK order \in [1..EX!Cardinality(S) -> S] :
        /\ \A i, j \in DOMAIN order : i # j => order[i] # order[j]
        /\ array' = order /\ size' = Len(order)
  BY DEF EX!Reboot
<1>1. /\ ext' = record /\ UNCHANGED <<record, folder, store, meant, message>>
      /\ ecall' = [c \in Callers |-> EX!rest] /\ trigger' = [g \in Triggers |-> EX!rest]
  BY DEF EX!Reboot, EX!saved, EX!history
<1>2. S \subseteq Exts /\ IsFiniteSet(S)
  <2>1. EX!IsFiniteSet(Exts) => IsFiniteSet(Exts)
    BY Zenon DEF EX!IsFiniteSet, IsFiniteSet
  <2>2. S \subseteq Exts
    OBVIOUS
  <2>3. IsFiniteSet(Exts)
    BY <2>1 DEF EX!ExtConstants
  <2>4. QED
    BY <2>2, <2>3, FS_Subset
<1>3. EX!ListFormed' /\ EX!listed' = S
  BY <1>0, <1>2, ExtListLoads
<1>4. EX!Recorded'
  BY <1>1, ExtParts, ExtRecordedBy
<1>5. EX!CallsFormed'
  BY <1>1 DEF EX!CallsFormed, EX!rest
<1>6. EX!TriggersFormed'
  BY <1>1 DEF EX!TriggersFormed, EX!At, EX!rest
<1>7. EX!StoredAsMeant'
  <2>1. \A x \in Exts : record'[x] = IF x \in EX!listed' THEN ext'[x] ELSE EX!NoExt
    BY <1>1, <1>3
  <2>2. \A x \in Exts, n \in Names : meant'[x][n] # "none" => \A e \in {ext'[x], record'[x]} :
          n \in DOMAIN e.settings /\ e.settings[n].value = meant'[x][n]
    BY <1>1, ExtParts DEF EX!StoredAsMeant
  <2>3. EX!NoExt' = EX!NoExt
    BY DEF EX!NoExt
  <2>4. QED
    BY <2>1, <2>2, <2>3 DEF EX!StoredAsMeant
<1>8. QED
  BY <1>3, <1>4, <1>5, <1>6, <1>7 DEF EX!ExtInv

LEMMA ExtSteps ==
  ASSUME EX!ExtConstants, EX!ExtInv, [EX!Next]_extVars
  PROVE  EX!ExtInv'
<1>1. ASSUME NEW c \in Callers, EX!CallStep(c)
      PROVE  EX!ExtInv'
  <2>1. \A x \in Exts, v \in DOMAIN Manifests : EX!Install(c, x, v) => EX!ExtInv'
    BY ExtUpgrades, ExtInstalls
  <2>2. \A x \in Exts, n \in Names, v \in Values :
          EX!UpdateExtensionSettings(c, x, n, v) => EX!ExtInv'
    BY ExtUpdates
  <2>3. \A x \in Exts : EX!SwitchExtension(c, x) \/ EX!DeleteExtension(c, x) => EX!ExtInv'
    BY ExtSwitches, ExtDeletes
  <2>4. EX!Puts(c) \/ EX!DeleteLists(c) \/ EX!DeleteRecords(c) => EX!ExtInv'
    BY ExtPuts, ExtDeleteLists, ExtDeleteRecords
  <2>5. QED
    BY <1>1, <2>1, <2>2, <2>3, <2>4 DEF EX!CallStep
<1>2. CASE UNCHANGED extVars
  <2>1. UNCHANGED <<array, size, ext, record, folder, store, ecall, trigger, meant, message>>
    BY <1>2 DEF extVars
  <2>2. EX!TriggersFormed'
    BY <2>1, ExtParts, ExtTriggersStay
  <2>3. QED
    BY <2>1, <2>2, ExtParts, ExtRest
<1>3. QED
  BY <1>1, <1>2, ExtTriggerSteps, ExtReboots DEF EX!Next

LEMMA ExtStart ==
  ASSUME EX!ExtConstants, EX!Init
  PROVE  EX!ExtInv
<1>1. EX!NoExt \in EX!Records
  BY ExtEmpty
<1>2. EX!ListFormed /\ EX!listed = {}
  BY DEF EX!Init, EX!ListFormed, EX!listed
<1>3. EX!Recorded
  BY <1>1 DEF EX!Init, EX!Recorded
<1>4. EX!CallsFormed
  BY DEF EX!Init, EX!CallsFormed
<1>5. EX!TriggersFormed
  BY DEF EX!Init, EX!TriggersFormed, EX!At
<1>6. EX!StoredAsMeant
  BY <1>2 DEF EX!Init, EX!StoredAsMeant
<1>7. QED
  BY <1>2, <1>3, <1>4, <1>5, <1>6 DEF EX!ExtInv

\* The inductive invariant of the extensions: each is listed once, calls that install
\* or delete are alone, and what nobody is changing is stored as it is shown.
THEOREM ExtInvariant ==
  ASSUME EX!ExtConstants
  PROVE  PartsSpec => []EX!ExtInv
<1>1. PartsInit => EX!ExtInv
  BY ExtStart DEF PartsInit
<1>2. EX!ExtInv /\ [PartsNext]_partsVars => EX!ExtInv'
  <2> SUFFICES ASSUME EX!ExtInv, [PartsNext]_partsVars
               PROVE  EX!ExtInv'
    OBVIOUS
  <2>1. CASE ExtNext
    BY <2>1, ExtSteps DEF ExtNext
  <2>2. CASE SingleNext \/ MultiNext \/ BtNext \/ FilesNext
    BY <2>2, ExtSteps DEF SingleNext, MultiNext, BtNext, FilesNext
  <2>3. CASE UNCHANGED partsVars
    BY <2>3, ExtSteps DEF partsVars
  <2>4. QED
    BY <2>1, <2>2, <2>3 DEF PartsNext
<1>3. QED
  BY <1>1, <1>2, PTL DEF PartsSpec

\* A setting keeps what the user gave it through upgrades, restarts and the other
\* calls (Extension.update, UpdateExtensionSettings, Setup).
THEOREM SettingsOutlive ==
  ASSUME EX!ExtConstants
  PROVE  PartsSpec => []UserValueKept
<1>1. EX!ExtInv => UserValueKept
  <2> SUFFICES ASSUME EX!ExtInv, NEW x \in EX!listed, NEW n \in Names, meant[x][n] # "none"
               PROVE  n \in DOMAIN ext[x].settings /\ ext[x].settings[n].value = meant[x][n]
    BY DEF UserValueKept, EX!UserValueKept
  <2>1. x \in Exts
    BY ExtParts DEF EX!listed, EX!ListFormed
  <2>2. QED
    BY <2>1, ExtParts DEF EX!StoredAsMeant
<1>2. QED
  BY <1>1, ExtInvariant, PTL

\* While nobody is in a call the storage has each extension as it is shown.
THEOREM StorageIsShown ==
  ASSUME EX!ExtConstants
  PROVE  PartsSpec => []SavedAsShown
<1>1. EX!ExtInv => SavedAsShown
  BY ExtParts DEF SavedAsShown, EX!SavedAsShown, EX!StoredAsMeant, EX!Pending
<1>2. QED
  BY <1>1, ExtInvariant, PTL

----------------------------------------------------------------------------
(* TaskFiles, and the types of all the components                          *)

\* The inductive invariant of TaskFiles holds in the behaviours of all five.
THEOREM PartsFilesInvariant ==
  ASSUME OwnDeletes
  PROVE  PartsSpec => []FInv
<1>1. PartsInit => FInv
  BY FileConstants, TypeInit, InitParts DEF PartsInit, FInv, Names3
<1>2. FInv /\ [PartsNext]_partsVars => FInv'
  <2> SUFFICES ASSUME FInv, [PartsNext]_partsVars
               PROVE  FInv'
    OBVIOUS
  <2>1. [Next]_fileVars
    <3>1. CASE FilesNext
      BY <3>1 DEF FilesNext
    <3>2. CASE SingleNext \/ MultiNext \/ BtNext \/ ExtNext
      BY <3>2 DEF SingleNext, MultiNext, BtNext, ExtNext
    <3>3. CASE UNCHANGED partsVars
      BY <3>3 DEF partsVars
    <3>4. QED
      BY <3>1, <3>2, <3>3 DEF PartsNext
  <2>2. QED
    BY <2>1, FileConstants, StepKeeps
<1>3. QED
  BY <1>1, <1>2, PTL DEF PartsSpec

LEMMA ExtTypes ==
  ASSUME EX!ExtInv
  PROVE  EX!TypeOK
<1>1. \A r \in EX!Records : /\ r.version \in 0..Len(Manifests) /\ r.disabled \in BOOLEAN
                            /\ DOMAIN r.settings \subseteq Names
  BY ExtSettings DEF EX!Records
<1>2. array \in Seq(Exts) /\ size \in 0..Len(array)
  BY ExtParts DEF EX!ListFormed
<1>3. \A i \in DOMAIN array : array[i] \in Exts
  BY <1>2
<1>4. \A x \in Exts : \A e \in {ext[x], record[x]} : e \in EX!Records
  BY ExtParts
<1>5. QED
  BY <1>1, <1>2, <1>3, <1>4, ExtParts DEF EX!TypeOK

\* Every variable of the five components has its type.
THEOREM PartsTypes ==
  ASSUME HS!SingleConstants, MP!MultiConstants, BT!BtConstants, EX!ExtConstants, OwnDeletes
  PROVE  PartsSpec => []TypesOK
<1>1. HS!SingleInv /\ MP!MultiInv /\ BT!BtInv /\ EX!ExtInv /\ FInv => TypesOK
  BY ExtTypes DEF TypesOK, HS!SingleInv, MP!MultiInv, BT!BtInv, FInv
<1>2. QED
  BY <1>1, SingleInvariant, MultiInvariant, BtInvariant, ExtInvariant, PartsFilesInvariant, PTL

=============================================================================
