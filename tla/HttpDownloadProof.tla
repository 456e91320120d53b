------------------------- MODULE HttpDownloadProof -------------------------
(***************************************************************************)
(* Proofs about HttpDownload, for every resource size, number of           *)
(* connections, buffer, fault budget and number of starts and pauses.      *)
(***************************************************************************)
EXTENDS HttpDownload, TLAPS

LEMMA InitInv == Init => IInv
<1> SUFFICES ASSUME Init PROVE IInv
  OBVIOUS
<1> USE ConstantsOK DEF ConstantsOK, Init, Conns, Attempts, Existing, remain
<1>1. TypeConns /\ TypeLocals
  BY DEF TypeConns, TypeLocals, ErrorKinds
<1>2. TypeLoop /\ TypeOut /\ TypeEnv
  BY DEF TypeLoop, TypeOut, TypeEnv
<1>3. TypeFlags
  BY Zenon DEF TypeFlags
<1>4. LaunchedCount /\ Quiet
  BY DEF LaunchedCount, Quiet
<1>5. BlankSlots /\ HandHeld /\ InFlightFits /\ ChunksWithin /\ ChunksApart
  BY DEF BlankSlots, HandHeld, InFlightFits, ChunksWithin, ChunksApart, Apart
<1> QED
  BY <1>1, <1>2, <1>3, <1>4, <1>5 DEF IInv, TypeOK

\* A connection that runs exists and is not one of a batch still being created.
LEMMA ActiveConn ==
  ASSUME IInv, NEW c \in Conns, pc[c] # "gone"
  PROVE  /\ c \in Int /\ 0 <= c /\ c < nconn /\ nconn \in Int /\ launched \in Int
         /\ loop \in {"split", "commit"} => c < launched
<1>1. nconn \in Int /\ launched \in Int /\ c \in 0..(MaxConns - 1)
  BY ConstantsOK DEF ConstantsOK, IInv, TypeOK, TypeConns, TypeLoop, Conns
<1>2. c < nconn
  BY <1>1 DEF IInv, BlankSlots
<1>3. loop \in {"split", "commit"} => c < launched
  BY <1>1, <1>2 DEF IInv, LaunchedCount
<1> QED
  BY <1>1, <1>2, <1>3, ConstantsOK DEF ConstantsOK

\* What LaunchedCount depends on.
LEMMA LaunchedFrame ==
  ASSUME LaunchedCount, nconn' = nconn, launched' = launched, batch' = batch, loop' = loop,
         \A d \in launched..(nconn - 1) : pc'[d] = pc[d] /\ hand'[d] = hand[d]
  PROVE  LaunchedCount'
<1>1. getNextBatchSize' = getNextBatchSize
  BY DEF getNextBatchSize
<1> QED
  BY <1>1 DEF LaunchedCount

\* A step of the connection c that leaves the other slots, and the slow start's
\* variables, alone keeps LaunchedCount.
LEMMA LaunchedOthers ==
  ASSUME IInv, NEW c \in Conns, pc[c] # "gone",
         nconn' = nconn, launched' = launched, batch' = batch, loop' = loop,
         \A d \in Conns : d # c => pc'[d] = pc[d] /\ hand'[d] = hand[d]
  PROVE  LaunchedCount'
<1>1. CASE loop \in {"split", "commit"}
  <2>1. launched < nconn /\ launched \in Nat /\ nconn \in 0..MaxConns
    BY <1>1 DEF IInv, TypeOK, TypeLoop, TypeConns, LaunchedCount
  <2>2. \A d \in launched..(nconn - 1) : d \in Conns /\ d # c
    BY <1>1, <2>1, ActiveConn, ConstantsOK DEF ConstantsOK, Conns
  <2> QED
    BY <2>2, LaunchedFrame DEF IInv
<1>2. CASE loop \notin {"split", "commit"}
  BY <1>2 DEF IInv, LaunchedCount
<1> QED
  BY <1>1, <1>2

\* The types of what a connection that exists holds.
LEMMA ExistingTypes ==
  ASSUME IInv, NEW d \in Existing
  PROVE  /\ d \in Conns /\ d \in Int /\ 0 <= d /\ d < nconn
         /\ begin[d] \in Nat /\ end[d] \in Int /\ got[d] \in Nat /\ remain(d) \in Int
         /\ hand[d] \in 0..Buf /\ hand[d] <= remain(d) /\ end[d] < Size
<1>1. nconn \in 0..MaxConns /\ d \in Conns
  BY ConstantsOK DEF ConstantsOK, IInv, TypeOK, TypeConns, Existing, Conns
<1>2. begin[d] \in Nat /\ end[d] \in Int /\ got[d] \in Nat /\ hand[d] \in 0..Buf
  BY <1>1 DEF IInv, TypeOK, TypeConns, TypeLocals
<1>3. hand[d] <= remain(d) /\ end[d] < Size
  BY DEF IInv, InFlightFits, ChunksWithin
<1> QED
  BY <1>1, <1>2, <1>3 DEF Existing, remain

\* The chunk part of the invariant only depends on the chunks and on the bytes
\* in hand, and survives a step that puts bytes down.
LEMMA ChunkFrame ==
  ASSUME IInv, nconn' = nconn, begin' = begin, end' = end, got' = got,
         \A d \in Existing : hand'[d] = hand[d] \/ hand'[d] = 0
  PROVE  InFlightFits' /\ ChunksWithin' /\ ChunksApart'
<1>1. ASSUME NEW d \in Existing PROVE hand'[d] <= remain(d)'
  <2>1. remain(d)' = remain(d)
    BY DEF remain
  <2>2. 0 <= hand[d]
    BY ExistingTypes, ConstantsOK DEF ConstantsOK
  <2> QED
    BY <2>1, <2>2, ExistingTypes
<1>2. InFlightFits'
  BY <1>1 DEF InFlightFits, Existing
<1>3. ChunksWithin' /\ ChunksApart'
  BY DEF IInv, ChunksWithin, ChunksApart, Apart, Existing, remain
<1> QED
  BY <1>2, <1>3

\* When the WaitGroup is at zero no slot runs.
LEMMA NoneRunning ==
  ASSUME IInv, Running = {}
  PROVE  \A d \in Conns : pc[d] = "gone"
<1>1. SUFFICES ASSUME NEW d \in Conns PROVE pc[d] = "gone"
  OBVIOUS
<1>2. nconn \in Nat /\ d \in Nat
  BY ConstantsOK DEF ConstantsOK, IInv, TypeOK, TypeConns, Conns
<1>3. CASE d >= nconn
  BY <1>3 DEF IInv, BlankSlots
<1>4. CASE d < nconn
  BY <1>2, <1>4 DEF Running, Existing
<1> QED
  BY <1>2, <1>3, <1>4

\* A batch that is not full leaves a slot.
LEMMA SlotLeft ==
  ASSUME IInv, loop \in {"expand", "split"}, nconn > 0, nconn - launched < getNextBatchSize
  PROVE  /\ nconn \in Nat /\ nconn < MaxConns /\ nconn \in Conns /\ launched \in Nat
         /\ launched <= nconn /\ launched <= MaxConns /\ getNextBatchSize \in Int
<1>1. nconn \in Nat /\ nconn <= MaxConns /\ launched \in Nat /\ batch \in Nat /\ MaxConns \in Nat
  BY ConstantsOK DEF ConstantsOK, IInv, TypeOK, TypeConns, TypeLoop
<1>2. launched <= nconn /\ launched <= MaxConns
  BY <1>1 DEF IInv, LaunchedCount
<1>3. getNextBatchSize \in Int /\ getNextBatchSize <= MaxConns - launched
  BY <1>1, <1>2 DEF getNextBatchSize
<1> QED
  BY <1>1, <1>2, <1>3 DEF Conns

LEMMA UnchangedInv ==
  ASSUME IInv, UNCHANGED vars
  PROVE  IInv'
<1> USE DEF vars, conns, locals, slow, ctl, out, pref, env
<1>1. TypeOK'
  BY DEF IInv, TypeOK, TypeConns, TypeLocals, TypeLoop, TypeOut, TypeEnv, TypeFlags
<1>2. LaunchedCount' /\ BlankSlots' /\ HandHeld' /\ Quiet'
  BY DEF IInv, LaunchedCount, BlankSlots, HandHeld, Quiet, getNextBatchSize
<1>3. InFlightFits' /\ ChunksWithin' /\ ChunksApart'
  BY DEF IInv, InFlightFits, ChunksWithin, ChunksApart, Apart, Existing, remain
<1> QED
  BY <1>1, <1>2, <1>3 DEF IInv

LEMMA ConnStartInv ==
  ASSUME IInv, NEW c \in Conns, ConnStart(c)
  PROVE  IInv'
<1>1. /\ c \in Int /\ 0 <= c /\ c < nconn /\ nconn \in Int /\ launched \in Int
      /\ loop \in {"split", "commit"} => c < launched
  BY ActiveConn DEF ConnStart
<1> USE ConstantsOK DEF ConstantsOK, Conns, Attempts, Existing, remain, conns, locals,
     slow, ctl, out, pref, env, rest
<1>2. TypeConns'
  BY <1>1 DEF ConnStart, connMuFree, IInv, TypeOK, TypeConns, TypeLocals, ErrorKinds
<1>3. TypeLocals'
  BY <1>1 DEF ConnStart, connMuFree, IInv, TypeOK, TypeConns, TypeLocals
<1>4. TypeLoop' /\ TypeOut' /\ TypeEnv'
  BY <1>1 DEF ConnStart, connMuFree, IInv, TypeOK, TypeConns, TypeLocals, TypeLoop, TypeOut,
     TypeEnv
<1>5. TypeFlags'
  BY Zenon DEF ConnStart, connMuFree, IInv, TypeOK, TypeFlags
<1>6. LaunchedCount'
  <2>1. \A d \in Conns : d # c => pc'[d] = pc[d] /\ hand'[d] = hand[d]
    BY DEF ConnStart, connMuFree, IInv, TypeOK, TypeLocals
  <2> QED
    BY <2>1, LaunchedOthers DEF ConnStart, connMuFree
<1>7. BlankSlots' /\ HandHeld'
  BY <1>1 DEF ConnStart, connMuFree, IInv, TypeOK, TypeConns, TypeLocals, BlankSlots, HandHeld,
     LaunchedCount, TypeLoop, getNextBatchSize, Quiet
<1>8. InFlightFits' /\ ChunksWithin' /\ ChunksApart'
  BY <1>1 DEF ConnStart, connMuFree, IInv, TypeOK, TypeConns, TypeLocals, TypeLoop,
     LaunchedCount, HandHeld, BlankSlots, InFlightFits, ChunksWithin, ChunksApart, Apart
<1>9. Quiet'
  BY <1>1 DEF ConnStart, connMuFree, IInv, TypeOK, TypeConns, TypeLocals, TypeLoop, TypeOut,
     TypeEnv, Quiet
<1> QED
  BY <1>2, <1>3, <1>4, <1>5, <1>6, <1>7, <1>8, <1>9 DEF IInv, TypeOK

LEMMA ConnCancelledInv ==
  ASSUME IInv, NEW c \in Conns, ConnCancelled(c)
  PROVE  IInv'
<1>1. /\ c \in Int /\ 0 <= c /\ c < nconn /\ nconn \in Int /\ launched \in Int
      /\ loop \in {"split", "commit"} => c < launched
  BY ActiveConn DEF ConnCancelled
<1> USE ConstantsOK DEF ConstantsOK, Conns, Attempts, Existing, remain, conns, locals,
     slow, ctl, out, pref, env, rest
<1>2. TypeConns'
  BY <1>1 DEF ConnCancelled, WgDone, Running, IInv, TypeOK, TypeConns, TypeLocals, ErrorKinds
<1>3. TypeLocals'
  BY <1>1 DEF ConnCancelled, WgDone, Running, IInv, TypeOK, TypeConns, TypeLocals
<1>4. TypeLoop' /\ TypeOut' /\ TypeEnv'
  BY <1>1 DEF ConnCancelled, WgDone, Running, IInv, TypeOK, TypeConns, TypeLocals, TypeLoop,
     TypeOut, TypeEnv
<1>5. TypeFlags'
  BY Zenon DEF ConnCancelled, WgDone, Running, IInv, TypeOK, TypeFlags
<1>6. LaunchedCount'
  <2>1. \A d \in Conns : d # c => pc'[d] = pc[d] /\ hand'[d] = hand[d]
    BY DEF ConnCancelled, WgDone, Running, IInv, TypeOK, TypeLocals
  <2> QED
    BY <2>1, LaunchedOthers DEF ConnCancelled, WgDone, Running
<1>7. BlankSlots' /\ HandHeld'
  BY <1>1 DEF ConnCancelled, WgDone, Running, IInv, TypeOK, TypeConns, TypeLocals, BlankSlots,
     HandHeld, LaunchedCount, TypeLoop, getNextBatchSize, Quiet
<1>8. InFlightFits' /\ ChunksWithin' /\ ChunksApart'
  BY <1>1 DEF ConnCancelled, WgDone, Running, IInv, TypeOK, TypeConns, TypeLocals, TypeLoop,
     LaunchedCount, HandHeld, BlankSlots, InFlightFits, ChunksWithin, ChunksApart, Apart
<1>9. Quiet'
  BY <1>1 DEF ConnCancelled, WgDone, Running, IInv, TypeOK, TypeConns, TypeLocals, TypeLoop,
     TypeOut, TypeEnv, Quiet, connMuFree
<1> QED
  BY <1>2, <1>3, <1>4, <1>5, <1>6, <1>7, <1>8, <1>9 DEF IInv, TypeOK

LEMMA RequestInv ==
  ASSUME IInv, NEW c \in Conns, Request(c)
  PROVE  IInv'
<1>1. /\ c \in Int /\ 0 <= c /\ c < nconn /\ nconn \in Int /\ launched \in Int
      /\ loop \in {"split", "commit"} => c < launched
  BY ActiveConn DEF Request, rangeStart
<1> USE ConstantsOK DEF ConstantsOK, Conns, Attempts, Existing, remain, conns, locals,
     slow, ctl, out, pref, env, rest
<1>2. TypeConns'
  BY <1>1 DEF Request, rangeStart, connMuFree, IInv, TypeOK, TypeConns, TypeLocals, ErrorKinds
<1>3. TypeLocals'
  <2>1. begin[c] + got[c] \in Nat /\ end[c] \in Int
    BY <1>1, ExistingTypes
  <2>2. spos' \in [Conns -> Nat] /\ send' \in [Conns -> Int]
    BY <2>1, Zenon DEF Request, rangeStart, connMuFree, IInv, TypeOK, TypeLocals
  <2> QED
    BY <2>2 DEF Request, rangeStart, connMuFree, IInv, TypeOK, TypeLocals
<1>4. TypeLoop' /\ TypeOut' /\ TypeEnv'
  BY <1>1 DEF Request, rangeStart, connMuFree, IInv, TypeOK, TypeConns, TypeLocals, TypeLoop, TypeOut,
     TypeEnv
<1>5. TypeFlags'
  BY Zenon DEF Request, rangeStart, connMuFree, IInv, TypeOK, TypeFlags
<1>6. LaunchedCount'
  <2>1. \A d \in Conns : d # c => pc'[d] = pc[d] /\ hand'[d] = hand[d]
    BY DEF Request, rangeStart, connMuFree, IInv, TypeOK, TypeLocals
  <2> QED
    BY <2>1, LaunchedOthers DEF Request, rangeStart, connMuFree
<1>7. BlankSlots' /\ HandHeld'
  BY <1>1 DEF Request, rangeStart, connMuFree, IInv, TypeOK, TypeConns, TypeLocals, BlankSlots, HandHeld,
     LaunchedCount, TypeLoop, getNextBatchSize, Quiet
<1>8. InFlightFits' /\ ChunksWithin' /\ ChunksApart'
  BY <1>1 DEF Request, rangeStart, connMuFree, IInv, TypeOK, TypeConns, TypeLocals, TypeLoop, LaunchedCount,
     HandHeld, BlankSlots, InFlightFits, ChunksWithin, ChunksApart, Apart
<1>9. Quiet'
  BY <1>1 DEF Request, rangeStart, connMuFree, IInv, TypeOK, TypeConns, TypeLocals, TypeLoop, TypeOut,
     TypeEnv, Quiet
<1> QED
  BY <1>2, <1>3, <1>4, <1>5, <1>6, <1>7, <1>8, <1>9 DEF IInv, TypeOK

LEMMA RespondOKInv ==
  ASSUME IInv, NEW c \in Conns, RespondOK(c)
  PROVE  IInv'
<1>1. /\ c \in Int /\ 0 <= c /\ c < nconn /\ nconn \in Int /\ launched \in Int
      /\ loop \in {"split", "commit"} => c < launched
  BY ActiveConn DEF RespondOK
<1> USE ConstantsOK DEF ConstantsOK, Conns, Attempts, Existing, remain, conns, locals,
     slow, ctl, out, pref, env, rest
<1>2. TypeConns'
  BY <1>1 DEF RespondOK, onConnectSuccess, connMuFree, IInv, TypeOK, TypeConns, TypeLocals,
     ErrorKinds
<1>3. TypeLocals'
  BY <1>1 DEF RespondOK, onConnectSuccess, connMuFree, IInv, TypeOK, TypeConns, TypeLocals
<1>4. TypeLoop' /\ TypeOut' /\ TypeEnv'
  <2>1. TypeLoop'
    BY DEF RespondOK, onConnectSuccess, connMuFree, IInv, TypeOK, TypeLoop
  <2>2. TypeOut' /\ TypeEnv'
    BY DEF RespondOK, onConnectSuccess, connMuFree, IInv, TypeOK, TypeOut, TypeEnv
  <2> QED
    BY <2>1, <2>2
<1>5. TypeFlags'
  BY Zenon DEF RespondOK, onConnectSuccess, connMuFree, IInv, TypeOK, TypeFlags, Signal
<1>6. LaunchedCount'
  <2>1. \A d \in Conns : d # c => pc'[d] = pc[d] /\ hand'[d] = hand[d]
    BY DEF RespondOK, onConnectSuccess, connMuFree, IInv, TypeOK, TypeLocals
  <2> QED
    BY <2>1, LaunchedOthers DEF RespondOK, onConnectSuccess, connMuFree
<1>7. BlankSlots' /\ HandHeld'
  BY <1>1 DEF RespondOK, onConnectSuccess, connMuFree, IInv, TypeOK, TypeConns, TypeLocals,
     BlankSlots, HandHeld, LaunchedCount, TypeLoop, getNextBatchSize, Quiet
<1>8. InFlightFits' /\ ChunksWithin' /\ ChunksApart'
  BY <1>1 DEF RespondOK, onConnectSuccess, connMuFree, IInv, TypeOK, TypeConns, TypeLocals,
     TypeLoop, LaunchedCount, HandHeld, BlankSlots, InFlightFits, ChunksWithin, ChunksApart,
     Apart
<1>9. Quiet'
  BY <1>1 DEF RespondOK, onConnectSuccess, connMuFree, IInv, TypeOK, TypeConns, TypeLocals,
     TypeLoop, TypeOut, TypeEnv, Quiet
<1> QED
  BY <1>2, <1>3, <1>4, <1>5, <1>6, <1>7, <1>8, <1>9 DEF IInv, TypeOK

LEMMA RespondForbiddenInv ==
  ASSUME IInv, NEW c \in Conns, RespondForbidden(c)
  PROVE  IInv'
<1>1. /\ c \in Int /\ 0 <= c /\ c < nconn /\ nconn \in Int /\ launched \in Int
      /\ loop \in {"split", "commit"} => c < launched
  BY ActiveConn DEF RespondForbidden
<1> USE ConstantsOK DEF ConstantsOK, Conns, Attempts, Existing, remain, conns, locals,
     slow, ctl, out, pref, env, rest
<1>2. TypeConns'
  BY <1>1 DEF RespondForbidden, WgDone, Running, onConnectFailed, connMuFree, IInv, TypeOK,
     TypeConns, TypeLocals, ErrorKinds
<1>3. TypeLocals'
  BY <1>1 DEF RespondForbidden, WgDone, Running, onConnectFailed, connMuFree, IInv, TypeOK,
     TypeConns, TypeLocals
<1>4. TypeLoop' /\ TypeOut' /\ TypeEnv'
  <2>1. TypeLoop'
    BY DEF RespondForbidden, WgDone, Running, onConnectFailed, connMuFree, IInv, TypeOK,
       TypeLoop
  <2>2. TypeOut' /\ TypeEnv'
    BY DEF RespondForbidden, WgDone, Running, onConnectFailed, connMuFree, IInv, TypeOK,
       TypeOut, TypeEnv
  <2> QED
    BY <2>1, <2>2
<1>5. TypeFlags'
  BY Zenon DEF RespondForbidden, WgDone, Running, onConnectFailed, connMuFree, IInv, TypeOK,
     TypeFlags, Signal
<1>6. LaunchedCount'
  <2>1. \A d \in Conns : d # c => pc'[d] = pc[d] /\ hand'[d] = hand[d]
    BY DEF RespondForbidden, WgDone, Running, onConnectFailed, connMuFree, IInv, TypeOK,
       TypeLocals
  <2> QED
    BY <2>1, LaunchedOthers DEF RespondForbidden, WgDone, Running, onConnectFailed, connMuFree
<1>7. BlankSlots' /\ HandHeld'
  BY <1>1 DEF RespondForbidden, WgDone, Running, onConnectFailed, connMuFree, IInv, TypeOK,
     TypeConns, TypeLocals, BlankSlots, HandHeld, LaunchedCount, TypeLoop, getNextBatchSize,
     Quiet
<1>8. InFlightFits' /\ ChunksWithin' /\ ChunksApart'
  BY <1>1 DEF RespondForbidden, WgDone, Running, onConnectFailed, connMuFree, IInv, TypeOK,
     TypeConns, TypeLocals, TypeLoop, LaunchedCount, HandHeld, BlankSlots, InFlightFits,
     ChunksWithin, ChunksApart, Apart
<1>9. Quiet'
  BY <1>1 DEF RespondForbidden, WgDone, Running, onConnectFailed, connMuFree, IInv, TypeOK,
     TypeConns, TypeLocals, TypeLoop, TypeOut, TypeEnv, Quiet
<1> QED
  BY <1>2, <1>3, <1>4, <1>5, <1>6, <1>7, <1>8, <1>9 DEF IInv, TypeOK

LEMMA RespondCountedInv ==
  ASSUME IInv, NEW c \in Conns, RespondCounted(c)
  PROVE  IInv'
<1>1. /\ c \in Int /\ 0 <= c /\ c < nconn /\ nconn \in Int /\ launched \in Int
      /\ loop \in {"split", "commit"} => c < launched
  BY ActiveConn DEF RespondCounted
<1> USE ConstantsOK DEF ConstantsOK, Conns, Attempts, Existing, remain, conns, locals,
     slow, ctl, out, pref, env, rest
<1>2. TypeConns'
  <2>1. retry \in [Conns -> Nat] /\ retry' = [retry EXCEPT ![c] = @ + 1]
    BY DEF RespondCounted, WgDone, Running, onConnectFailed, connMuFree, IInv, TypeOK, TypeConns
  <2>2. retry' \in [Conns -> Nat]
    BY <2>1
  <2>3. /\ cstate' \in [Conns -> {"notStarted", "connecting", "downloading", "completed", "failed"}]
        /\ lastErr' \in [Conns -> ErrorKinds \union {"none"}]
    BY DEF RespondCounted, IInv, TypeOK, TypeConns, ErrorKinds
  <2> QED
    BY <2>2, <2>3 DEF RespondCounted, WgDone, Running, onConnectFailed, connMuFree, IInv,
       TypeOK, TypeConns
<1>3. TypeLocals'
  BY <1>1 DEF RespondCounted, WgDone, Running, onConnectFailed, connMuFree, IInv, TypeOK,
     TypeConns, TypeLocals
<1>4. TypeLoop' /\ TypeOut' /\ TypeEnv'
  <2>1. TypeLoop'
    BY DEF RespondCounted, WgDone, Running, onConnectFailed, connMuFree, IInv, TypeOK, TypeLoop
  <2>2. TypeOut' /\ TypeEnv'
    BY DEF RespondCounted, WgDone, Running, onConnectFailed, connMuFree, IInv, TypeOK, TypeOut,
       TypeEnv
  <2> QED
    BY <2>1, <2>2
<1>5. TypeFlags'
  BY Zenon DEF RespondCounted, WgDone, Running, onConnectFailed, connMuFree, IInv, TypeOK,
     TypeFlags, Signal
<1>6. LaunchedCount'
  <2>1. \A d \in Conns : d # c => pc'[d] = pc[d] /\ hand'[d] = hand[d]
    BY DEF RespondCounted, WgDone, Running, onConnectFailed, connMuFree, IInv, TypeOK,
       TypeLocals
  <2> QED
    BY <2>1, LaunchedOthers DEF RespondCounted, WgDone, Running, onConnectFailed, connMuFree
<1>7. BlankSlots' /\ HandHeld'
  BY <1>1 DEF RespondCounted, WgDone, Running, onConnectFailed, connMuFree, IInv, TypeOK,
     TypeConns, TypeLocals, BlankSlots, HandHeld, LaunchedCount, TypeLoop, getNextBatchSize,
     Quiet
<1>8. InFlightFits' /\ ChunksWithin' /\ ChunksApart'
  BY <1>1 DEF RespondCounted, WgDone, Running, onConnectFailed, connMuFree, IInv, TypeOK,
     TypeConns, TypeLocals, TypeLoop, LaunchedCount, HandHeld, BlankSlots, InFlightFits,
     ChunksWithin, ChunksApart, Apart
<1>9. Quiet'
  BY <1>1 DEF RespondCounted, WgDone, Running, onConnectFailed, connMuFree, IInv, TypeOK,
     TypeConns, TypeLocals, TypeLoop, TypeOut, TypeEnv, Quiet
<1> QED
  BY <1>2, <1>3, <1>4, <1>5, <1>6, <1>7, <1>8, <1>9 DEF IInv, TypeOK

LEMMA TransientInv ==
  ASSUME IInv, NEW c \in Conns, Transient(c)
  PROVE  IInv'
<1>1. /\ c \in Int /\ 0 <= c /\ c < nconn /\ nconn \in Int /\ launched \in Int
      /\ loop \in {"split", "commit"} => c < launched
  BY ActiveConn DEF Transient
<1> USE ConstantsOK DEF ConstantsOK, Conns, Attempts, Existing, remain, conns, locals,
     slow, ctl, out, pref, env, rest
<1>2. TypeConns'
  BY <1>1 DEF Transient, connMuFree, IInv, TypeOK, TypeConns, TypeLocals, ErrorKinds
<1>3. TypeLocals'
  <2>1. 0 \in 0..Buf /\ hand \in [Conns -> 0..Buf]
    BY DEF IInv, TypeOK, TypeLocals
  <2>2. hand' \in [Conns -> 0..Buf]
    BY <2>1, Zenon DEF Transient, connMuFree
  <2> QED
    BY <2>2 DEF Transient, connMuFree, IInv, TypeOK, TypeLocals
<1>4. TypeLoop' /\ TypeOut' /\ TypeEnv'
  <2>1. TypeLoop'
    BY DEF Transient, connMuFree, IInv, TypeOK, TypeLoop
  <2>2. TypeOut' /\ TypeEnv'
    BY DEF Transient, connMuFree, IInv, TypeOK, TypeOut, TypeEnv
  <2> QED
    BY <2>1, <2>2
<1>5. TypeFlags'
  BY Zenon DEF Transient, connMuFree, IInv, TypeOK, TypeFlags
<1>6. LaunchedCount'
  <2>1. \A d \in Conns : d # c => pc'[d] = pc[d] /\ hand'[d] = hand[d]
    BY DEF Transient, connMuFree, IInv, TypeOK, TypeLocals
  <2> QED
    BY <2>1, LaunchedOthers DEF Transient, connMuFree
<1>7. BlankSlots' /\ HandHeld'
  BY <1>1 DEF Transient, connMuFree, IInv, TypeOK, TypeConns, TypeLocals, BlankSlots, HandHeld,
     LaunchedCount, TypeLoop, getNextBatchSize, Quiet
<1>8. InFlightFits' /\ ChunksWithin' /\ ChunksApart'
  <2>1. nconn' = nconn /\ begin' = begin /\ end' = end /\ got' = got
    BY DEF Transient, connMuFree
  <2>2. hand \in [Conns -> 0..Buf]
    BY DEF IInv, TypeOK, TypeLocals
  <2>3. \A d \in Conns : hand'[d] = hand[d] \/ hand'[d] = 0
    BY <2>2 DEF Transient, connMuFree
  <2> QED
    BY <2>1, <2>3, ExistingTypes, ChunkFrame
<1>9. Quiet'
  BY <1>1 DEF Transient, connMuFree, IInv, TypeOK, TypeConns, TypeLocals, TypeLoop, TypeOut,
     TypeEnv, Quiet
<1> QED
  BY <1>2, <1>3, <1>4, <1>5, <1>6, <1>7, <1>8, <1>9 DEF IInv, TypeOK

LEMMA BackoffOverInv ==
  ASSUME IInv, NEW c \in Conns, BackoffOver(c)
  PROVE  IInv'
<1>1. /\ c \in Int /\ 0 <= c /\ c < nconn /\ nconn \in Int /\ launched \in Int
      /\ loop \in {"split", "commit"} => c < launched
  BY ActiveConn DEF BackoffOver
<1> USE ConstantsOK DEF ConstantsOK, Conns, Attempts, Existing, remain, conns, locals,
     slow, ctl, out, pref, env, rest
<1>2. TypeConns'
  BY <1>1 DEF BackoffOver, IInv, TypeOK, TypeConns, TypeLocals, ErrorKinds
<1>3. TypeLocals'
  BY <1>1 DEF BackoffOver, IInv, TypeOK, TypeConns, TypeLocals
<1>4. TypeLoop' /\ TypeOut' /\ TypeEnv'
  BY <1>1 DEF BackoffOver, IInv, TypeOK, TypeConns, TypeLocals, TypeLoop, TypeOut, TypeEnv
<1>5. TypeFlags'
  BY Zenon DEF BackoffOver, IInv, TypeOK, TypeFlags
<1>6. LaunchedCount'
  <2>1. \A d \in Conns : d # c => pc'[d] = pc[d] /\ hand'[d] = hand[d]
    BY DEF BackoffOver, IInv, TypeOK, TypeLocals
  <2> QED
    BY <2>1, LaunchedOthers DEF BackoffOver
<1>7. BlankSlots' /\ HandHeld'
  BY <1>1 DEF BackoffOver, IInv, TypeOK, TypeConns, TypeLocals, BlankSlots, HandHeld,
     LaunchedCount, TypeLoop, getNextBatchSize, Quiet
<1>8. InFlightFits' /\ ChunksWithin' /\ ChunksApart'
  BY <1>1 DEF BackoffOver, IInv, TypeOK, TypeConns, TypeLocals, TypeLoop, LaunchedCount,
     HandHeld, BlankSlots, InFlightFits, ChunksWithin, ChunksApart, Apart
<1>9. Quiet'
  BY <1>1 DEF BackoffOver, IInv, TypeOK, TypeConns, TypeLocals, TypeLoop, TypeOut, TypeEnv,
     Quiet, connMuFree
<1> QED
  BY <1>2, <1>3, <1>4, <1>5, <1>6, <1>7, <1>8, <1>9 DEF IInv, TypeOK

LEMMA ReadInv ==
  ASSUME IInv, NEW c \in Conns, Read(c)
  PROVE  IInv'
<1>1. /\ c \in Int /\ 0 <= c /\ c < nconn /\ nconn \in Int /\ launched \in Int
      /\ loop \in {"split", "commit"} => c < launched
  BY ActiveConn DEF Read
<1> USE ConstantsOK DEF ConstantsOK, Conns, Attempts, Existing, remain, conns, locals,
     slow, ctl, out, pref, env, rest
<1>2. TypeConns'
  BY <1>1 DEF Read, connMuFree, IInv, TypeOK, TypeConns, TypeLocals, ErrorKinds
<1>3. TypeLocals'
  <2>1. PICK k \in 1..Buf :
           IF remain(c) <= 0
           THEN UNCHANGED <<hand, finished>>
           ELSE hand' = [hand EXCEPT ![c] = IF remain(c) < k THEN remain(c) ELSE k]
    BY Zenon DEF Read, Reads, connMuFree
  <2>2. remain(c) \in Int
    BY <1>1, ExistingTypes
  <2>3. hand' \in [Conns -> 0..Buf]
    <3>1. CASE remain(c) <= 0
      BY <2>1, <3>1 DEF IInv, TypeOK, TypeLocals
    <3>2. CASE remain(c) > 0
      <4>1. (IF remain(c) < k THEN remain(c) ELSE k) \in 0..Buf
        BY <2>2, <3>2
      <4>2. hand' = [hand EXCEPT ![c] = IF remain(c) < k THEN remain(c) ELSE k]
        BY <2>1, <2>2, <3>2
      <4> QED
        BY <4>1, <4>2, Zenon DEF IInv, TypeOK, TypeLocals
    <3> QED
      BY <2>2, <3>1, <3>2
  <2>4. pc' = [pc EXCEPT ![c] = "help"] \/ pc' = [pc EXCEPT ![c] = "write"]
    BY Zenon DEF Read
  <2>5. spos' = spos /\ send' = send
    BY Zenon DEF Read
  <2> QED
    BY <2>3, <2>4, <2>5 DEF IInv, TypeOK, TypeLocals
<1>4. TypeLoop' /\ TypeOut' /\ TypeEnv'
  BY <1>1 DEF Read, connMuFree, IInv, TypeOK, TypeConns, TypeLocals, TypeLoop, TypeOut, TypeEnv
<1>5. TypeFlags'
  <2>1. failed' = failed
    BY DEF Read, conns
  <2>2. finished' = finished \/ \E k \in 1..Buf : finished' = [finished EXCEPT ![c] = remain(c) < k]
    BY DEF Read, Reads
  <2>3. CASE finished' = finished
    BY <2>1, <2>3, Zenon DEF Read, connMuFree, IInv, TypeOK, TypeFlags
  <2>4. CASE finished' # finished
    <3>1. PICK k \in 1..Buf : finished' = [finished EXCEPT ![c] = remain(c) < k]
      BY <2>2, <2>4
    <3> DEFINE short == remain(c) < k
    <3>2. short \in BOOLEAN
      OBVIOUS
    <3>3. finished' = [finished EXCEPT ![c] = short]
      BY <3>1
    <3> HIDE DEF short
    <3>4. finished' \in [Conns -> BOOLEAN]
      BY <3>2, <3>3, Zenon DEF IInv, TypeOK, TypeFlags
    <3> QED
      BY <2>1, <3>4, Zenon DEF Read, connMuFree, IInv, TypeOK, TypeFlags
  <2> QED
    BY <2>3, <2>4
<1>6. LaunchedCount'
  <2>1. \A d \in Conns : d # c => pc'[d] = pc[d] /\ hand'[d] = hand[d]
    BY DEF Read, connMuFree, IInv, TypeOK, TypeLocals
  <2> QED
    BY <2>1, LaunchedOthers DEF Read, connMuFree
<1>7. BlankSlots' /\ HandHeld'
  BY <1>1 DEF Read, connMuFree, IInv, TypeOK, TypeConns, TypeLocals, BlankSlots, HandHeld,
     LaunchedCount, TypeLoop, getNextBatchSize, Quiet
<1>8. InFlightFits' /\ ChunksWithin' /\ ChunksApart'
  <2>1. PICK k \in 1..Buf :
           IF remain(c) <= 0
           THEN UNCHANGED <<hand, finished>>
           ELSE hand' = [hand EXCEPT ![c] = IF remain(c) < k THEN remain(c) ELSE k]
    BY Zenon DEF Read, Reads, connMuFree
  <2>2. nconn' = nconn /\ begin' = begin /\ end' = end /\ got' = got
    BY Zenon DEF Read, connMuFree
  <2>3. \A d \in Conns : d # c => hand'[d] = hand[d]
    BY <2>1 DEF IInv, TypeOK, TypeLocals
  <2>4. hand'[c] <= remain(c)
    <3>1. hand[c] <= remain(c) /\ remain(c) \in Int
      BY <1>1, ExistingTypes
    <3>2. CASE remain(c) <= 0
      BY <2>1, <3>1, <3>2
    <3>3. CASE remain(c) > 0
      <4>1. hand' = [hand EXCEPT ![c] = IF remain(c) < k THEN remain(c) ELSE k]
        BY <2>1, <3>1, <3>3
      <4>2. hand'[c] = IF remain(c) < k THEN remain(c) ELSE k
        BY <4>1, Zenon DEF IInv, TypeOK, TypeLocals
      <4> QED
        BY <4>2, <3>1
    <3> QED
      BY <3>1, <3>2, <3>3
  <2>5. InFlightFits'
    BY <2>2, <2>3, <2>4, ExistingTypes DEF InFlightFits
  <2>6. ChunksWithin' /\ ChunksApart'
    BY <2>2 DEF IInv, ChunksWithin, ChunksApart, Apart
  <2> QED
    BY <2>5, <2>6
<1>9. Quiet'
  BY <1>1 DEF Read, connMuFree, IInv, TypeOK, TypeConns, TypeLocals, TypeLoop, TypeOut, TypeEnv,
     Quiet
<1> QED
  BY <1>2, <1>3, <1>4, <1>5, <1>6, <1>7, <1>8, <1>9 DEF IInv, TypeOK

LEMMA EofInv ==
  ASSUME IInv, NEW c \in Conns, Eof(c)
  PROVE  IInv'
<1>1. /\ c \in Int /\ 0 <= c /\ c < nconn /\ nconn \in Int /\ launched \in Int
      /\ loop \in {"split", "commit"} => c < launched
  BY ActiveConn DEF Eof
<1> USE ConstantsOK DEF ConstantsOK, Conns, Attempts, Existing, remain, conns, locals,
     slow, ctl, out, pref, env, rest
<1>2. TypeConns'
  BY <1>1 DEF Eof, IInv, TypeOK, TypeConns, TypeLocals, ErrorKinds
<1>3. TypeLocals'
  BY <1>1 DEF Eof, IInv, TypeOK, TypeConns, TypeLocals
<1>4. TypeLoop' /\ TypeOut' /\ TypeEnv'
  BY <1>1 DEF Eof, IInv, TypeOK, TypeConns, TypeLocals, TypeLoop, TypeOut, TypeEnv
<1>5. TypeFlags'
  BY Zenon DEF Eof, IInv, TypeOK, TypeFlags
<1>6. LaunchedCount'
  <2>1. \A d \in Conns : d # c => pc'[d] = pc[d] /\ hand'[d] = hand[d]
    BY DEF Eof, IInv, TypeOK, TypeLocals
  <2> QED
    BY <2>1, LaunchedOthers DEF Eof
<1>7. BlankSlots' /\ HandHeld'
  BY <1>1 DEF Eof, IInv, TypeOK, TypeConns, TypeLocals, BlankSlots, HandHeld, LaunchedCount,
     TypeLoop, getNextBatchSize, Quiet
<1>8. InFlightFits' /\ ChunksWithin' /\ ChunksApart'
  BY <1>1 DEF Eof, IInv, TypeOK, TypeConns, TypeLocals, TypeLoop, LaunchedCount, HandHeld,
     BlankSlots, InFlightFits, ChunksWithin, ChunksApart, Apart
<1>9. Quiet'
  BY <1>1 DEF Eof, IInv, TypeOK, TypeConns, TypeLocals, TypeLoop, TypeOut, TypeEnv, Quiet,
     connMuFree
<1> QED
  BY <1>2, <1>3, <1>4, <1>5, <1>6, <1>7, <1>8, <1>9 DEF IInv, TypeOK

LEMMA WriteInv ==
  ASSUME IInv, NEW c \in Conns, Write(c)
  PROVE  IInv'
<1>1. /\ c \in Int /\ 0 <= c /\ c < nconn /\ nconn \in Int /\ launched \in Int
      /\ loop \in {"split", "commit"} => c < launched
  BY ActiveConn DEF Write
<1> USE ConstantsOK DEF ConstantsOK, Conns, Attempts, Existing, remain, conns, locals,
     slow, ctl, out, pref, env, rest
<1>2. TypeConns'
  BY <1>1 DEF Write, IInv, TypeOK, TypeConns, TypeLocals, ErrorKinds
<1>3. TypeLocals'
  BY <1>1 DEF Write, IInv, TypeOK, TypeConns, TypeLocals
<1>4. TypeLoop' /\ TypeOut' /\ TypeEnv'
  <2>1. TypeLoop' /\ TypeEnv'
    BY DEF Write, IInv, TypeOK, TypeLoop, TypeEnv
  <2>2. (begin[c] + got[c])..(begin[c] + got[c] + hand[c] - 1) \subseteq Bytes
    BY <1>1, ExistingTypes DEF Bytes
  <2>3. written \subseteq Bytes
    BY DEF IInv, TypeOK, TypeOut
  <2>4. written' \subseteq Bytes
    BY <2>2, <2>3, Zenon DEF Write
  <2> QED
    BY <2>1, <2>4 DEF Write, IInv, TypeOK, TypeOut
<1>5. TypeFlags'
  BY Zenon DEF Write, IInv, TypeOK, TypeFlags
<1>6. LaunchedCount'
  <2>1. \A d \in Conns : d # c => pc'[d] = pc[d] /\ hand'[d] = hand[d]
    BY DEF Write, IInv, TypeOK, TypeLocals
  <2> QED
    BY <2>1, LaunchedOthers DEF Write
<1>7. BlankSlots' /\ HandHeld'
  BY <1>1 DEF Write, IInv, TypeOK, TypeConns, TypeLocals, BlankSlots, HandHeld, LaunchedCount,
     TypeLoop, getNextBatchSize, Quiet
<1>8. InFlightFits' /\ ChunksWithin' /\ ChunksApart'
  BY <1>1 DEF Write, IInv, TypeOK, TypeConns, TypeLocals, TypeLoop, LaunchedCount, HandHeld,
     BlankSlots, InFlightFits, ChunksWithin, ChunksApart, Apart
<1>9. Quiet'
  BY <1>1 DEF Write, IInv, TypeOK, TypeConns, TypeLocals, TypeLoop, TypeOut, TypeEnv, Quiet,
     connMuFree
<1> QED
  BY <1>2, <1>3, <1>4, <1>5, <1>6, <1>7, <1>8, <1>9 DEF IInv, TypeOK

LEMMA AccountInv ==
  ASSUME IInv, NEW c \in Conns, Account(c)
  PROVE  IInv'
<1>1. /\ c \in Int /\ 0 <= c /\ c < nconn /\ nconn \in Int /\ launched \in Int
      /\ loop \in {"split", "commit"} => c < launched
  BY ActiveConn DEF Account
<1> USE ConstantsOK DEF ConstantsOK, Conns, Attempts, Existing, remain, conns, locals,
     slow, ctl, out, pref, env, rest
<1>2. TypeConns'
  <2>1. hand[c] \in Nat /\ got[c] + hand[c] \in Nat
    BY <1>1, ExistingTypes
  <2>2. total[c] + hand[c] \in Nat
    <3>1. total[c] \in Nat
      BY DEF IInv, TypeOK, TypeConns
    <3> QED
      BY <2>1, <3>1
  <2>3. got' = [got EXCEPT ![c] = got[c] + hand[c]] /\ total' = [total EXCEPT ![c] = total[c] + hand[c]]
    BY DEF Account
  <2>4. got' \in [Conns -> Nat] /\ total' \in [Conns -> Nat]
    BY <2>1, <2>2, <2>3, Zenon DEF IInv, TypeOK, TypeConns
  <2> QED
    BY <2>4 DEF Account, connMuFree, IInv, TypeOK, TypeConns
<1>3. TypeLocals'
  <2>1. 0 \in 0..Buf /\ hand[c] \in Nat
    BY <1>1, ExistingTypes
  <2>2. spos[c] + hand[c] \in Nat
    <3>1. spos[c] \in Nat
      BY DEF IInv, TypeOK, TypeLocals
    <3> QED
      BY <2>1, <3>1
  <2>3. spos' = [spos EXCEPT ![c] = spos[c] + hand[c]] /\ hand' = [hand EXCEPT ![c] = 0]
    BY DEF Account
  <2>4. spos' \in [Conns -> Nat] /\ hand' \in [Conns -> 0..Buf]
    BY <2>1, <2>2, <2>3, Zenon DEF IInv, TypeOK, TypeLocals
  <2> QED
    BY <2>4 DEF Account, connMuFree, IInv, TypeOK, TypeLocals
<1>4. TypeLoop' /\ TypeOut' /\ TypeEnv'
  BY <1>1 DEF Account, connMuFree, IInv, TypeOK, TypeConns, TypeLocals, TypeLoop, TypeOut,
     TypeEnv
<1>5. TypeFlags'
  BY Zenon DEF Account, connMuFree, IInv, TypeOK, TypeFlags
<1>6. LaunchedCount'
  <2>1. \A d \in Conns : d # c => pc'[d] = pc[d] /\ hand'[d] = hand[d]
    BY DEF Account, connMuFree, IInv, TypeOK, TypeLocals
  <2> QED
    BY <2>1, LaunchedOthers DEF Account, connMuFree
<1>7. BlankSlots' /\ HandHeld'
  BY <1>1 DEF Account, connMuFree, IInv, TypeOK, TypeConns, TypeLocals, BlankSlots, HandHeld,
     LaunchedCount, TypeLoop, getNextBatchSize, Quiet
<1>8. InFlightFits' /\ ChunksWithin' /\ ChunksApart'
  <2>1. got' = [got EXCEPT ![c] = got[c] + hand[c]] /\ hand' = [hand EXCEPT ![c] = 0]
    BY DEF Account
  <2>2. nconn' = nconn /\ begin' = begin /\ end' = end
    BY DEF Account, connMuFree
  <2>3. \A d \in Conns : d # c => got'[d] = got[d] /\ hand'[d] = hand[d]
    BY <2>1 DEF IInv, TypeOK, TypeConns, TypeLocals
  <2>4. got'[c] = got[c] + hand[c] /\ hand'[c] = 0
    BY <2>1 DEF IInv, TypeOK, TypeConns, TypeLocals
  <2>5. hand[c] \in Nat /\ hand[c] <= remain(c) /\ begin[c] \in Nat /\ got[c] \in Nat /\ end[c] \in Int
    BY <1>1, ExistingTypes
  <2>6. InFlightFits'
    BY <1>1, <2>2, <2>3, <2>4, <2>5, ExistingTypes DEF InFlightFits
  <2>7. ChunksWithin'
    BY <2>2 DEF IInv, ChunksWithin
  <2>8. ChunksApart'
    <3>1. SUFFICES ASSUME NEW d \in Existing, NEW e \in Existing, d # e PROVE Apart(d, e)'
      BY <2>2 DEF ChunksApart
    <3>2. /\ d \in Conns /\ begin[d] \in Nat /\ got[d] \in Nat /\ end[d] \in Int
          /\ e \in Conns /\ begin[e] \in Nat /\ got[e] \in Nat /\ end[e] \in Int
      BY <3>1, ExistingTypes
    <3>3. Apart(d, e)
      BY <3>1 DEF IInv, ChunksApart
    <3> QED
      BY <2>2, <2>3, <2>4, <2>5, <3>1, <3>2, <3>3 DEF Apart
  <2> QED
    BY <2>6, <2>7, <2>8
<1>9. Quiet'
  BY <1>1 DEF Account, connMuFree, IInv, TypeOK, TypeConns, TypeLocals, TypeLoop, TypeOut,
     TypeEnv, Quiet
<1> QED
  BY <1>2, <1>3, <1>4, <1>5, <1>6, <1>7, <1>8, <1>9 DEF IInv, TypeOK

LEMMA StealInv ==
  ASSUME IInv, NEW c \in Conns, Steal(c)
  PROVE  IInv'
<1>1. /\ c \in Int /\ 0 <= c /\ c < nconn /\ nconn \in Int /\ launched \in Int
      /\ loop \in {"split", "commit"} => c < launched
  BY ActiveConn DEF Steal, stolenFrom
<1> USE ConstantsOK DEF ConstantsOK, Conns, Attempts, Existing, remain, conns, locals,
     slow, ctl, out, pref, env, rest
<1>2. TypeConns'
  <2> DEFINE h(r) == remain(r) \div 2
  <2>1. PICK r \in Existing :
           /\ r # c /\ remain(r) >= StealMin
           /\ begin' = [begin EXCEPT ![c] = end[r] - h(r)]
           /\ end' = [end EXCEPT ![c] = end[r], ![r] = end[r] - h(r) - 1]
           /\ got' = [got EXCEPT ![c] = 0]
    BY DEF Steal, stolenFrom, Stealable
  <2>2. /\ r \in Conns /\ begin[r] \in Nat /\ end[r] \in Int /\ got[r] \in Nat
        /\ remain(r) \in Int /\ hand[r] \in 0..Buf /\ end[r] < Size
    BY <2>1, ExistingTypes
  <2>3. h(r) \in Nat /\ 2 * h(r) <= remain(r) /\ remain(r) <= 2 * h(r) + 1
    <3>1. remain(r) \in Nat
      BY <2>1, <2>2
    <3> HIDE DEF remain
    <3> QED
      BY <3>1
  <2> HIDE DEF h
  <2>4. h(r) >= Buf /\ end[r] - h(r) >= begin[r] + got[r] + Buf
    BY <2>1, <2>2, <2>3, StealLeavesABuffer
  <2>5. end[r] - h(r) \in Nat /\ end[r] - h(r) - 1 \in Int
    BY <2>2, <2>3, <2>4
  <2>6. begin' \in [Conns -> Nat] /\ end' \in [Conns -> Int] /\ got' \in [Conns -> Nat]
    BY <2>1, <2>2, <2>5 DEF IInv, TypeOK, TypeConns
  <2>7. retry' \in [Conns -> Nat]
    BY DEF Steal, stolenFrom, IInv, TypeOK, TypeConns
  <2> QED
    BY <2>6, <2>7 DEF Steal, stolenFrom, IInv, TypeOK, TypeConns
<1>3. TypeLocals'
  BY <1>1 DEF Steal, stolenFrom, Stealable, connMuFree, IInv, TypeOK, TypeConns, TypeLocals
<1>4. TypeLoop' /\ TypeOut' /\ TypeEnv'
  BY <1>1 DEF Steal, stolenFrom, Stealable, connMuFree, IInv, TypeOK, TypeConns, TypeLocals, TypeLoop,
     TypeOut, TypeEnv
<1>5. TypeFlags'
  BY Zenon DEF Steal, stolenFrom, Stealable, connMuFree, IInv, TypeOK, TypeFlags
<1>6. LaunchedCount'
  <2>1. \A d \in Conns : d # c => pc'[d] = pc[d] /\ hand'[d] = hand[d]
    BY DEF Steal, stolenFrom, Stealable, connMuFree, IInv, TypeOK, TypeLocals
  <2> QED
    BY <2>1, LaunchedOthers DEF Steal, stolenFrom, Stealable, connMuFree
<1>7. BlankSlots' /\ HandHeld'
  <2>1. /\ \A d \in Conns : d # c => pc'[d] = pc[d] /\ got'[d] = got[d]
        /\ nconn' = nconn /\ hand' = hand /\ pc[c] = "help"
    BY DEF Steal, IInv, TypeOK, TypeConns, TypeLocals
  <2>2. BlankSlots'
    BY <1>1, <2>1 DEF IInv, BlankSlots
  <2>3. HandHeld'
    BY <2>1 DEF IInv, HandHeld
  <2> QED
    BY <2>2, <2>3
<1>8. InFlightFits' /\ ChunksWithin' /\ ChunksApart'
  <2> DEFINE h(r) == remain(r) \div 2
  <2>1. PICK r \in Existing :
           /\ r # c /\ remain(r) >= StealMin
           /\ begin' = [begin EXCEPT ![c] = end[r] - h(r)]
           /\ end' = [end EXCEPT ![c] = end[r], ![r] = end[r] - h(r) - 1]
           /\ got' = [got EXCEPT ![c] = 0]
    BY DEF Steal, stolenFrom, Stealable
  <2>2. /\ r \in Conns /\ begin[r] \in Nat /\ end[r] \in Int /\ got[r] \in Nat
        /\ remain(r) \in Int /\ hand[r] \in 0..Buf /\ end[r] < Size
    BY <2>1, ExistingTypes
  <2>3. h(r) \in Nat /\ 2 * h(r) <= remain(r) /\ remain(r) <= 2 * h(r) + 1
    <3>1. remain(r) \in Nat
      BY <2>1, <2>2
    <3> HIDE DEF remain
    <3> QED
      BY <3>1
  <2> HIDE DEF h
  <2>4. h(r) >= Buf /\ end[r] - h(r) >= begin[r] + got[r] + Buf
    BY <2>1, <2>2, <2>3, StealLeavesABuffer
  <2>5. nconn' = nconn /\ hand' = hand /\ hand[c] = 0
    BY DEF Steal, stolenFrom, IInv, HandHeld
  <2>6. /\ begin'[c] = end[r] - h(r) /\ end'[c] = end[r] /\ got'[c] = 0
        /\ begin'[r] = begin[r] /\ end'[r] = end[r] - h(r) - 1 /\ got'[r] = got[r]
    BY <2>1, <2>2 DEF IInv, TypeOK, TypeConns
  <2>7. \A d \in Conns \ {c, r} : begin'[d] = begin[d] /\ end'[d] = end[d] /\ got'[d] = got[d]
    BY <2>1, <2>2 DEF IInv, TypeOK, TypeConns
  <2>8. InFlightFits'
    <3>1. SUFFICES ASSUME NEW d \in Existing PROVE hand[d] <= remain(d)'
      BY <2>5 DEF InFlightFits
    <3>2. d \in Conns /\ hand[d] <= remain(d) /\ hand[d] \in 0..Buf
      BY <3>1, ExistingTypes
    <3> QED
      BY <2>2, <2>3, <2>4, <2>5, <2>6, <2>7, <3>2
  <2>9. ChunksWithin'
    <3>1. SUFFICES ASSUME NEW d \in Existing PROVE end'[d] < Size
      BY <2>5 DEF ChunksWithin
    <3>2. d \in Conns /\ end[d] < Size
      BY <3>1, ExistingTypes
    <3> QED
      BY <2>2, <2>3, <2>6, <2>7, <3>2
  <2>10. ChunksApart'
    <3>1. SUFFICES ASSUME NEW d \in Existing, NEW e \in Existing, d # e PROVE Apart(d, e)'
      BY <2>5 DEF ChunksApart
    <3>2. /\ d \in Conns /\ begin[d] \in Nat /\ got[d] \in Nat /\ end[d] \in Int
          /\ e \in Conns /\ begin[e] \in Nat /\ got[e] \in Nat /\ end[e] \in Int
      BY <3>1, ExistingTypes
    <3>3. Apart(d, e) /\ (d # r => Apart(d, r)) /\ (e # r => Apart(r, e))
      BY <2>1, <3>1 DEF IInv, ChunksApart
    <3>4. CASE d \notin {c, r} /\ e \notin {c, r}
      BY <2>7, <3>2, <3>3, <3>4 DEF Apart
    <3>5. CASE d = c /\ e = r
      BY <2>2, <2>3, <2>6, <3>5 DEF Apart
    <3>6. CASE d = r /\ e = c
      BY <2>2, <2>3, <2>6, <3>6 DEF Apart
    <3>7. CASE d = c /\ e \notin {c, r}
      <4>1. begin'[e] = begin[e] /\ end'[e] = end[e] /\ got'[e] = got[e] /\ Apart(r, e)
        BY <2>7, <3>2, <3>3, <3>7
      <4> QED
        BY <2>1, <2>2, <2>3, <2>4, <2>6, <3>2, <3>7, <4>1 DEF Apart
    <3>8. CASE d = r /\ e \notin {c, r}
      <4>1. begin'[e] = begin[e] /\ end'[e] = end[e] /\ got'[e] = got[e] /\ Apart(r, e)
        BY <2>7, <3>2, <3>3, <3>8
      <4> QED
        BY <2>1, <2>2, <2>3, <2>4, <2>6, <3>2, <3>8, <4>1 DEF Apart
    <3>9. CASE d \notin {c, r} /\ e = c
      <4>1. begin'[d] = begin[d] /\ end'[d] = end[d] /\ got'[d] = got[d] /\ Apart(d, r)
        BY <2>7, <3>2, <3>3, <3>9
      <4> QED
        BY <2>1, <2>2, <2>3, <2>4, <2>6, <3>2, <3>9, <4>1 DEF Apart
    <3>10. CASE d \notin {c, r} /\ e = r
      <4>1. begin'[d] = begin[d] /\ end'[d] = end[d] /\ got'[d] = got[d] /\ Apart(d, r)
        BY <2>7, <3>2, <3>3, <3>10
      <4> QED
        BY <2>1, <2>2, <2>3, <2>4, <2>6, <3>2, <3>10, <4>1 DEF Apart
    <3> QED
      BY <3>1, <3>4, <3>5, <3>6, <3>7, <3>8, <3>9, <3>10
  <2> QED
    BY <2>8, <2>9, <2>10
<1>9. Quiet'
  BY <1>1 DEF Steal, stolenFrom, Stealable, connMuFree, IInv, TypeOK, TypeConns, TypeLocals, TypeLoop,
     TypeOut, TypeEnv, Quiet
<1> QED
  BY <1>2, <1>3, <1>4, <1>5, <1>6, <1>7, <1>8, <1>9 DEF IInv, TypeOK

LEMMA CompleteInv ==
  ASSUME IInv, NEW c \in Conns, Complete(c)
  PROVE  IInv'
<1>1. /\ c \in Int /\ 0 <= c /\ c < nconn /\ nconn \in Int /\ launched \in Int
      /\ loop \in {"split", "commit"} => c < launched
  BY ActiveConn DEF Complete
<1> USE ConstantsOK DEF ConstantsOK, Conns, Attempts, Existing, remain, conns, locals,
     slow, ctl, out, pref, env, rest
<1>2. TypeConns'
  BY <1>1 DEF Complete, WgDone, Running, connMuFree, IInv, TypeOK, TypeConns, TypeLocals,
     ErrorKinds
<1>3. TypeLocals'
  BY <1>1 DEF Complete, WgDone, Running, connMuFree, IInv, TypeOK, TypeConns, TypeLocals
<1>4. TypeLoop' /\ TypeOut' /\ TypeEnv'
  BY <1>1 DEF Complete, WgDone, Running, connMuFree, IInv, TypeOK, TypeConns, TypeLocals,
     TypeLoop, TypeOut, TypeEnv
<1>5. TypeFlags'
  BY Zenon DEF Complete, WgDone, Running, connMuFree, IInv, TypeOK, TypeFlags
<1>6. LaunchedCount'
  <2>1. \A d \in Conns : d # c => pc'[d] = pc[d] /\ hand'[d] = hand[d]
    BY DEF Complete, WgDone, Running, connMuFree, IInv, TypeOK, TypeLocals
  <2> QED
    BY <2>1, LaunchedOthers DEF Complete, WgDone, Running, connMuFree
<1>7. BlankSlots' /\ HandHeld'
  BY <1>1 DEF Complete, WgDone, Running, connMuFree, IInv, TypeOK, TypeConns, TypeLocals,
     BlankSlots, HandHeld, LaunchedCount, TypeLoop, getNextBatchSize, Quiet
<1>8. InFlightFits' /\ ChunksWithin' /\ ChunksApart'
  BY <1>1 DEF Complete, WgDone, Running, connMuFree, IInv, TypeOK, TypeConns, TypeLocals,
     TypeLoop, LaunchedCount, HandHeld, BlankSlots, InFlightFits, ChunksWithin, ChunksApart,
     Apart
<1>9. Quiet'
  BY <1>1 DEF Complete, WgDone, Running, connMuFree, IInv, TypeOK, TypeConns, TypeLocals,
     TypeLoop, TypeOut, TypeEnv, Quiet
<1> QED
  BY <1>2, <1>3, <1>4, <1>5, <1>6, <1>7, <1>8, <1>9 DEF IInv, TypeOK

LEMMA LoopBeginInv ==
  ASSUME IInv, LoopBegin
  PROVE  IInv'
<1> USE ConstantsOK DEF ConstantsOK, Conns, Attempts, Existing, remain, conns, locals,
     slow, ctl, out, pref, env, rest
<1>1. TypeConns'
  BY DEF LoopBegin, resumeConnections, IInv, TypeOK, TypeConns, TypeLocals, ErrorKinds
<1>2. TypeLocals'
  BY DEF LoopBegin, resumeConnections, IInv, TypeOK, TypeConns, TypeLocals
<1>3. TypeLoop' /\ TypeOut' /\ TypeEnv'
  BY DEF LoopBegin, resumeConnections, IInv, TypeOK, TypeConns, TypeLocals, TypeLoop, TypeOut,
     TypeEnv
<1>4. TypeFlags'
  BY Zenon DEF LoopBegin, resumeConnections, IInv, TypeOK, TypeFlags
<1>5. LaunchedCount'
  <2>1. nconn' = nconn /\ launched' = launched
    BY Zenon DEF LoopBegin, resumeConnections, conns, slow
  <2>2. loop = "begin"
    BY DEF LoopBegin
  <2>3. launched = 0 /\ nconn \in Nat
    BY <2>2 DEF IInv, TypeOK, TypeConns, LaunchedCount
  <2>4. loop' = "wait" \/ (loop' = "expand" /\ nconn = 0)
    BY <2>3, SMT DEF LoopBegin
  <2> QED
    BY <2>1, <2>3, <2>4 DEF LaunchedCount
<1>6. BlankSlots' /\ HandHeld'
  <2>1. \A d \in Conns : pc[d] = "gone"
    <3>1. loop = "begin"
      BY DEF LoopBegin
    <3> QED
      BY <3>1 DEF IInv, Quiet
  <2>2. \A d \in Conns : hand[d] = 0
    BY <2>1 DEF IInv, HandHeld
  <2>3. hand' = hand /\ nconn' = nconn /\ got' = got
    BY DEF LoopBegin, resumeConnections
  <2>4. \/ pc' = pc
        \/ pc' = [d \in Conns |-> IF d \in {i \in Existing : Resumable(i)} THEN "start" ELSE pc[d]]
    BY Zenon DEF LoopBegin, resumeConnections
  <2>5. \A d \in Conns : d >= nconn => pc'[d] = "gone"
    <3>1. nconn \in Int
      BY DEF IInv, TypeOK, TypeConns
    <3> QED
      BY <2>1, <2>4, <3>1
  <2> QED
    BY <2>2, <2>3, <2>5 DEF IInv, BlankSlots, HandHeld
<1>7. InFlightFits' /\ ChunksWithin' /\ ChunksApart'
  BY DEF LoopBegin, resumeConnections, IInv, TypeOK, TypeConns, TypeLocals, TypeLoop,
     LaunchedCount, HandHeld, BlankSlots, InFlightFits, ChunksWithin, ChunksApart, Apart
<1>8. Quiet'
  BY DEF LoopBegin, resumeConnections, IInv, TypeOK, TypeConns, TypeLocals, TypeLoop, TypeOut,
     TypeEnv, Quiet, connMuFree
<1> QED
  BY <1>1, <1>2, <1>3, <1>4, <1>5, <1>6, <1>7, <1>8 DEF IInv, TypeOK

LEMMA LoopExpandInv ==
  ASSUME IInv, LoopExpand
  PROVE  IInv'
<1> USE ConstantsOK DEF ConstantsOK, Conns, Attempts, Existing, remain, conns, locals,
     slow, ctl, out, pref, env, rest
<1>1. TypeConns'
  BY DEF LoopExpand, IInv, TypeOK, TypeConns, TypeLocals, ErrorKinds
<1>2. TypeLocals'
  BY DEF LoopExpand, IInv, TypeOK, TypeConns, TypeLocals
<1>3. TypeLoop' /\ TypeOut' /\ TypeEnv'
  BY DEF LoopExpand, IInv, TypeOK, TypeConns, TypeLocals, TypeLoop, TypeOut, TypeEnv
<1>4. TypeFlags'
  BY Zenon DEF LoopExpand, IInv, TypeOK, TypeFlags
<1>5. LaunchedCount'
  <2>1. loop' = "wait" \/ loop' = "expand"
    BY Zenon DEF LoopExpand
  <2>2. nconn' = nconn /\ launched' = launched /\ launched = nconn
    BY DEF LoopExpand, IInv, LaunchedCount
  <2> QED
    BY <2>1, <2>2 DEF LaunchedCount
<1>6. BlankSlots' /\ HandHeld'
  BY DEF LoopExpand, IInv, TypeOK, TypeConns, TypeLocals, BlankSlots, HandHeld, LaunchedCount,
     TypeLoop, getNextBatchSize, Quiet
<1>7. InFlightFits' /\ ChunksWithin' /\ ChunksApart'
  BY DEF LoopExpand, IInv, TypeOK, TypeConns, TypeLocals, TypeLoop, LaunchedCount, HandHeld,
     BlankSlots, InFlightFits, ChunksWithin, ChunksApart, Apart
<1>8. Quiet'
  BY DEF LoopExpand, IInv, TypeOK, TypeConns, TypeLocals, TypeLoop, TypeOut, TypeEnv, Quiet,
     connMuFree
<1> QED
  BY <1>1, <1>2, <1>3, <1>4, <1>5, <1>6, <1>7, <1>8 DEF IInv, TypeOK

LEMMA MaxReachedInv ==
  ASSUME IInv, MaxReached
  PROVE  IInv'
<1> USE ConstantsOK DEF ConstantsOK, Conns, Attempts, Existing, remain, conns, locals,
     slow, ctl, out, pref, env, rest
<1>1. TypeConns'
  BY DEF MaxReached, getNextBatchSize, IInv, TypeOK, TypeConns, TypeLocals, ErrorKinds
<1>2. TypeLocals'
  BY DEF MaxReached, getNextBatchSize, IInv, TypeOK, TypeConns, TypeLocals
<1>3. TypeLoop' /\ TypeOut' /\ TypeEnv'
  BY DEF MaxReached, getNextBatchSize, IInv, TypeOK, TypeConns, TypeLocals, TypeLoop, TypeOut,
     TypeEnv
<1>4. TypeFlags'
  BY Zenon DEF MaxReached, getNextBatchSize, IInv, TypeOK, TypeFlags
<1>5. LaunchedCount'
  BY DEF MaxReached, getNextBatchSize, IInv, TypeOK, TypeConns, TypeLocals, TypeLoop,
     LaunchedCount, BlankSlots, Quiet
<1>6. BlankSlots' /\ HandHeld'
  BY DEF MaxReached, getNextBatchSize, IInv, TypeOK, TypeConns, TypeLocals, BlankSlots,
     HandHeld, LaunchedCount, TypeLoop, Quiet
<1>7. InFlightFits' /\ ChunksWithin' /\ ChunksApart'
  BY DEF MaxReached, getNextBatchSize, IInv, TypeOK, TypeConns, TypeLocals, TypeLoop,
     LaunchedCount, HandHeld, BlankSlots, InFlightFits, ChunksWithin, ChunksApart, Apart
<1>8. Quiet'
  BY DEF MaxReached, getNextBatchSize, IInv, TypeOK, TypeConns, TypeLocals, TypeLoop, TypeOut,
     TypeEnv, Quiet, connMuFree
<1> QED
  BY <1>1, <1>2, <1>3, <1>4, <1>5, <1>6, <1>7, <1>8 DEF IInv, TypeOK

LEMMA AllPrefetchedInv ==
  ASSUME IInv, AllPrefetched
  PROVE  IInv'
<1> USE ConstantsOK DEF ConstantsOK, Conns, Attempts, Existing, remain, conns, locals,
     slow, ctl, out, pref, env, rest
<1>1. TypeConns'
  BY DEF AllPrefetched, getNextBatchSize, IInv, TypeOK, TypeConns, TypeLocals, ErrorKinds
<1>2. TypeLocals'
  BY DEF AllPrefetched, getNextBatchSize, IInv, TypeOK, TypeConns, TypeLocals
<1>3. TypeLoop' /\ TypeOut' /\ TypeEnv'
  BY DEF AllPrefetched, getNextBatchSize, IInv, TypeOK, TypeConns, TypeLocals, TypeLoop,
     TypeOut, TypeEnv
<1>4. TypeFlags'
  <2>1. attempt \in 0..MaxStarts
    BY DEF IInv, TypeOK, TypeEnv
  <2> QED
    BY <2>1, Zenon DEF AllPrefetched, getNextBatchSize, IInv, TypeOK, TypeFlags
<1>5. LaunchedCount'
  BY DEF AllPrefetched, getNextBatchSize, IInv, TypeOK, TypeConns, TypeLocals, TypeLoop,
     LaunchedCount, BlankSlots, Quiet
<1>6. BlankSlots' /\ HandHeld'
  BY DEF AllPrefetched, getNextBatchSize, IInv, TypeOK, TypeConns, TypeLocals, BlankSlots,
     HandHeld, LaunchedCount, TypeLoop, Quiet
<1>7. InFlightFits' /\ ChunksWithin' /\ ChunksApart'
  BY DEF AllPrefetched, getNextBatchSize, IInv, TypeOK, TypeConns, TypeLocals, TypeLoop,
     LaunchedCount, HandHeld, BlankSlots, InFlightFits, ChunksWithin, ChunksApart, Apart
<1>8. Quiet'
  BY DEF AllPrefetched, getNextBatchSize, IInv, TypeOK, TypeConns, TypeLocals, TypeLoop,
     TypeOut, TypeEnv, Quiet, connMuFree
<1> QED
  BY <1>1, <1>2, <1>3, <1>4, <1>5, <1>6, <1>7, <1>8 DEF IInv, TypeOK

LEMMA FirstConnInv ==
  ASSUME IInv, FirstConn
  PROVE  IInv'
<1> USE ConstantsOK DEF ConstantsOK, Conns, Attempts, Existing, remain, conns, locals,
     slow, ctl, out, pref, env, rest
<1>1. TypeConns'
  <2>1. Size - 1 \in Int /\ dataPos \in Nat /\ 0 \in Conns /\ 1 \in 0..MaxConns
    BY DEF IInv, TypeOK, TypeOut
  <2>2. begin' \in [Conns -> Nat] /\ end' \in [Conns -> Int] /\ total' \in [Conns -> Nat]
    BY <2>1, Zenon DEF FirstConn, IInv, TypeOK, TypeConns
  <2>3. nconn' = 1 /\ UNCHANGED <<got, cstate, retry, lastErr>>
    BY DEF FirstConn
  <2> QED
    BY <2>1, <2>2, <2>3 DEF IInv, TypeOK, TypeConns
<1>2. TypeLocals'
  BY DEF FirstConn, commitBatch, getNextBatchSize, IInv, TypeOK, TypeConns, TypeLocals
<1>3. TypeLoop' /\ TypeOut' /\ TypeEnv'
  <2>1. launched' = launched + 1 /\ batch' = batch * 2 /\ pending' = 1 /\ ready' = 0
    BY DEF FirstConn, commitBatch
  <2>2. launched \in Nat /\ batch \in Nat \ {0}
    BY DEF IInv, TypeOK, TypeLoop
  <2>3. launched' \in Nat /\ batch' \in Nat \ {0} /\ pending' \in Nat /\ ready' \in Nat
    BY <2>1, <2>2
  <2>4. loop' = "select" /\ UNCHANGED <<extra, out, rest>>
    BY DEF FirstConn
  <2> QED
    BY <2>3, <2>4 DEF out, rest, pref, env, IInv, TypeOK, TypeLoop, TypeOut, TypeEnv
<1>4. TypeFlags'
  BY Zenon DEF FirstConn, commitBatch, getNextBatchSize, IInv, TypeOK, TypeFlags
<1>5. LaunchedCount'
  BY DEF FirstConn, commitBatch, getNextBatchSize, IInv, TypeOK, TypeConns, TypeLocals,
     TypeLoop, LaunchedCount, BlankSlots, Quiet
<1>6. BlankSlots' /\ HandHeld'
  <2>1. nconn' = 1 /\ got' = got /\ hand' = hand /\ pc' = [pc EXCEPT ![0] = "start"] /\ nconn = 0
    BY DEF FirstConn, rest
  <2>2. \A d \in Conns : d # 0 => pc'[d] = pc[d]
    BY <2>1 DEF IInv, TypeOK, TypeLocals
  <2>3. \A d \in Conns : pc[d] = "gone" /\ got[d] = 0 /\ hand[d] = 0
    BY <2>1 DEF IInv, BlankSlots
  <2> QED
    BY <2>1, <2>2, <2>3 DEF BlankSlots, HandHeld
<1>7. InFlightFits' /\ ChunksWithin' /\ ChunksApart'
  <2>1. /\ nconn' = 1 /\ got' = got /\ hand' = hand /\ nconn = 0 /\ dataPos < Size
        /\ begin' = [begin EXCEPT ![0] = dataPos] /\ end' = [end EXCEPT ![0] = Size - 1]
    BY DEF FirstConn, rest
  <2>2. 0 \in Conns /\ got[0] = 0 /\ hand[0] = 0
    BY <2>1 DEF IInv, BlankSlots
  <2>3. begin'[0] = dataPos /\ end'[0] = Size - 1 /\ dataPos \in Nat
    BY <2>1, <2>2 DEF IInv, TypeOK, TypeConns, TypeOut
  <2> QED
    BY <2>1, <2>2, <2>3 DEF InFlightFits, ChunksWithin, ChunksApart
<1>8. Quiet'
  BY DEF FirstConn, commitBatch, getNextBatchSize, IInv, TypeOK, TypeConns, TypeLocals,
     TypeLoop, TypeOut, TypeEnv, Quiet, connMuFree
<1> QED
  BY <1>1, <1>2, <1>3, <1>4, <1>5, <1>6, <1>7, <1>8 DEF IInv, TypeOK

LEMMA SplitOneInv ==
  ASSUME IInv, SplitOne
  PROVE  IInv'
<1> USE ConstantsOK DEF ConstantsOK, Conns, Attempts, Existing, remain, conns, locals,
     slow, ctl, out, pref, env, rest
<1>1. TypeConns'
  <2> DEFINE h(m) == remain(m) \div 2
  <2>1. PICK m \in Existing :
           /\ remain(m) > 2 * StealMin
           /\ begin' = [begin EXCEPT ![nconn] = end[m] - h(m) + 1]
           /\ end' = [end EXCEPT ![nconn] = end[m], ![m] = end[m] - h(m)]
    BY DEF SplitOne, secondHalf, Splittable
  <2>2. /\ m \in Conns /\ begin[m] \in Nat /\ end[m] \in Int /\ got[m] \in Nat /\ m < nconn /\ m \in Int
        /\ remain(m) \in Int /\ hand[m] \in 0..Buf /\ end[m] < Size
    BY <2>1, ExistingTypes
  <2>3. h(m) \in Nat /\ 2 * h(m) <= remain(m) /\ remain(m) <= 2 * h(m) + 1
    <3>1. remain(m) \in Nat
      BY <2>1, <2>2
    <3> HIDE DEF remain
    <3> QED
      BY <3>1
  <2> HIDE DEF h
  <2>4. h(m) >= Buf /\ end[m] - h(m) >= begin[m] + got[m] + Buf
    BY <2>1, <2>2, <2>3, StealLeavesABuffer
  <2>5. nconn \in Nat /\ nconn > 0 /\ nconn < MaxConns /\ nconn \in Conns /\ nconn' = nconn + 1
    BY SlotLeft DEF SplitOne, secondHalf
  <2>6. end[m] - h(m) + 1 \in Nat /\ end[m] - h(m) \in Int
    BY <2>2, <2>3, <2>4
  <2>7. begin' \in [Conns -> Nat] /\ end' \in [Conns -> Int]
    BY <2>1, <2>2, <2>5, <2>6, Zenon DEF IInv, TypeOK, TypeConns
  <2>8. nconn' \in 0..MaxConns /\ UNCHANGED <<got, total, cstate, retry, lastErr>>
    BY <2>5 DEF SplitOne, secondHalf
  <2> QED
    BY <2>7, <2>8 DEF IInv, TypeOK, TypeConns
<1>2. TypeLocals'
  BY DEF SplitOne, secondHalf, getNextBatchSize, Splittable, IInv, TypeOK, TypeConns, TypeLocals
<1>3. TypeLoop' /\ TypeOut' /\ TypeEnv'
  BY DEF SplitOne, secondHalf, getNextBatchSize, Splittable, IInv, TypeOK, TypeConns, TypeLocals, TypeLoop,
     TypeOut, TypeEnv
<1>4. TypeFlags'
  BY Zenon DEF SplitOne, secondHalf, getNextBatchSize, Splittable, IInv, TypeOK, TypeFlags
<1>5. LaunchedCount'
  <2>1. /\ nconn \in Nat /\ nconn > 0 /\ nconn < MaxConns /\ nconn \in Conns /\ launched \in Nat
        /\ launched <= nconn /\ nconn - launched < getNextBatchSize /\ getNextBatchSize \in Int
        /\ launched <= MaxConns
    BY SlotLeft DEF SplitOne, secondHalf
  <2>2. nconn' = nconn + 1 /\ launched' = launched /\ batch' = batch /\ loop' = "split" /\ pc' = pc /\ hand' = hand
    BY DEF SplitOne, secondHalf, slow, rest
  <2>3. getNextBatchSize' = getNextBatchSize
    BY <2>2 DEF getNextBatchSize
  <2>4. pc[nconn] = "gone" /\ hand[nconn] = 0
    BY <2>1 DEF IInv, BlankSlots
  <2>5. \A d \in launched..nconn : pc[d] = "gone" /\ hand[d] = 0
    <3>1. CASE loop = "expand"
      BY <2>1, <2>4, <3>1 DEF IInv, LaunchedCount
    <3>2. CASE loop = "split"
      BY <2>1, <2>4, <3>2 DEF IInv, LaunchedCount
    <3> QED
      BY <3>1, <3>2 DEF SplitOne, secondHalf
  <2> QED
    BY <2>1, <2>2, <2>3, <2>5 DEF LaunchedCount
<1>6. BlankSlots' /\ HandHeld'
  <2>1. nconn \in Int /\ nconn' = nconn + 1 /\ pc' = pc /\ got' = got /\ hand' = hand
    BY DEF SplitOne, secondHalf, rest, IInv, TypeOK, TypeConns
  <2>2. \A d \in Conns : d >= nconn + 1 => d >= nconn
    BY <2>1
  <2> QED
    BY <2>1, <2>2 DEF IInv, BlankSlots, HandHeld
<1>7. InFlightFits' /\ ChunksWithin' /\ ChunksApart'
  <2> DEFINE h(m) == remain(m) \div 2
  <2>1. PICK m \in Existing :
           /\ remain(m) > 2 * StealMin
           /\ begin' = [begin EXCEPT ![nconn] = end[m] - h(m) + 1]
           /\ end' = [end EXCEPT ![nconn] = end[m], ![m] = end[m] - h(m)]
    BY DEF SplitOne, secondHalf, Splittable
  <2>2. /\ m \in Conns /\ begin[m] \in Nat /\ end[m] \in Int /\ got[m] \in Nat /\ m < nconn /\ m \in Int
        /\ remain(m) \in Int /\ hand[m] \in 0..Buf /\ end[m] < Size
    BY <2>1, ExistingTypes
  <2>3. h(m) \in Nat /\ 2 * h(m) <= remain(m) /\ remain(m) <= 2 * h(m) + 1
    <3>1. remain(m) \in Nat
      BY <2>1, <2>2
    <3> HIDE DEF remain
    <3> QED
      BY <3>1
  <2> HIDE DEF h
  <2>4. h(m) >= Buf /\ end[m] - h(m) >= begin[m] + got[m] + Buf
    BY <2>1, <2>2, <2>3, StealLeavesABuffer
  <2>5. nconn \in Nat /\ nconn > 0 /\ nconn < MaxConns /\ nconn \in Conns /\ nconn' = nconn + 1
    BY SlotLeft DEF SplitOne, secondHalf
  <2>6. PICK n \in Conns : n = nconn
    BY <2>5
  <2>7. hand' = hand /\ got' = got /\ hand[nconn] = 0 /\ got[nconn] = 0
    BY <2>5 DEF SplitOne, secondHalf, rest, IInv, BlankSlots
  <2>8. /\ begin'[nconn] = end[m] - h(m) + 1 /\ end'[nconn] = end[m]
        /\ begin'[m] = begin[m] /\ end'[m] = end[m] - h(m) /\ m # nconn
    <3>1. begin \in [Conns -> Nat] /\ end \in [Conns -> Int]
      BY DEF IInv, TypeOK, TypeConns
    <3>2. m # nconn
      BY <2>2
    <3> QED
      BY <2>1, <2>2, <2>5, <3>1, <3>2, Zenon
  <2>9. \A d \in Conns \ {nconn, m} : begin'[d] = begin[d] /\ end'[d] = end[d]
    BY <2>1, <2>2, <2>5 DEF IInv, TypeOK, TypeConns
  <2>10. Existing' = Existing \union {nconn}
    BY <2>5
  <2>11. InFlightFits'
    <3>1. SUFFICES ASSUME NEW d \in Existing' PROVE hand[d] <= remain(d)'
      BY <2>7 DEF InFlightFits
    <3>2. CASE d = nconn
      BY <2>2, <2>3, <2>4, <2>7, <2>8, <3>2
    <3>3. CASE d # nconn
      <4>1. d \in Conns /\ hand[d] <= remain(d) /\ hand[d] \in 0..Buf
        BY <2>10, <3>1, <3>3, ExistingTypes
      <4> QED
        BY <2>2, <2>3, <2>4, <2>7, <2>8, <2>9, <3>3, <4>1
    <3> QED
      BY <3>2, <3>3
  <2>12. ChunksWithin'
    <3>1. SUFFICES ASSUME NEW d \in Existing' PROVE end'[d] < Size
      BY DEF ChunksWithin
    <3>2. CASE d = nconn
      BY <2>2, <2>8, <3>2
    <3>3. CASE d # nconn
      <4>1. d \in Conns /\ end[d] < Size
        BY <2>10, <3>1, <3>3, ExistingTypes
      <4> QED
        BY <2>2, <2>3, <2>8, <2>9, <3>3, <4>1
    <3> QED
      BY <3>2, <3>3
  <2>13. ASSUME NEW d \in Existing, NEW e \in Existing, d # e PROVE Apart(d, e)'
    <3>1. /\ d \in Conns /\ begin[d] \in Nat /\ got[d] \in Nat /\ end[d] \in Int /\ d # nconn
          /\ e \in Conns /\ begin[e] \in Nat /\ got[e] \in Nat /\ end[e] \in Int /\ e # nconn
      BY <2>13, <2>5, ExistingTypes
    <3>2. Apart(d, e)
      BY <2>13 DEF IInv, ChunksApart
    <3> QED
      BY <2>2, <2>3, <2>4, <2>7, <2>8, <2>9, <3>1, <3>2 DEF Apart
  <2>14. ASSUME NEW d \in Existing PROVE Apart(d, n)' /\ Apart(n, d)'
    <3>1. /\ d \in Conns /\ begin[d] \in Nat /\ got[d] \in Nat /\ end[d] \in Int /\ d # nconn
      BY <2>14, <2>5, ExistingTypes
    <3>2. CASE d = m
      <4>1. end'[m] < begin'[n] + got'[n] /\ end'[d] = end'[m]
        BY <2>2, <2>3, <2>7, <2>8, <2>6, <3>2
      <4> QED
        BY <4>1 DEF Apart
    <3>3. CASE d # m
      <4>1. Apart(d, m)
        BY <2>1, <2>14, <3>3 DEF IInv, ChunksApart
      <4>2. begin'[d] = begin[d] /\ end'[d] = end[d] /\ got'[d] = got[d]
        BY <2>7, <2>9, <3>1, <3>3
      <4>3. \/ end'[d] - begin'[d] + 1 - got'[d] <= 0
            \/ end'[d] < begin'[n] + got'[n]
            \/ end'[n] < begin'[d] + got'[d]
        BY <2>1, <2>2, <2>3, <2>4, <2>7, <2>8, <2>6, <3>1, <4>1, <4>2 DEF Apart
      <4> QED
        BY <4>3 DEF Apart
    <3> QED
      BY <3>2, <3>3
  <2>15. ChunksApart'
    <3>1. SUFFICES ASSUME NEW d \in Existing', NEW e \in Existing', d # e PROVE Apart(d, e)'
      BY DEF ChunksApart
    <3>2. (d \in Existing \/ d = n) /\ (e \in Existing \/ e = n)
      BY <2>10, <2>6, <3>1
    <3>3. CASE d \in Existing /\ e \in Existing
      BY <2>13, <3>1, <3>3
    <3>4. CASE d = n /\ e \in Existing
      BY <2>14, <2>6, <3>4
    <3>5. CASE d \in Existing /\ e = n
      BY <2>14, <2>6, <3>5
    <3> QED
      BY <3>1, <3>2, <3>3, <3>4, <3>5
  <2> QED
    BY <2>11, <2>12, <2>15
<1>8. Quiet'
  BY DEF SplitOne, secondHalf, getNextBatchSize, Splittable, IInv, TypeOK, TypeConns, TypeLocals, TypeLoop,
     TypeOut, TypeEnv, Quiet, connMuFree
<1> QED
  BY <1>1, <1>2, <1>3, <1>4, <1>5, <1>6, <1>7, <1>8 DEF IInv, TypeOK

LEMMA SplitEndsInv ==
  ASSUME IInv, SplitEnds
  PROVE  IInv'
<1> USE ConstantsOK DEF ConstantsOK, Conns, Attempts, Existing, remain, conns, locals,
     slow, ctl, out, pref, env, rest
<1>1. TypeConns'
  BY DEF SplitEnds, getNextBatchSize, IInv, TypeOK, TypeConns, TypeLocals, ErrorKinds
<1>2. TypeLocals'
  BY DEF SplitEnds, getNextBatchSize, IInv, TypeOK, TypeConns, TypeLocals
<1>3. TypeLoop' /\ TypeOut' /\ TypeEnv'
  BY DEF SplitEnds, getNextBatchSize, IInv, TypeOK, TypeConns, TypeLocals, TypeLoop, TypeOut,
     TypeEnv
<1>4. TypeFlags'
  BY Zenon DEF SplitEnds, getNextBatchSize, IInv, TypeOK, TypeFlags
<1>5. LaunchedCount'
  BY DEF SplitEnds, getNextBatchSize, IInv, TypeOK, TypeConns, TypeLocals, TypeLoop,
     LaunchedCount, BlankSlots, Quiet
<1>6. BlankSlots' /\ HandHeld'
  BY DEF SplitEnds, getNextBatchSize, IInv, TypeOK, TypeConns, TypeLocals, BlankSlots, HandHeld,
     LaunchedCount, TypeLoop, Quiet
<1>7. InFlightFits' /\ ChunksWithin' /\ ChunksApart'
  BY DEF SplitEnds, getNextBatchSize, IInv, TypeOK, TypeConns, TypeLocals, TypeLoop,
     LaunchedCount, HandHeld, BlankSlots, InFlightFits, ChunksWithin, ChunksApart, Apart
<1>8. Quiet'
  BY DEF SplitEnds, getNextBatchSize, IInv, TypeOK, TypeConns, TypeLocals, TypeLoop, TypeOut,
     TypeEnv, Quiet, connMuFree
<1> QED
  BY <1>1, <1>2, <1>3, <1>4, <1>5, <1>6, <1>7, <1>8 DEF IInv, TypeOK

LEMMA LaunchBatchInv ==
  ASSUME IInv, LaunchBatch
  PROVE  IInv'
<1> USE ConstantsOK DEF ConstantsOK, Conns, Attempts, Existing, remain, conns, locals,
     slow, ctl, out, pref, env, rest
<1>1. TypeConns'
  BY DEF LaunchBatch, commitBatch, getNextBatchSize, IInv, TypeOK, TypeConns, TypeLocals,
     ErrorKinds
<1>2. TypeLocals'
  BY DEF LaunchBatch, commitBatch, getNextBatchSize, IInv, TypeOK, TypeConns, TypeLocals
<1>3. TypeLoop' /\ TypeOut' /\ TypeEnv'
  <2>1. /\ launched \in Nat /\ nconn - launched \in Nat /\ batch \in Nat \ {0}
    BY DEF LaunchBatch, IInv, TypeOK, TypeConns, TypeLoop, LaunchedCount
  <2>2. /\ launched + (nconn - launched) \in Nat /\ batch * 2 \in Nat \ {0}
    BY <2>1
  <2>3. /\ launched' = launched + (nconn - launched) /\ batch' = batch * 2
        /\ pending' = nconn - launched /\ ready' = 0 /\ loop' = "select" /\ extra' = extra
    BY Zenon DEF LaunchBatch, commitBatch, getNextBatchSize
  <2>4. TypeLoop'
    BY <2>1, <2>2, <2>3 DEF IInv, TypeOK, TypeLoop
  <2> QED
    BY <2>4 DEF LaunchBatch, commitBatch, getNextBatchSize, IInv, TypeOK, TypeOut, TypeEnv
<1>4. TypeFlags'
  BY Zenon DEF LaunchBatch, commitBatch, getNextBatchSize, IInv, TypeOK, TypeFlags
<1>5. LaunchedCount'
  BY DEF LaunchBatch, commitBatch, getNextBatchSize, IInv, TypeOK, TypeConns, TypeLocals,
     TypeLoop, LaunchedCount, BlankSlots, Quiet
<1>6. BlankSlots' /\ HandHeld'
  <2>1. /\ nconn \in Int /\ launched \in Int /\ launched < nconn
        /\ \A d \in launched..(nconn - 1) : pc[d] = "gone" /\ hand[d] = 0
    BY DEF LaunchBatch, IInv, TypeOK, TypeConns, TypeLoop, LaunchedCount
  <2>2. nconn' = nconn /\ got' = got /\ hand' = hand
    BY Zenon DEF LaunchBatch, commitBatch, getNextBatchSize
  <2>3. pc' = [d \in Conns |-> IF d \in launched..(nconn - 1) THEN "start" ELSE pc[d]]
    BY DEF LaunchBatch
  <2>4. BlankSlots'
    BY <2>1, <2>2, <2>3 DEF IInv, BlankSlots
  <2>5. HandHeld'
    BY <2>1, <2>2, <2>3 DEF IInv, HandHeld
  <2> QED
    BY <2>4, <2>5
<1>7. InFlightFits' /\ ChunksWithin' /\ ChunksApart'
  BY DEF LaunchBatch, commitBatch, getNextBatchSize, IInv, TypeOK, TypeConns, TypeLocals,
     TypeLoop, LaunchedCount, HandHeld, BlankSlots, InFlightFits, ChunksWithin, ChunksApart,
     Apart
<1>8. Quiet'
  BY DEF LaunchBatch, commitBatch, getNextBatchSize, IInv, TypeOK, TypeConns, TypeLocals,
     TypeLoop, TypeOut, TypeEnv, Quiet, connMuFree
<1> QED
  BY <1>1, <1>2, <1>3, <1>4, <1>5, <1>6, <1>7, <1>8 DEF IInv, TypeOK

LEMMA LoopCancelledInv ==
  ASSUME IInv, LoopCancelled
  PROVE  IInv'
<1> USE ConstantsOK DEF ConstantsOK, Conns, Attempts, Existing, remain, conns, locals,
     slow, ctl, out, pref, env, rest
<1>1. TypeConns'
  BY DEF LoopCancelled, IInv, TypeOK, TypeConns, TypeLocals, ErrorKinds
<1>2. TypeLocals'
  BY DEF LoopCancelled, IInv, TypeOK, TypeConns, TypeLocals
<1>3. TypeLoop' /\ TypeOut' /\ TypeEnv'
  BY DEF LoopCancelled, IInv, TypeOK, TypeConns, TypeLocals, TypeLoop, TypeOut, TypeEnv
<1>4. TypeFlags'
  BY Zenon DEF LoopCancelled, IInv, TypeOK, TypeFlags
<1>5. LaunchedCount'
  BY DEF LoopCancelled, IInv, TypeOK, TypeConns, TypeLocals, TypeLoop, LaunchedCount,
     BlankSlots, getNextBatchSize, Quiet
<1>6. BlankSlots' /\ HandHeld'
  BY DEF LoopCancelled, IInv, TypeOK, TypeConns, TypeLocals, BlankSlots, HandHeld,
     LaunchedCount, TypeLoop, getNextBatchSize, Quiet
<1>7. InFlightFits' /\ ChunksWithin' /\ ChunksApart'
  BY DEF LoopCancelled, IInv, TypeOK, TypeConns, TypeLocals, TypeLoop, LaunchedCount, HandHeld,
     BlankSlots, InFlightFits, ChunksWithin, ChunksApart, Apart
<1>8. Quiet'
  BY DEF LoopCancelled, IInv, TypeOK, TypeConns, TypeLocals, TypeLoop, TypeOut, TypeEnv, Quiet,
     connMuFree
<1> QED
  BY <1>1, <1>2, <1>3, <1>4, <1>5, <1>6, <1>7, <1>8 DEF IInv, TypeOK

LEMMA LoopWaitedInv ==
  ASSUME IInv, LoopWaited
  PROVE  IInv'
<1> USE ConstantsOK DEF ConstantsOK, Conns, Attempts, Existing, remain, conns, locals,
     slow, ctl, out, pref, env, rest
<1>1. TypeConns'
  BY DEF LoopWaited, onDownloadComplete, WgDone, Running, IInv, TypeOK, TypeConns, TypeLocals,
     ErrorKinds
<1>2. TypeLocals'
  BY DEF LoopWaited, onDownloadComplete, WgDone, Running, IInv, TypeOK, TypeConns, TypeLocals
<1>3. TypeLoop' /\ TypeOut' /\ TypeEnv'
  BY DEF LoopWaited, onDownloadComplete, WgDone, Running, IInv, TypeOK, TypeConns, TypeLocals,
     TypeLoop, TypeOut, TypeEnv
<1>4. TypeFlags'
  <2>1. hasFinalErr \in BOOLEAN
    BY Zenon DEF hasFinalErr
  <2>2. attempt \in 0..MaxStarts
    BY DEF IInv, TypeOK, TypeEnv
  <2>3. doneCh' = doneCh \/ doneCh' = <<[from |-> attempt, err |-> hasFinalErr]>>
    BY Zenon DEF LoopWaited, onDownloadComplete, WgDone, Running
  <2>4. \/ doneCh' = <<>>
        \/ \E b \in 0..MaxStarts, e \in BOOLEAN : doneCh' = <<[from |-> b, err |-> e]>>
    BY <2>1, <2>2, <2>3, Zenon DEF IInv, TypeOK, TypeFlags
  <2> QED
    BY <2>4, Zenon DEF LoopWaited, onDownloadComplete, WgDone, Running, IInv, TypeOK, TypeFlags
<1>5. LaunchedCount'
  BY DEF LoopWaited, onDownloadComplete, WgDone, Running, IInv, TypeOK, TypeConns, TypeLocals,
     TypeLoop, LaunchedCount, BlankSlots, getNextBatchSize, Quiet
<1>6. BlankSlots' /\ HandHeld'
  BY DEF LoopWaited, onDownloadComplete, WgDone, Running, IInv, TypeOK, TypeConns, TypeLocals,
     BlankSlots, HandHeld, LaunchedCount, TypeLoop, getNextBatchSize, Quiet
<1>7. InFlightFits' /\ ChunksWithin' /\ ChunksApart'
  BY DEF LoopWaited, onDownloadComplete, WgDone, Running, IInv, TypeOK, TypeConns, TypeLocals,
     TypeLoop, LaunchedCount, HandHeld, BlankSlots, InFlightFits, ChunksWithin, ChunksApart,
     Apart
<1>8. Quiet'
  <2>1. \A d \in Conns : pc[d] = "gone"
    BY NoneRunning DEF LoopWaited
  <2>2. /\ pc' = pc /\ loop = "wait" /\ loop' = "closing" /\ op' = op /\ cancelled' = cancelled
        /\ fstate' \in {fstate, "done", "error"}
    BY DEF LoopWaited, onDownloadComplete, WgDone, Running
  <2> QED
    BY <2>1, <2>2 DEF IInv, Quiet
<1> QED
  BY <1>1, <1>2, <1>3, <1>4, <1>5, <1>6, <1>7, <1>8 DEF IInv, TypeOK

LEMMA LoopClosesInv ==
  ASSUME IInv, LoopCloses
  PROVE  IInv'
<1> USE ConstantsOK DEF ConstantsOK, Conns, Attempts, Existing, remain, conns, locals,
     slow, ctl, out, pref, env, rest
<1>1. TypeConns'
  BY DEF LoopCloses, IInv, TypeOK, TypeConns, TypeLocals, ErrorKinds
<1>2. TypeLocals'
  BY DEF LoopCloses, IInv, TypeOK, TypeConns, TypeLocals
<1>3. TypeLoop' /\ TypeOut' /\ TypeEnv'
  BY DEF LoopCloses, IInv, TypeOK, TypeConns, TypeLocals, TypeLoop, TypeOut, TypeEnv
<1>4. TypeFlags'
  BY Zenon DEF LoopCloses, IInv, TypeOK, TypeFlags
<1>5. LaunchedCount'
  BY DEF LoopCloses, IInv, TypeOK, TypeConns, TypeLocals, TypeLoop, LaunchedCount,
     BlankSlots, getNextBatchSize, Quiet
<1>6. BlankSlots' /\ HandHeld'
  BY DEF LoopCloses, IInv, TypeOK, TypeConns, TypeLocals, BlankSlots, HandHeld,
     LaunchedCount, TypeLoop, getNextBatchSize, Quiet
<1>7. InFlightFits' /\ ChunksWithin' /\ ChunksApart'
  BY DEF LoopCloses, IInv, TypeOK, TypeConns, TypeLocals, TypeLoop, LaunchedCount, HandHeld,
     BlankSlots, InFlightFits, ChunksWithin, ChunksApart, Apart
<1>8. Quiet'
  BY DEF LoopCloses, IInv, TypeOK, TypeConns, TypeLocals, TypeLoop, TypeOut, TypeEnv, Quiet,
     connMuFree
<1> QED
  BY <1>1, <1>2, <1>3, <1>4, <1>5, <1>6, <1>7, <1>8 DEF IInv, TypeOK

LEMMA ExtraWaitsInv ==
  ASSUME IInv, NEW a \in Attempts, ExtraWaits(a)
  PROVE  IInv'
<1> USE ConstantsOK DEF ConstantsOK, Conns, Attempts, Existing, remain, conns, locals,
     slow, ctl, out, pref, env, rest
<1>1. TypeConns'
  BY DEF ExtraWaits, IInv, TypeOK, TypeConns, TypeLocals, ErrorKinds
<1>2. TypeLocals'
  BY DEF ExtraWaits, IInv, TypeOK, TypeConns, TypeLocals
<1>3. TypeLoop' /\ TypeOut' /\ TypeEnv'
  BY DEF ExtraWaits, IInv, TypeOK, TypeConns, TypeLocals, TypeLoop, TypeOut, TypeEnv
<1>4. TypeFlags'
  BY Zenon DEF ExtraWaits, IInv, TypeOK, TypeFlags
<1>5. LaunchedCount'
  BY DEF ExtraWaits, IInv, TypeOK, TypeConns, TypeLocals, TypeLoop, LaunchedCount, BlankSlots,
     getNextBatchSize, Quiet
<1>6. BlankSlots' /\ HandHeld'
  BY DEF ExtraWaits, IInv, TypeOK, TypeConns, TypeLocals, BlankSlots, HandHeld, LaunchedCount,
     TypeLoop, getNextBatchSize, Quiet
<1>7. InFlightFits' /\ ChunksWithin' /\ ChunksApart'
  BY DEF ExtraWaits, IInv, TypeOK, TypeConns, TypeLocals, TypeLoop, LaunchedCount, HandHeld,
     BlankSlots, InFlightFits, ChunksWithin, ChunksApart, Apart
<1>8. Quiet'
  BY DEF ExtraWaits, IInv, TypeOK, TypeConns, TypeLocals, TypeLoop, TypeOut, TypeEnv, Quiet,
     connMuFree
<1> QED
  BY <1>1, <1>2, <1>3, <1>4, <1>5, <1>6, <1>7, <1>8 DEF IInv, TypeOK

LEMMA ExtraWakesInv ==
  ASSUME IInv, NEW a \in Attempts, ExtraWakes(a)
  PROVE  IInv'
<1> USE ConstantsOK DEF ConstantsOK, Conns, Attempts, Existing, remain, conns, locals,
     slow, ctl, out, pref, env, rest
<1>1. TypeConns'
  BY DEF ExtraWakes, IInv, TypeOK, TypeConns, TypeLocals, ErrorKinds
<1>2. TypeLocals'
  BY DEF ExtraWakes, IInv, TypeOK, TypeConns, TypeLocals
<1>3. TypeLoop' /\ TypeOut' /\ TypeEnv'
  BY DEF ExtraWakes, IInv, TypeOK, TypeConns, TypeLocals, TypeLoop, TypeOut, TypeEnv
<1>4. TypeFlags'
  BY Zenon DEF ExtraWakes, IInv, TypeOK, TypeFlags
<1>5. LaunchedCount'
  BY DEF ExtraWakes, IInv, TypeOK, TypeConns, TypeLocals, TypeLoop, LaunchedCount, BlankSlots,
     getNextBatchSize, Quiet
<1>6. BlankSlots' /\ HandHeld'
  BY DEF ExtraWakes, IInv, TypeOK, TypeConns, TypeLocals, BlankSlots, HandHeld, LaunchedCount,
     TypeLoop, getNextBatchSize, Quiet
<1>7. InFlightFits' /\ ChunksWithin' /\ ChunksApart'
  BY DEF ExtraWakes, IInv, TypeOK, TypeConns, TypeLocals, TypeLoop, LaunchedCount, HandHeld,
     BlankSlots, InFlightFits, ChunksWithin, ChunksApart, Apart
<1>8. Quiet'
  BY DEF ExtraWakes, IInv, TypeOK, TypeConns, TypeLocals, TypeLoop, TypeOut, TypeEnv, Quiet,
     connMuFree
<1> QED
  BY <1>1, <1>2, <1>3, <1>4, <1>5, <1>6, <1>7, <1>8 DEF IInv, TypeOK

LEMMA ExtraChecksInv ==
  ASSUME IInv, NEW a \in Attempts, ExtraChecks(a)
  PROVE  IInv'
<1> USE ConstantsOK DEF ConstantsOK, Conns, Attempts, Existing, remain, conns, locals,
     slow, ctl, out, pref, env, rest
<1>1. TypeConns'
  BY DEF ExtraChecks, IInv, TypeOK, TypeConns, TypeLocals, ErrorKinds
<1>2. TypeLocals'
  BY DEF ExtraChecks, IInv, TypeOK, TypeConns, TypeLocals
<1>3. TypeLoop' /\ TypeOut' /\ TypeEnv'
  BY DEF ExtraChecks, IInv, TypeOK, TypeConns, TypeLocals, TypeLoop, TypeOut, TypeEnv
<1>4. TypeFlags'
  BY Zenon DEF ExtraChecks, IInv, TypeOK, TypeFlags
<1>5. LaunchedCount'
  BY DEF ExtraChecks, IInv, TypeOK, TypeConns, TypeLocals, TypeLoop, LaunchedCount, BlankSlots,
     getNextBatchSize, Quiet
<1>6. BlankSlots' /\ HandHeld'
  BY DEF ExtraChecks, IInv, TypeOK, TypeConns, TypeLocals, BlankSlots, HandHeld, LaunchedCount,
     TypeLoop, getNextBatchSize, Quiet
<1>7. InFlightFits' /\ ChunksWithin' /\ ChunksApart'
  BY DEF ExtraChecks, IInv, TypeOK, TypeConns, TypeLocals, TypeLoop, LaunchedCount, HandHeld,
     BlankSlots, InFlightFits, ChunksWithin, ChunksApart, Apart
<1>8. Quiet'
  BY DEF ExtraChecks, IInv, TypeOK, TypeConns, TypeLocals, TypeLoop, TypeOut, TypeEnv, Quiet,
     connMuFree
<1> QED
  BY <1>1, <1>2, <1>3, <1>4, <1>5, <1>6, <1>7, <1>8 DEF IInv, TypeOK

LEMMA ExtraCompletesInv ==
  ASSUME IInv, NEW a \in Attempts, ExtraCompletes(a)
  PROVE  IInv'
<1> USE ConstantsOK DEF ConstantsOK, Conns, Attempts, Existing, remain, conns, locals,
     slow, ctl, out, pref, env, rest
<1>1. TypeConns'
  BY DEF ExtraCompletes, onDownloadComplete, IInv, TypeOK, TypeConns, TypeLocals, ErrorKinds
<1>2. TypeLocals'
  BY DEF ExtraCompletes, onDownloadComplete, IInv, TypeOK, TypeConns, TypeLocals
<1>3. TypeLoop' /\ TypeOut' /\ TypeEnv'
  BY DEF ExtraCompletes, onDownloadComplete, IInv, TypeOK, TypeConns, TypeLocals, TypeLoop,
     TypeOut, TypeEnv
<1>4. TypeFlags'
  <2>1. hasFinalErr \in BOOLEAN
    BY Zenon DEF hasFinalErr
  <2>2. a \in 0..MaxStarts
    BY DEF IInv, TypeOK, TypeEnv
  <2>3. doneCh' = doneCh \/ doneCh' = <<[from |-> a, err |-> hasFinalErr]>>
    BY Zenon DEF ExtraCompletes, onDownloadComplete
  <2>4. \/ doneCh' = <<>>
        \/ \E b \in 0..MaxStarts, e \in BOOLEAN : doneCh' = <<[from |-> b, err |-> e]>>
    BY <2>1, <2>2, <2>3, Zenon DEF IInv, TypeOK, TypeFlags
  <2> QED
    BY <2>4, Zenon DEF ExtraCompletes, onDownloadComplete, IInv, TypeOK, TypeFlags
<1>5. LaunchedCount'
  BY DEF ExtraCompletes, onDownloadComplete, IInv, TypeOK, TypeConns, TypeLocals, TypeLoop,
     LaunchedCount, BlankSlots, getNextBatchSize, Quiet
<1>6. BlankSlots' /\ HandHeld'
  BY DEF ExtraCompletes, onDownloadComplete, IInv, TypeOK, TypeConns, TypeLocals, BlankSlots,
     HandHeld, LaunchedCount, TypeLoop, getNextBatchSize, Quiet
<1>7. InFlightFits' /\ ChunksWithin' /\ ChunksApart'
  BY DEF ExtraCompletes, onDownloadComplete, IInv, TypeOK, TypeConns, TypeLocals, TypeLoop,
     LaunchedCount, HandHeld, BlankSlots, InFlightFits, ChunksWithin, ChunksApart, Apart
<1>8. Quiet'
  BY DEF ExtraCompletes, onDownloadComplete, IInv, TypeOK, TypeConns, TypeLocals, TypeLoop,
     TypeOut, TypeEnv, Quiet, connMuFree
<1> QED
  BY <1>1, <1>2, <1>3, <1>4, <1>5, <1>6, <1>7, <1>8 DEF IInv, TypeOK

LEMMA PrefetchReadInv ==
  ASSUME IInv, PrefetchRead
  PROVE  IInv'
<1> USE ConstantsOK DEF ConstantsOK, Conns, Attempts, Existing, remain, conns, locals,
     slow, ctl, out, pref, env, rest
<1>1. TypeConns'
  BY DEF PrefetchRead, IInv, TypeOK, TypeConns, TypeLocals, ErrorKinds
<1>2. TypeLocals'
  BY DEF PrefetchRead, IInv, TypeOK, TypeConns, TypeLocals
<1>3. TypeLoop' /\ TypeOut' /\ TypeEnv'
  <2>1. PICK k \in 1..Buf : pfSize + k <= PrefetchMax /\ pfSize' = pfSize + k
    BY DEF PrefetchRead, IInv, TypeOK, TypeOut, Reads
  <2>2. pfSize' \in 0..PrefetchMax
    BY <2>1 DEF IInv, TypeOK, TypeOut
  <2>3. TypeOut'
    BY <2>2 DEF PrefetchRead, IInv, TypeOK, TypeOut
  <2>4. TypeLoop' /\ TypeEnv'
    BY DEF PrefetchRead, IInv, TypeOK, TypeLoop, TypeEnv
  <2> QED
    BY <2>3, <2>4
<1>4. TypeFlags'
  BY Zenon DEF PrefetchRead, IInv, TypeOK, TypeFlags
<1>5. LaunchedCount'
  BY DEF PrefetchRead, IInv, TypeOK, TypeConns, TypeLocals, TypeLoop, LaunchedCount, BlankSlots,
     getNextBatchSize, Quiet
<1>6. BlankSlots' /\ HandHeld'
  BY DEF PrefetchRead, IInv, TypeOK, TypeConns, TypeLocals, BlankSlots, HandHeld, LaunchedCount,
     TypeLoop, getNextBatchSize, Quiet
<1>7. InFlightFits' /\ ChunksWithin' /\ ChunksApart'
  BY DEF PrefetchRead, IInv, TypeOK, TypeConns, TypeLocals, TypeLoop, LaunchedCount, HandHeld,
     BlankSlots, InFlightFits, ChunksWithin, ChunksApart, Apart
<1>8. Quiet'
  BY DEF PrefetchRead, IInv, TypeOK, TypeConns, TypeLocals, TypeLoop, TypeOut, TypeEnv, Quiet,
     connMuFree
<1> QED
  BY <1>1, <1>2, <1>3, <1>4, <1>5, <1>6, <1>7, <1>8 DEF IInv, TypeOK

LEMMA PrefetchEndInv ==
  ASSUME IInv, PrefetchEnd
  PROVE  IInv'
<1> USE ConstantsOK DEF ConstantsOK, Conns, Attempts, Existing, remain, conns, locals,
     slow, ctl, out, pref, env, rest
<1>1. TypeConns'
  BY DEF PrefetchEnd, IInv, TypeOK, TypeConns, TypeLocals, ErrorKinds
<1>2. TypeLocals'
  BY DEF PrefetchEnd, IInv, TypeOK, TypeConns, TypeLocals
<1>3. TypeLoop' /\ TypeOut' /\ TypeEnv'
  BY DEF PrefetchEnd, IInv, TypeOK, TypeConns, TypeLocals, TypeLoop, TypeOut, TypeEnv
<1>4. TypeFlags'
  BY Zenon DEF PrefetchEnd, IInv, TypeOK, TypeFlags
<1>5. LaunchedCount'
  BY DEF PrefetchEnd, IInv, TypeOK, TypeConns, TypeLocals, TypeLoop, LaunchedCount, BlankSlots,
     getNextBatchSize, Quiet
<1>6. BlankSlots' /\ HandHeld'
  BY DEF PrefetchEnd, IInv, TypeOK, TypeConns, TypeLocals, BlankSlots, HandHeld, LaunchedCount,
     TypeLoop, getNextBatchSize, Quiet
<1>7. InFlightFits' /\ ChunksWithin' /\ ChunksApart'
  BY DEF PrefetchEnd, IInv, TypeOK, TypeConns, TypeLocals, TypeLoop, LaunchedCount, HandHeld,
     BlankSlots, InFlightFits, ChunksWithin, ChunksApart, Apart
<1>8. Quiet'
  BY DEF PrefetchEnd, IInv, TypeOK, TypeConns, TypeLocals, TypeLoop, TypeOut, TypeEnv, Quiet,
     connMuFree
<1> QED
  BY <1>1, <1>2, <1>3, <1>4, <1>5, <1>6, <1>7, <1>8 DEF IInv, TypeOK

LEMMA StartCalledInv ==
  ASSUME IInv, StartCalled
  PROVE  IInv'
<1> USE ConstantsOK DEF ConstantsOK, Conns, Attempts, Existing, remain, conns, locals,
     slow, ctl, out, pref, env, rest
<1>1. TypeConns'
  BY DEF StartCalled, IInv, TypeOK, TypeConns, TypeLocals, ErrorKinds
<1>2. TypeLocals'
  BY DEF StartCalled, IInv, TypeOK, TypeConns, TypeLocals
<1>3. TypeLoop' /\ TypeOut' /\ TypeEnv'
  <2>1. TypeLoop'
    BY DEF StartCalled, IInv, TypeOK, TypeLoop
  <2>2. TypeOut'
    BY DEF StartCalled, IInv, TypeOK, TypeOut
  <2>3. TypeEnv'
    BY DEF StartCalled, IInv, TypeOK, TypeEnv
  <2> QED
    BY <2>1, <2>2, <2>3
<1>4. TypeFlags'
  BY Zenon DEF StartCalled, IInv, TypeOK, TypeFlags
<1>5. LaunchedCount'
  BY DEF StartCalled, IInv, TypeOK, TypeConns, TypeLocals, TypeLoop, LaunchedCount, BlankSlots,
     getNextBatchSize, Quiet
<1>6. BlankSlots' /\ HandHeld'
  BY DEF StartCalled, IInv, TypeOK, TypeConns, TypeLocals, BlankSlots, HandHeld, LaunchedCount,
     TypeLoop, getNextBatchSize, Quiet
<1>7. InFlightFits' /\ ChunksWithin' /\ ChunksApart'
  BY DEF StartCalled, IInv, TypeOK, TypeConns, TypeLocals, TypeLoop, LaunchedCount, HandHeld,
     BlankSlots, InFlightFits, ChunksWithin, ChunksApart, Apart
<1>8. Quiet'
  BY DEF StartCalled, IInv, TypeOK, TypeConns, TypeLocals, TypeLoop, TypeOut, TypeEnv, Quiet,
     connMuFree
<1> QED
  BY <1>1, <1>2, <1>3, <1>4, <1>5, <1>6, <1>7, <1>8 DEF IInv, TypeOK

\* What the retry leaves of the connections has the type of what it finds.
LEMMA RetryTypes ==
  ASSUME IInv, ResetForRetry
  PROVE  /\ cstate' \in [Conns -> {"notStarted", "connecting", "downloading", "completed", "failed"}]
         /\ retry' \in [Conns -> Nat]
         /\ lastErr' \in [Conns -> ErrorKinds \union {"none"}]
<1>1. 0 \in Nat
  OBVIOUS
<1>2. CASE fstate = "error"
  BY <1>1, <1>2 DEF ResetForRetry, IInv, TypeOK, TypeConns, Existing, Conns
<1>3. CASE fstate # "error"
  BY <1>3 DEF ResetForRetry, IInv, TypeOK, TypeConns
<1> QED
  BY <1>2, <1>3

LEMMA StartOpensInv ==
  ASSUME IInv, StartOpens
  PROVE  IInv'
<1> USE ConstantsOK DEF ConstantsOK, Conns, Attempts, Existing, remain, conns, locals,
     slow, ctl, out, pref, env, rest
<1>1. TypeConns'
  BY RetryTypes DEF StartOpens, IInv, TypeOK, TypeConns
<1>2. TypeLocals'
  BY DEF StartOpens, IInv, TypeOK, TypeConns, TypeLocals
<1>3. TypeLoop' /\ TypeOut' /\ TypeEnv'
  BY DEF StartOpens, IInv, TypeOK, TypeConns, TypeLocals, TypeLoop, TypeOut, TypeEnv
<1>4. TypeFlags'
  BY Zenon DEF StartOpens, ResetForRetry, IInv, TypeOK, TypeFlags
<1>5. LaunchedCount'
  BY DEF StartOpens, IInv, TypeOK, TypeConns, TypeLocals, TypeLoop, LaunchedCount, BlankSlots,
     getNextBatchSize, Quiet
<1>6. BlankSlots' /\ HandHeld'
  BY DEF StartOpens, IInv, TypeOK, TypeConns, TypeLocals, BlankSlots, HandHeld, LaunchedCount,
     TypeLoop, getNextBatchSize, Quiet
<1>7. InFlightFits' /\ ChunksWithin' /\ ChunksApart'
  BY DEF StartOpens, IInv, TypeOK, TypeConns, TypeLocals, TypeLoop, LaunchedCount, HandHeld,
     BlankSlots, InFlightFits, ChunksWithin, ChunksApart, Apart
<1>8. Quiet'
  BY DEF StartOpens, IInv, TypeOK, TypeConns, TypeLocals, TypeLoop, TypeOut, TypeEnv, Quiet,
     connMuFree
<1> QED
  BY <1>1, <1>2, <1>3, <1>4, <1>5, <1>6, <1>7, <1>8 DEF IInv, TypeOK

LEMMA StartFailsInv ==
  ASSUME IInv, StartFails
  PROVE  IInv'
<1> USE ConstantsOK DEF ConstantsOK, Conns, Attempts, Existing, remain, conns, locals,
     slow, ctl, out, pref, env, rest
<1>1. TypeConns'
  BY RetryTypes DEF StartFails, IInv, TypeOK, TypeConns
<1>2. TypeLocals'
  BY DEF StartFails, IInv, TypeOK, TypeConns, TypeLocals
<1>3. TypeLoop' /\ TypeOut' /\ TypeEnv'
  BY DEF StartFails, IInv, TypeOK, TypeConns, TypeLocals, TypeLoop, TypeOut, TypeEnv
<1>4. TypeFlags'
  BY Zenon DEF StartFails, ResetForRetry, IInv, TypeOK, TypeFlags
<1>5. LaunchedCount'
  BY DEF StartFails, IInv, TypeOK, TypeConns, TypeLocals, TypeLoop, LaunchedCount, BlankSlots,
     getNextBatchSize, Quiet
<1>6. BlankSlots' /\ HandHeld'
  BY DEF StartFails, IInv, TypeOK, TypeConns, TypeLocals, BlankSlots, HandHeld, LaunchedCount,
     TypeLoop, getNextBatchSize, Quiet
<1>7. InFlightFits' /\ ChunksWithin' /\ ChunksApart'
  BY DEF StartFails, IInv, TypeOK, TypeConns, TypeLocals, TypeLoop, LaunchedCount, HandHeld,
     BlankSlots, InFlightFits, ChunksWithin, ChunksApart, Apart
<1>8. Quiet'
  BY DEF StartFails, IInv, TypeOK, TypeConns, TypeLocals, TypeLoop, TypeOut, TypeEnv, Quiet,
     connMuFree
<1> QED
  BY <1>1, <1>2, <1>3, <1>4, <1>5, <1>6, <1>7, <1>8 DEF IInv, TypeOK

LEMMA StartRunsInv ==
  ASSUME IInv, StartRuns
  PROVE  IInv'
<1> USE ConstantsOK DEF ConstantsOK, Conns, Attempts, Existing, remain, conns, locals,
     slow, ctl, out, pref, env, rest
<1>1. TypeConns'
  BY DEF StartRuns, prefetched, IInv, TypeOK, TypeConns, TypeLocals, ErrorKinds
<1>2. TypeLocals'
  BY DEF StartRuns, prefetched, IInv, TypeOK, TypeConns, TypeLocals
<1>3. TypeLoop' /\ TypeOut' /\ TypeEnv'
  <2>1. TypeLoop' /\ TypeEnv'
    BY DEF StartRuns, prefetched, IInv, TypeOK, TypeLoop, TypeEnv
  <2>2. 0..(pfSize - 1) \subseteq Bytes
    BY DEF IInv, TypeOK, TypeOut, Bytes
  <2>3. written' \subseteq Bytes
    BY <2>2, Zenon DEF StartRuns, prefetched, IInv, TypeOK, TypeOut
  <2> QED
    BY <2>1, <2>3 DEF StartRuns, prefetched, IInv, TypeOK, TypeOut
<1>4. TypeFlags'
  BY Zenon DEF StartRuns, prefetched, IInv, TypeOK, TypeFlags
<1>5. LaunchedCount'
  BY DEF StartRuns, prefetched, IInv, TypeOK, TypeConns, TypeLocals, TypeLoop, LaunchedCount, BlankSlots,
     getNextBatchSize, Quiet
<1>6. BlankSlots' /\ HandHeld'
  BY DEF StartRuns, prefetched, IInv, TypeOK, TypeConns, TypeLocals, BlankSlots, HandHeld, LaunchedCount,
     TypeLoop, getNextBatchSize, Quiet
<1>7. InFlightFits' /\ ChunksWithin' /\ ChunksApart'
  BY DEF StartRuns, prefetched, IInv, TypeOK, TypeConns, TypeLocals, TypeLoop, LaunchedCount, HandHeld,
     BlankSlots, InFlightFits, ChunksWithin, ChunksApart, Apart
<1>8. Quiet'
  BY DEF StartRuns, prefetched, IInv, TypeOK, TypeConns, TypeLocals, TypeLoop, TypeOut, TypeEnv, Quiet,
     connMuFree
<1> QED
  BY <1>1, <1>2, <1>3, <1>4, <1>5, <1>6, <1>7, <1>8 DEF IInv, TypeOK

LEMMA PauseCalledInv ==
  ASSUME IInv, PauseCalled
  PROVE  IInv'
<1> USE ConstantsOK DEF ConstantsOK, Conns, Attempts, Existing, remain, conns, locals,
     slow, ctl, out, pref, env, rest
<1>1. TypeConns'
  BY DEF PauseCalled, IInv, TypeOK, TypeConns, TypeLocals, ErrorKinds
<1>2. TypeLocals'
  BY DEF PauseCalled, IInv, TypeOK, TypeConns, TypeLocals
<1>3. TypeLoop' /\ TypeOut' /\ TypeEnv'
  <2>1. TypeLoop'
    BY DEF PauseCalled, IInv, TypeOK, TypeLoop
  <2>2. TypeOut'
    BY DEF PauseCalled, IInv, TypeOK, TypeOut
  <2>3. TypeEnv'
    BY DEF PauseCalled, IInv, TypeOK, TypeEnv
  <2> QED
    BY <2>1, <2>2, <2>3
<1>4. TypeFlags'
  BY Zenon DEF PauseCalled, IInv, TypeOK, TypeFlags
<1>5. LaunchedCount'
  BY DEF PauseCalled, IInv, TypeOK, TypeConns, TypeLocals, TypeLoop, LaunchedCount, BlankSlots,
     getNextBatchSize, Quiet
<1>6. BlankSlots' /\ HandHeld'
  BY DEF PauseCalled, IInv, TypeOK, TypeConns, TypeLocals, BlankSlots, HandHeld, LaunchedCount,
     TypeLoop, getNextBatchSize, Quiet
<1>7. InFlightFits' /\ ChunksWithin' /\ ChunksApart'
  BY DEF PauseCalled, IInv, TypeOK, TypeConns, TypeLocals, TypeLoop, LaunchedCount, HandHeld,
     BlankSlots, InFlightFits, ChunksWithin, ChunksApart, Apart
<1>8. Quiet'
  BY DEF PauseCalled, IInv, TypeOK, TypeConns, TypeLocals, TypeLoop, TypeOut, TypeEnv, Quiet,
     connMuFree
<1> QED
  BY <1>1, <1>2, <1>3, <1>4, <1>5, <1>6, <1>7, <1>8 DEF IInv, TypeOK

LEMMA PauseEndsInv ==
  ASSUME IInv, PauseEnds
  PROVE  IInv'
<1> USE ConstantsOK DEF ConstantsOK, Conns, Attempts, Existing, remain, conns, locals,
     slow, ctl, out, pref, env, rest
<1>1. TypeConns'
  BY DEF PauseEnds, connsGone, WgDone, Running, IInv, TypeOK, TypeConns, TypeLocals, ErrorKinds
<1>2. TypeLocals'
  BY DEF PauseEnds, connsGone, WgDone, Running, IInv, TypeOK, TypeConns, TypeLocals
<1>3. TypeLoop' /\ TypeOut' /\ TypeEnv'
  BY DEF PauseEnds, connsGone, WgDone, Running, IInv, TypeOK, TypeConns, TypeLocals, TypeLoop, TypeOut,
     TypeEnv
<1>4. TypeFlags'
  BY Zenon DEF PauseEnds, connsGone, WgDone, Running, IInv, TypeOK, TypeFlags
<1>5. LaunchedCount'
  BY DEF PauseEnds, connsGone, WgDone, Running, IInv, TypeOK, TypeConns, TypeLocals, TypeLoop,
     LaunchedCount, BlankSlots, getNextBatchSize, Quiet
<1>6. BlankSlots' /\ HandHeld'
  BY DEF PauseEnds, connsGone, WgDone, Running, IInv, TypeOK, TypeConns, TypeLocals, BlankSlots, HandHeld,
     LaunchedCount, TypeLoop, getNextBatchSize, Quiet
<1>7. InFlightFits' /\ ChunksWithin' /\ ChunksApart'
  BY DEF PauseEnds, connsGone, WgDone, Running, IInv, TypeOK, TypeConns, TypeLocals, TypeLoop,
     LaunchedCount, HandHeld, BlankSlots, InFlightFits, ChunksWithin, ChunksApart, Apart
<1>8. Quiet'
  <2>1. \A d \in Conns : pc[d] = "gone"
    BY NoneRunning DEF PauseEnds, connsGone
  <2>2. pc' = pc /\ loop' = "gone" /\ op' \in {op, "idle"} /\ fstate' \in {fstate, "done", "error", "paused"}
    BY DEF PauseEnds, connsGone, WgDone, Running
  <2> QED
    BY <2>1, <2>2 DEF IInv, Quiet
<1> QED
  BY <1>1, <1>2, <1>3, <1>4, <1>5, <1>6, <1>7, <1>8 DEF IInv, TypeOK

LEMMA WatchResultInv ==
  ASSUME IInv, WatchResult
  PROVE  IInv'
<1> USE ConstantsOK DEF ConstantsOK, Conns, Attempts, Existing, remain, conns, locals,
     slow, ctl, out, pref, env, rest
<1>1. TypeConns'
  BY DEF WatchResult, IInv, TypeOK, TypeConns, TypeLocals, ErrorKinds
<1>2. TypeLocals'
  BY DEF WatchResult, IInv, TypeOK, TypeConns, TypeLocals
<1>3. TypeLoop' /\ TypeOut' /\ TypeEnv'
  BY DEF WatchResult, IInv, TypeOK, TypeConns, TypeLocals, TypeLoop, TypeOut, TypeEnv
<1>4. TypeFlags'
  BY Zenon DEF WatchResult, IInv, TypeOK, TypeFlags
<1>5. LaunchedCount'
  BY DEF WatchResult, IInv, TypeOK, TypeConns, TypeLocals, TypeLoop, LaunchedCount, BlankSlots,
     getNextBatchSize, Quiet
<1>6. BlankSlots' /\ HandHeld'
  BY DEF WatchResult, IInv, TypeOK, TypeConns, TypeLocals, BlankSlots, HandHeld, LaunchedCount,
     TypeLoop, getNextBatchSize, Quiet
<1>7. InFlightFits' /\ ChunksWithin' /\ ChunksApart'
  BY DEF WatchResult, IInv, TypeOK, TypeConns, TypeLocals, TypeLoop, LaunchedCount, HandHeld,
     BlankSlots, InFlightFits, ChunksWithin, ChunksApart, Apart
<1>8. Quiet'
  BY DEF WatchResult, IInv, TypeOK, TypeConns, TypeLocals, TypeLoop, TypeOut, TypeEnv, Quiet,
     connMuFree
<1> QED
  BY <1>1, <1>2, <1>3, <1>4, <1>5, <1>6, <1>7, <1>8 DEF IInv, TypeOK

\* One step of any goroutine, of the caller or of the watcher keeps the invariant.
LEMMA StepInv ==
  ASSUME IInv, [Next]_vars
  PROVE  IInv'
<1>1. CASE \E c \in Conns : ConnStep(c) \/ ConnFault(c)
  <2>1. PICK c \in Conns : ConnStep(c) \/ ConnFault(c)
    BY <1>1
  <2>2. CASE ConnStep(c)
    BY <2>2, ConnStartInv, ConnCancelledInv, RequestInv, RespondOKInv, BackoffOverInv, ReadInv,
       EofInv, WriteInv, AccountInv, StealInv, CompleteInv
       DEF ConnStep
  <2>3. CASE ConnFault(c)
    BY <2>3, RespondForbiddenInv, RespondCountedInv, TransientInv DEF ConnFault
  <2> QED
    BY <2>1, <2>2, <2>3
<1>2. CASE LoopStep
  BY <1>2, LoopBeginInv, LoopExpandInv, MaxReachedInv, AllPrefetchedInv, FirstConnInv, SplitOneInv,
     SplitEndsInv, LaunchBatchInv, LoopCancelledInv, LoopWaitedInv, LoopClosesInv
     DEF LoopStep
<1>3. CASE \E a \in Attempts : ExtraStep(a)
  BY <1>3, ExtraWaitsInv, ExtraWakesInv, ExtraChecksInv, ExtraCompletesInv DEF ExtraStep
<1>4. CASE PrefetchRead \/ PrefetchEnd
  BY <1>4, PrefetchReadInv, PrefetchEndInv
<1>5. CASE StartCalled \/ StartFails \/ PauseCalled \/ OpStep \/ WatchResult
  BY <1>5, StartCalledInv, StartFailsInv, PauseCalledInv, StartOpensInv, StartRunsInv,
     PauseEndsInv, WatchResultInv
     DEF OpStep
<1>6. CASE UNCHANGED vars
  BY <1>6, UnchangedInv
<1> QED
  BY <1>1, <1>2, <1>3, <1>4, <1>5, <1>6 DEF Next

\* The invariant holds in every reachable state.
THEOREM Invariance == Spec => []IInv
<1>1. Init => IInv
  BY InitInv
<1>2. IInv /\ [Next]_vars => IInv'
  BY StepInv
<1> QED
  BY <1>1, <1>2, PTL DEF Spec

\* Every variable keeps its type; in particular the slow start never creates
\* more connections than the options allow (expandConnections).
THEOREM TypeCorrect == Spec => []TypeOK
<1>1. IInv => TypeOK
  BY DEF IInv
<1> QED
  BY <1>1, Invariance, PTL

\* A range of the resource belongs to at most one connection, for any number of
\* connections and any order of splits, steals, retries, pauses and restarts
\* (expandConnections, helpOtherConnection, resumeConnections).
THEOREM ChunksStayDisjoint == Spec => []ChunksDisjoint
<1>1. IInv => ChunksDisjoint
  <2> SUFFICES ASSUME IInv, NEW c \in Existing, NEW d \in Existing, c # d
               PROVE  Unfetched(c) \intersect Unfetched(d) = {}
    BY DEF ChunksDisjoint
  <2>1. Apart(c, d)
    BY DEF IInv, ChunksApart
  <2>2. /\ begin[c] \in Nat /\ end[c] \in Int /\ got[c] \in Nat
        /\ begin[d] \in Nat /\ end[d] \in Int /\ got[d] \in Nat
    BY ExistingTypes
  <2> QED
    BY <2>1, <2>2 DEF Apart, Unfetched, remain
<1> QED
  BY <1>1, Invariance, PTL

\* The bytes read under one critical section of connMu still fit the chunk when
\* they are written and accounted for in later ones (downloadChunkOnce), because
\* a steal or a split leaves the victim at least a buffer.
THEOREM InFlightStaysInside == Spec => []InFlightFits
<1>1. IInv => InFlightFits
  BY DEF IInv
<1> QED
  BY <1>1, Invariance, PTL

\* The slow start's books agree with the connections that exist.
THEOREM LaunchedCounted == Spec => []LaunchedCount
<1>1. IInv => LaunchedCount
  BY DEF IInv
<1> QED
  BY <1>1, Invariance, PTL

\* In a paused fetcher no step but those of a new Start writes to the file or
\* moves a counter, and no connection runs.
LEMMA PausedStep ==
  ASSUME IInv, [Next]_vars, fstate = "paused", op = "idle"
  PROVE  written' = written /\ got' = got /\ Running = {}
<1>1. loop = "gone" /\ \A d \in Conns : pc[d] = "gone"
  BY DEF IInv, Quiet
<1>2. Running = {}
  BY <1>1, ExistingTypes DEF Running
<1>3. CASE \E c \in Conns : ConnStep(c) \/ ConnFault(c)
  BY <1>1, <1>2, <1>3 DEF ConnStep, ConnFault, ConnStart, ConnCancelled, Request, RespondOK, BackoffOver,
     Read, Eof, Write, Account, Steal, Complete, RespondForbidden, RespondCounted, Transient
<1>4. CASE LoopStep
  BY <1>1, <1>2, <1>4 DEF LoopStep, LoopBegin, LoopExpand, MaxReached, AllPrefetched, FirstConn, SplitOne,
     SplitEnds, LaunchBatch, LoopCancelled, LoopWaited, LoopCloses
<1>5. CASE \E a \in Attempts : ExtraStep(a)
  BY <1>2, <1>5 DEF ExtraStep, ExtraWaits, ExtraWakes, ExtraChecks, ExtraCompletes, onDownloadComplete, out,
     conns
<1>6. CASE PrefetchRead \/ PrefetchEnd \/ StartCalled \/ StartFails \/ PauseCalled \/ OpStep
           \/ WatchResult
  BY <1>2, <1>6 DEF PrefetchRead, PrefetchEnd, StartCalled, StartFails, PauseCalled, OpStep, StartOpens, StartRuns,
     PauseEnds, WatchResult, out, conns
<1>7. CASE UNCHANGED vars
  BY <1>2, <1>7 DEF vars, out, conns
<1>8. written' = written /\ got' = got
  BY <1>3, <1>4, <1>5, <1>6, <1>7 DEF Next
<1> QED
  BY <1>2, <1>8

\* Pause is effective: from its return to the next Start the file and the
\* counters do not change, whatever goroutine of an earlier attempt is left.
THEOREM PauseIsQuiet == Spec => PauseHolds
<1>1. IInv /\ [Next]_vars
        => [(fstate = "paused" /\ op = "idle") => (written' = written /\ got' = got /\ Running = {})]_vars
  BY PausedStep
<1> QED
  BY <1>1, Invariance, PTL DEF Spec, PauseHolds

=============================================================================
