------------------------- MODULE ExtractQueueProof -------------------------
(***************************************************************************)
(* Proofs about ExtractQueue: for every set of jobs, IDs and callers and   *)
(* every number of workers it implements ExtractSpec, closes no channel    *)
(* twice and runs nothing after Stop has returned.                         *)
(***************************************************************************)
EXTENDS ExtractQueue, FiniteSetTheorems, SequenceTheorems, TLAPS

----------------------------------------------------------------------------
(* Sequences *)

LEMMA AppendSet ==
  ASSUME NEW S, NEW s \in Seq(S), NEW e \in S
  PROVE  /\ Append(s, e) \in Seq(S) /\ Len(Append(s, e)) = Len(s) + 1
         /\ \A k \in 1..Len(s) : Append(s, e)[k] = s[k]
         /\ Append(s, e)[Len(s) + 1] = e
         /\ ToSet(Append(s, e)) = ToSet(s) \union {e}
<1>1. /\ Append(s, e) \in Seq(S) /\ Len(Append(s, e)) = Len(s) + 1
      /\ \A k \in 1..Len(s) : Append(s, e)[k] = s[k]
      /\ Append(s, e)[Len(s) + 1] = e
  OBVIOUS
<1>2. DOMAIN Append(s, e) = 1..(Len(s) + 1) /\ DOMAIN s = 1..Len(s) /\ Len(s) \in Nat
  BY <1>1
<1>3. ToSet(Append(s, e)) \subseteq ToSet(s) \union {e}
  BY <1>1, <1>2 DEF ToSet
<1>4. ToSet(s) \union {e} \subseteq ToSet(Append(s, e))
  <2>1. \A k \in 1..Len(s) : k \in DOMAIN Append(s, e) /\ Append(s, e)[k] = s[k]
    BY <1>1, <1>2
  <2>2. Len(s) + 1 \in DOMAIN Append(s, e)
    BY <1>2
  <2> QED
    BY <1>1, <1>2, <2>1, <2>2 DEF ToSet
<1> QED
  BY <1>1, <1>3, <1>4

LEMMA TailSet ==
  ASSUME NEW S, NEW s \in Seq(S), s # <<>>
  PROVE  /\ Tail(s) \in Seq(S) /\ Head(s) \in S /\ Len(Tail(s)) = Len(s) - 1 /\ Len(s) \in Nat \ {0}
         /\ \A k \in 1..(Len(s) - 1) : Tail(s)[k] = s[k + 1]
         /\ Head(s) = s[1]
         /\ ToSet(s) = ToSet(Tail(s)) \union {Head(s)}
<1>1. /\ Tail(s) \in Seq(S) /\ Head(s) \in S /\ Len(Tail(s)) = Len(s) - 1 /\ Len(s) \in Nat \ {0}
      /\ \A k \in 1..(Len(s) - 1) : Tail(s)[k] = s[k + 1]
      /\ Head(s) = s[1]
  OBVIOUS
<1>2. DOMAIN Tail(s) = 1..(Len(s) - 1) /\ DOMAIN s = 1..Len(s)
  BY <1>1
<1>3. ToSet(Tail(s)) \union {Head(s)} \subseteq ToSet(s)
  BY <1>1, <1>2 DEF ToSet
<1>4. ASSUME NEW k \in 1..Len(s) PROVE s[k] \in ToSet(Tail(s)) \union {Head(s)}
  <2>1. CASE k = 1
    BY <1>1, <2>1
  <2>2. CASE k # 1
    <3>1. k - 1 \in DOMAIN Tail(s) /\ Tail(s)[k - 1] = s[k]
      BY <1>1, <1>2, <2>2
    <3> QED
      BY <3>1 DEF ToSet
  <2> QED
    BY <2>1, <2>2
<1> QED
  BY <1>1, <1>2, <1>3, <1>4 DEF ToSet

LEMMA RemoveAtSet ==
  ASSUME NEW S, NEW s \in Seq(S), NEW i \in 1..Len(s)
  PROVE  /\ RemoveAt(s, i) \in Seq(S) /\ Len(RemoveAt(s, i)) = Len(s) - 1
         /\ \A k \in 1..(Len(s) - 1) : RemoveAt(s, i)[k] = IF k < i THEN s[k] ELSE s[k + 1]
<1> DEFINE a == SubSeq(s, 1, i - 1)
           b == SubSeq(s, i + 1, Len(s))
<1>1. Len(s) \in Nat /\ i \in Nat /\ 1 <= i /\ i <= Len(s)
  OBVIOUS
<1>2. a \in Seq(S) /\ Len(a) = i - 1 /\ \A k \in 1..(i - 1) : a[k] = s[k]
  <2>1. \A k \in 1..(i - 1) : s[k] \in S
    BY <1>1
  <2> QED
    BY <1>1, <2>1, SubSeqProperties
<1>3. b \in Seq(S) /\ Len(b) = Len(s) - i /\ \A k \in 1..(Len(s) - i) : b[k] = s[i + k]
  <2>1. \A k \in (i + 1)..Len(s) : s[k] \in S
    BY <1>1
  <2>2. /\ b \in Seq(S)
        /\ Len(b) = IF i + 1 <= Len(s) THEN Len(s) - (i + 1) + 1 ELSE 0
        /\ \A k \in 1..(Len(s) - (i + 1) + 1) : b[k] = s[(i + 1) + k - 1]
    BY <1>1, <2>1, SubSeqProperties
  <2> HIDE DEF b
  <2> QED
    BY <1>1, <2>2
<1> HIDE DEF a, b
<1>4. /\ a \o b \in Seq(S) /\ Len(a \o b) = Len(a) + Len(b)
      /\ \A k \in 1..(Len(a) + Len(b)) : (a \o b)[k] = IF k <= Len(a) THEN a[k] ELSE b[k - Len(a)]
  BY <1>2, <1>3, ConcatProperties
<1>5. ASSUME NEW k \in 1..(Len(s) - 1) PROVE (a \o b)[k] = IF k < i THEN s[k] ELSE s[k + 1]
  <2>1. (a \o b)[k] = IF k <= Len(a) THEN a[k] ELSE b[k - Len(a)]
    BY <1>1, <1>2, <1>3, <1>4
  <2>2. CASE k < i
    BY <1>1, <1>2, <2>1, <2>2
  <2>3. CASE k >= i
    <3>1. k - (i - 1) \in 1..(Len(s) - i) /\ i + (k - (i - 1)) = k + 1 /\ ~(k <= i - 1)
      BY <1>1, <2>3
    <3>2. (a \o b)[k] = b[k - (i - 1)]
      BY <1>1, <1>2, <2>1, <3>1
    <3>3. b[k - (i - 1)] = s[i + (k - (i - 1))]
      BY <1>3, <3>1
    <3>4. s[i + (k - (i - 1))] = s[k + 1] /\ ~(k < i)
      BY <1>1, <2>3, <3>1
    <3> QED
      BY <3>2, <3>3, <3>4
  <2>4. k < i \/ k >= i
    BY <1>1
  <2> QED
    BY <2>2, <2>3, <2>4
<1>6. RemoveAt(s, i) = a \o b
  BY DEF RemoveAt, a, b
<1>7. Len(a \o b) = Len(s) - 1
  BY <1>1, <1>2, <1>3, <1>4
<1> QED
  BY <1>4, <1>5, <1>6, <1>7

\* Taking a member out of a sequence without repetition.
LEMMA RemoveAtDistinct ==
  ASSUME NEW S, NEW s \in Seq(S), NEW i \in 1..Len(s),
         \A m, n \in 1..Len(s) : m # n => s[m] # s[n]
  PROVE  /\ ToSet(RemoveAt(s, i)) \subseteq ToSet(s) \ {s[i]}
         /\ \A m, n \in 1..Len(RemoveAt(s, i)) : m # n => RemoveAt(s, i)[m] # RemoveAt(s, i)[n]
<1> DEFINE r == RemoveAt(s, i)
<1>1. /\ r \in Seq(S) /\ Len(r) = Len(s) - 1 /\ Len(s) \in Nat /\ i \in Nat
      /\ \A k \in 1..(Len(s) - 1) : r[k] = IF k < i THEN s[k] ELSE s[k + 1]
  BY RemoveAtSet, LenProperties
<1> HIDE DEF r
<1>2. DOMAIN r = 1..(Len(s) - 1) /\ DOMAIN s = 1..Len(s)
  BY <1>1
<1>3. ASSUME NEW k \in 1..(Len(s) - 1) PROVE r[k] \in ToSet(s) \ {s[i]}
  <2>1. CASE k < i
    <3>1. k \in 1..Len(s) /\ r[k] = s[k] /\ k # i
      BY <1>1, <2>1
    <3> QED
      BY <1>2, <3>1 DEF ToSet
  <2>2. CASE ~(k < i)
    <3>1. k + 1 \in 1..Len(s) /\ r[k] = s[k + 1] /\ k + 1 # i
      BY <1>1, <2>2
    <3> QED
      BY <1>2, <3>1 DEF ToSet
  <2> QED
    BY <2>1, <2>2
<1>4. ASSUME NEW m \in 1..(Len(s) - 1), NEW n \in 1..(Len(s) - 1), m # n PROVE r[m] # r[n]
  <2> DEFINE at(k) == IF k < i THEN k ELSE k + 1
  <2>1. at(m) \in 1..Len(s) /\ at(n) \in 1..Len(s) /\ at(m) # at(n)
    BY <1>1, <1>4
  <2>2. r[m] = s[at(m)] /\ r[n] = s[at(n)]
    BY <1>1
  <2> QED
    BY <2>1, <2>2
<1> QED
  BY <1>1, <1>2, <1>3, <1>4 DEF ToSet, r

----------------------------------------------------------------------------
(* Frames: what a step leaves alone *)

\* A step that neither gives a worker a job nor takes one away.
LEMMA JobsKept ==
  ASSUME QInv, UNCHANGED <<jobs, wjob, done, ran>>,
         \A g \in Workers : \/ wpc'[g] = wpc[g]
                            \/ wpc[g] \notin {"execute", "close"} /\ wpc'[g] \notin {"execute", "close"}
  PROVE  Held' = Held /\ JobHeld' /\ ClosedOnce' /\ RanHeldOrDone'
<1>1. Held' = Held
  BY DEF Held
<1>2. JobHeld'
  BY DEF QInv, JobHeld
<1>3. ClosedOnce'
  BY <1>1 DEF QInv, ClosedOnce
<1>4. RanHeldOrDone'
  BY <1>1 DEF QInv, RanHeldOrDone
<1> QED
  BY <1>1, <1>2, <1>3, <1>4

Loop == {"lock", "waiting", "execute", "close"}

\* A step inside the loop of a worker.
LEMMA LoopKept ==
  ASSUME \A g \in Workers : wpc'[g] = wpc[g] \/ (wpc[g] \in Loop /\ wpc'[g] \in Loop)
  PROVE  Active' = Active /\ Counted' = Counted
<1> QED
  BY DEF Active, Counted, Loop

\* A signal wakes a waiting worker or nobody.
LEMMA SignalWakes ==
  ASSUME TypeOK, Signal
  PROVE  /\ wpc' \in [Workers -> {"none", "lock", "waiting", "execute", "close", "exit", "gone"}]
         /\ \A g \in Workers : wpc'[g] = wpc[g] \/ (wpc[g] = "waiting" /\ wpc'[g] = "lock")
<1>1. CASE Waiting = {}
  BY <1>1 DEF Signal, TypeOK
<1>2. CASE Waiting # {}
  <2>1. PICK g \in Waiting : wpc' = [wpc EXCEPT ![g] = "lock"]
    BY <1>2 DEF Signal
  <2>2. g \in Workers /\ wpc[g] = "waiting"
    BY DEF Waiting
  <2> QED
    BY <2>1, <2>2 DEF TypeOK
<1> QED
  BY <1>1, <1>2

LEMMA CountedFinite == QueueConstants => IsFiniteSet(Counted) /\ Cardinality(Counted) \in Nat
<1> SUFFICES ASSUME QueueConstants PROVE IsFiniteSet(Counted) /\ Cardinality(Counted) \in Nat
  OBVIOUS
<1>1. IsFiniteSet(Workers)
  BY FS_Interval DEF Workers, QueueConstants
<1>2. Counted \subseteq Workers
  BY DEF Counted
<1>3. IsFiniteSet(Counted)
  BY <1>1, <1>2, FS_Subset
<1> QED
  BY <1>3, FS_CardinalityType

----------------------------------------------------------------------------
(* QInv is inductive *)

LEMMA InitQInv == Init => QInv
<1> SUFFICES ASSUME Init PROVE QInv
  OBVIOUS
<1>1. TypeOK
  <2>1. jobs \in Seq(Jobs)
    BY DEF Init
  <2>2. /\ wpc \in [Workers -> {"none", "lock", "waiting", "execute", "close", "exit", "gone"}]
        /\ wjob \in [Workers -> Jobs \union {NoJob}]
        /\ cpc \in [Callers -> {"idle", "launch", "stopping", "blocked", "released", "await"}]
        /\ cjob \in [Callers -> Jobs \union {NoJob}]
    BY DEF Init
  <2>3. spawned \in 0..MaxStarts /\ wg \in Nat
    BY QueueConstants DEF Init, QueueConstants
  <2> QED
    BY <2>1, <2>2, <2>3 DEF Init, TypeOK
<1>2. Active = {} /\ Counted = {} /\ Held = {}
  BY DEF Init, Active, Counted, Held
<1>3. OneWorker
  BY <1>2 DEF Init, OneWorker
<1>4. WgCounts
  BY <1>2, FS_EmptySet DEF Init, WgCounts
<1>5. JobHeld
  BY DEF Init, JobHeld
<1>6. ClosedOnce
  BY <1>2 DEF Init, ClosedOnce, ToSet
<1>7. RanHeldOrDone /\ StoppedQuiet
  BY DEF Init, RanHeldOrDone, StoppedQuiet
<1> QED
  BY <1>1, <1>3, <1>4, <1>5, <1>6, <1>7 DEF QInv

LEMMA StartQInv ==
  ASSUME QInv, NEW c \in Callers, StartCalled(c)
  PROVE  QInv'
<1> USE DEF StartCalled, alreadyRunning, Reopen, workers, ends
<1>1. Held' = Held /\ JobHeld' /\ ClosedOnce' /\ RanHeldOrDone'
  BY JobsKept
<1>2. Active' = Active /\ Counted' = Counted
  BY LoopKept
<1>3. TypeOK'
  BY DEF QInv, TypeOK
<1>4. OneWorker'
  <2>1. CASE running
    BY <1>2, <2>1 DEF QInv, OneWorker
  <2>2. CASE ~running
    <3>1. \A d \in Callers : cpc'[d] = "launch" => d = c
      BY <2>2 DEF QInv, OneWorker, TypeOK
    <3>2. Active = {} /\ spawned < MaxStarts /\ running'
      BY <2>2 DEF QInv, OneWorker
    <3> QED
      BY <1>2, <3>1, <3>2 DEF QInv, OneWorker
  <2> QED
    BY <2>1, <2>2 DEF QInv, TypeOK
<1>5. WgCounts'
  BY <1>2 DEF QInv, WgCounts
<1>6. StoppedQuiet'
  BY <1>1 DEF QInv, StoppedQuiet
<1> QED
  BY <1>1, <1>3, <1>4, <1>5, <1>6 DEF QInv

LEMMA LaunchQInv ==
  ASSUME QInv, NEW c \in Callers, Launch(c)
  PROVE  QInv'
<1> DEFINE g == spawned + 1
<1>1. /\ g \in Workers /\ wpc[g] = "none" /\ running /\ Active = {}
      /\ spawned \in Nat /\ MaxStarts \in Nat
  BY QueueConstants DEF QInv, OneWorker, TypeOK, Launch, wgAdded, Workers, QueueConstants
<1>2. /\ wpc' = [wpc EXCEPT ![g] = "lock"] /\ spawned' = g /\ wg' = wg + 1
      /\ cpc' = [cpc EXCEPT ![c] = "idle"] /\ cpc[c] = "launch"
      /\ said' = (IF shutdown THEN said ELSE "started")
      /\ UNCHANGED <<jobs, running, shutdown, wjob, cjob, done, ran, panicked>>
  BY DEF Launch, wgAdded, queueVars, ends
<1>3. wpc \in [Workers -> {"none", "lock", "waiting", "execute", "close", "exit", "gone"}]
      /\ cpc \in [Callers -> {"idle", "launch", "stopping", "blocked", "released", "await"}]
  BY DEF QInv, TypeOK
<1> HIDE DEF g
<1>4. Held' = Held /\ JobHeld' /\ ClosedOnce' /\ RanHeldOrDone'
  BY <1>1, <1>2, <1>3, JobsKept
<1>5. Active' = {g} /\ Counted' = Counted \union {g} /\ g \notin Counted
  BY <1>1, <1>2, <1>3 DEF Active, Counted
<1>6. TypeOK'
  <2>1. spawned' \in 0..MaxStarts
    BY <1>1, <1>2 DEF Workers
  <2> QED
    BY <1>1, <1>2, <1>3, <2>1 DEF QInv, TypeOK
<1>7. OneWorker'
  <2>1. \A d \in Callers : cpc'[d] # "launch"
    BY <1>2, <1>3 DEF QInv, OneWorker
  <2>2. \A h \in Workers : h > spawned' => wpc'[h] = "none"
    BY <1>1, <1>2, <1>3 DEF QInv, OneWorker, Workers, g
  <2> QED
    BY <1>1, <1>2, <1>5, <2>1, <2>2 DEF OneWorker
<1>8. WgCounts'
  BY <1>2, <1>5, CountedFinite, QueueConstants, FS_AddElement DEF QInv, WgCounts
<1>9. StoppedQuiet'
  BY <1>2, <1>4 DEF QInv, StoppedQuiet
<1> QED
  BY <1>4, <1>6, <1>7, <1>8, <1>9 DEF QInv

LEMMA StopCalledQInv ==
  ASSUME QInv, NEW c \in Callers, StopCalled(c)
  PROVE  QInv'
<1> USE DEF StopCalled, ends
<1>1. /\ wpc' \in [Workers -> {"none", "lock", "waiting", "execute", "close", "exit", "gone"}]
      /\ \A g \in Workers : wpc'[g] = wpc[g] \/ (wpc[g] = "waiting" /\ wpc'[g] = "lock")
  BY SignalWakes DEF QInv
<1>2. Held' = Held /\ JobHeld' /\ ClosedOnce' /\ RanHeldOrDone'
  BY <1>1, JobsKept
<1>3. Active' = Active /\ Counted' = Counted
  BY <1>1, LoopKept DEF Loop
<1>4. TypeOK'
  BY <1>1 DEF QInv, TypeOK
<1>5. OneWorker'
  BY <1>1, <1>3 DEF QInv, OneWorker, TypeOK
<1>6. WgCounts'
  BY <1>3 DEF QInv, WgCounts
<1>7. StoppedQuiet'
  BY DEF StoppedQuiet
<1> QED
  BY <1>2, <1>4, <1>5, <1>6, <1>7 DEF QInv

\* A Stop that returns leaves no worker behind.
LEMMA NoneCounted == QInv /\ wg = 0 => Held = {}
<1> SUFFICES ASSUME QInv, wg = 0 PROVE Held = {}
  OBVIOUS
<1>1. Counted = {}
  BY CountedFinite, QueueConstants, FS_EmptySet DEF QInv, WgCounts
<1> QED
  BY <1>1 DEF Counted, Held

LEMMA StopEndsQInv ==
  ASSUME QInv, NEW c \in Callers, StopWaits(c) \/ StopWakes(c) \/ Awaited(c)
  PROVE  QInv'
<1>1. /\ UNCHANGED <<jobs, running, shutdown, wg, spawned, wpc, wjob, done, ran>>
      /\ \A d \in Callers : cpc'[d] = "launch" => cpc[d] = "launch"
  BY DEF QInv, TypeOK, StopWaits, StopWakes, workersGone, Awaited, queueVars, workers, ends, callers
<1>2. Held' = Held /\ JobHeld' /\ ClosedOnce' /\ RanHeldOrDone'
  BY <1>1, JobsKept
<1>3. Active' = Active /\ Counted' = Counted
  BY <1>1, LoopKept
<1>4. TypeOK'
  <2>1. CASE StopWaits(c)
    BY <1>1, <2>1 DEF QInv, TypeOK, StopWaits, workersGone, stopped, callers
  <2>2. CASE StopWakes(c)
    BY <1>1, <2>2 DEF QInv, TypeOK, StopWakes, workersGone, stopped, callers
  <2>3. CASE Awaited(c)
    BY <1>1, <2>3 DEF QInv, TypeOK, Awaited, callers
  <2> QED
    BY <2>1, <2>2, <2>3
<1>5. OneWorker'
  BY <1>1, <1>3 DEF QInv, OneWorker
<1>6. WgCounts'
  BY <1>1, <1>3 DEF QInv, WgCounts
<1>7. StoppedQuiet'
  <2>1. said' = said \/ (wg = 0 /\ said' = stopped)
    BY DEF StopWaits, StopWakes, workersGone, Awaited
  <2>2. CASE said' = said
    BY <1>1, <1>2, <2>2 DEF QInv, StoppedQuiet
  <2>3. CASE wg = 0 /\ said' = stopped
    BY <1>1, <1>2, <2>3, NoneCounted DEF QInv, StoppedQuiet, stopped
  <2> QED
    BY <2>1, <2>2, <2>3
<1> QED
  BY <1>2, <1>4, <1>5, <1>6, <1>7 DEF QInv

LEMMA EnqueueQInv ==
  ASSUME QInv, NEW c \in Callers, NEW j \in Jobs, NEW waits \in BOOLEAN, Enqueue(c, j, waits)
  PROVE  QInv'
<1>1. /\ UNCHANGED <<running, shutdown, wg, spawned, wjob, ran, said, panicked>>
      /\ j \notin ToSet(jobs) \union Held \union done
      /\ \A d \in Callers : cpc'[d] = "launch" <=> cpc[d] = "launch"
      /\ cpc' \in [Callers -> {"idle", "launch", "stopping", "blocked", "released", "await"}]
      /\ cjob' \in [Callers -> Jobs \union {NoJob}]
  BY DEF QInv, TypeOK, Enqueue, Fresh, callers
<1>2. /\ wpc' \in [Workers -> {"none", "lock", "waiting", "execute", "close", "exit", "gone"}]
      /\ \A g \in Workers : wpc'[g] = wpc[g] \/ (wpc[g] = "waiting" /\ wpc'[g] = "lock")
  <2>1. wpc' = wpc \/ Signal
    BY DEF Enqueue
  <2> QED
    BY <2>1, SignalWakes DEF QInv, TypeOK
<1>3. Held' = Held
  BY <1>1, <1>2 DEF Held
<1>4. Active' = Active /\ Counted' = Counted
  BY <1>2, LoopKept DEF Loop
<1>5. \/ jobs' = jobs /\ done' = done \union {j}
      \/ jobs' = Append(jobs, j) /\ done' = done
  BY DEF Enqueue
<1>6. jobs \in Seq(Jobs)
  BY DEF QInv, TypeOK
<1>7. TypeOK'
  <2>1. Append(jobs, j) \in Seq(Jobs) /\ done \subseteq Jobs
    BY <1>6, AppendSet DEF QInv, TypeOK
  <2>2. jobs' \in Seq(Jobs) /\ done' \subseteq Jobs
    BY <1>5, <1>6, <2>1
  <2> QED
    BY <1>1, <1>2, <2>2 DEF QInv, TypeOK
<1>8. OneWorker'
  BY <1>1, <1>2, <1>4 DEF QInv, OneWorker
<1>9. WgCounts'
  BY <1>1, <1>4 DEF QInv, WgCounts
<1>10. JobHeld'
  BY <1>1, <1>2 DEF QInv, JobHeld
<1>11. ClosedOnce'
  <2>1. CASE jobs' = jobs /\ done' = done \union {j}
    BY <1>1, <1>3, <2>1 DEF QInv, ClosedOnce
  <2>2. CASE jobs' = Append(jobs, j) /\ done' = done
    <3>1. /\ Len(jobs') = Len(jobs) + 1 /\ Len(jobs) \in Nat
          /\ \A k \in 1..Len(jobs) : jobs'[k] = jobs[k]
          /\ jobs'[Len(jobs) + 1] = j
          /\ ToSet(jobs') = ToSet(jobs) \union {j}
      BY <1>6, <2>2, AppendSet
    <3>2. \A k \in 1..Len(jobs) : jobs[k] # j
      BY <1>1, <1>6 DEF ToSet
    <3>3. ASSUME NEW i \in 1..Len(jobs'), NEW k \in 1..Len(jobs'), i # k PROVE jobs'[i] # jobs'[k]
      <4>1. (i \in 1..Len(jobs) \/ i = Len(jobs) + 1) /\ (k \in 1..Len(jobs) \/ k = Len(jobs) + 1)
        BY <3>1
      <4> QED
        BY <3>1, <3>2, <3>3, <4>1 DEF QInv, ClosedOnce
    <3>4. (ToSet(jobs') \union Held') \intersect done' = {} /\ ToSet(jobs') \intersect Held' = {}
      BY <1>1, <1>3, <2>2, <3>1 DEF QInv, ClosedOnce
    <3> QED
      BY <3>3, <3>4 DEF ClosedOnce
  <2> QED
    BY <1>5, <2>1, <2>2
<1>12. RanHeldOrDone'
  BY <1>1, <1>3, <1>5 DEF QInv, RanHeldOrDone
<1>13. StoppedQuiet'
  BY <1>1, <1>3 DEF QInv, StoppedQuiet
<1> QED
  BY <1>7, <1>8, <1>9, <1>10, <1>11, <1>12, <1>13 DEF QInv

LEMMA RemoveQInv ==
  ASSUME QInv, NEW c \in Callers, NEW id \in Ids, RemovePendingJob(c, id)
  PROVE  QInv'
<1>1. /\ UNCHANGED <<running, shutdown, wg, spawned, wpc, wjob, cpc, cjob, ran, said, panicked>>
      /\ jobs \in Seq(Jobs) /\ done \subseteq Jobs
  BY DEF QInv, TypeOK, RemovePendingJob, without, workers, callers
<1>2. PICK i \in 1..Len(jobs) : done' = done \union {jobs[i]} /\ jobs' = RemoveAt(jobs, i)
  BY DEF RemovePendingJob, without
<1>3. /\ jobs' \in Seq(Jobs) /\ jobs[i] \in Jobs /\ jobs[i] \in ToSet(jobs)
      /\ ToSet(jobs') \subseteq ToSet(jobs) \ {jobs[i]}
      /\ \A m, n \in 1..Len(jobs') : m # n => jobs'[m] # jobs'[n]
  <2>1. \A m, n \in 1..Len(jobs) : m # n => jobs[m] # jobs[n]
    BY DEF QInv, ClosedOnce
  <2>2. jobs[i] \in Jobs /\ jobs[i] \in ToSet(jobs)
    BY <1>1 DEF ToSet
  <2>3. RemoveAt(jobs, i) \in Seq(Jobs)
    BY <1>1, RemoveAtSet
  <2>4. /\ ToSet(RemoveAt(jobs, i)) \subseteq ToSet(jobs) \ {jobs[i]}
        /\ \A m, n \in 1..Len(RemoveAt(jobs, i)) :
             m # n => RemoveAt(jobs, i)[m] # RemoveAt(jobs, i)[n]
    BY <1>1, <2>1, RemoveAtDistinct
  <2>5. jobs' = RemoveAt(jobs, i)
    BY <1>2
  <2> QED
    BY <2>2, <2>3, <2>4, <2>5
<1>4. Held' = Held
  BY <1>1 DEF Held
<1>5. Active' = Active /\ Counted' = Counted
  BY <1>1, LoopKept
<1>6. TypeOK'
  BY <1>1, <1>2, <1>3 DEF QInv, TypeOK
<1>7. OneWorker' /\ JobHeld' /\ RanHeldOrDone'
  BY <1>1, <1>2, <1>4, <1>5 DEF QInv, OneWorker, JobHeld, RanHeldOrDone
<1>8. WgCounts' /\ StoppedQuiet'
  BY <1>1, <1>4, <1>5 DEF QInv, WgCounts, StoppedQuiet
<1>9. ClosedOnce'
  BY <1>2, <1>3, <1>4 DEF QInv, ClosedOnce
<1> QED
  BY <1>6, <1>7, <1>8, <1>9 DEF QInv

\* What the steps of a worker have in common.
LEMMA WorkerFrame ==
  ASSUME QInv, NEW g \in Workers, wpc[g] \in Loop
  PROVE  /\ Active = {g} /\ running
         /\ \A h \in Workers : h # g => wpc[h] \in {"none", "exit", "gone"}
         /\ \A c \in Callers : cpc[c] # "launch"
         /\ g <= spawned /\ wpc[g] # "none"
         /\ Held = IF wpc[g] \in {"execute", "close"} THEN {wjob[g]} ELSE {}
<1>1. g \in Active
  BY DEF Active, Loop
<1>2. Active = {g} /\ running /\ \A c \in Callers : cpc[c] # "launch"
  BY <1>1 DEF QInv, OneWorker, TypeOK
<1>3. \A h \in Workers : h # g => wpc[h] \in {"none", "exit", "gone"}
  BY <1>2 DEF Active, QInv, TypeOK
<1>4. g <= spawned
  BY QueueConstants DEF QInv, OneWorker, TypeOK, Workers, Loop, QueueConstants
<1>5. Held = IF wpc[g] \in {"execute", "close"} THEN {wjob[g]} ELSE {}
  BY <1>3 DEF Held
<1> QED
  BY <1>2, <1>3, <1>4, <1>5 DEF Loop

\* A step in the loop of a worker keeps the counts.
LEMMA LoopStep ==
  ASSUME QInv, NEW g \in Workers, wpc[g] \in Loop, NEW s \in Loop, wpc' = [wpc EXCEPT ![g] = s],
         UNCHANGED <<running, wg, spawned, cpc>>
  PROVE  /\ wpc' \in [Workers -> {"none", "lock", "waiting", "execute", "close", "exit", "gone"}]
         /\ \A h \in Workers : wpc'[h] = IF h = g THEN s ELSE wpc[h]
         /\ OneWorker' /\ WgCounts'
<1>1. /\ wpc' \in [Workers -> {"none", "lock", "waiting", "execute", "close", "exit", "gone"}]
      /\ \A h \in Workers : wpc'[h] = IF h = g THEN s ELSE wpc[h]
  BY DEF QInv, TypeOK, Loop
<1>2. Active' = Active /\ Counted' = Counted
  BY <1>1, LoopKept
<1>3. OneWorker'
  <2>1. ~(g > spawned)
    BY WorkerFrame, QueueConstants DEF QInv, TypeOK, Workers, QueueConstants
  <2> QED
    BY <1>1, <1>2, <2>1 DEF QInv, OneWorker
<1>4. WgCounts'
  BY <1>2 DEF QInv, WgCounts
<1> QED
  BY <1>1, <1>3, <1>4

LEMMA WorkerWaitsQInv ==
  ASSUME QInv, NEW g \in Workers, WorkerWaits(g)
  PROVE  QInv'
<1>1. /\ UNCHANGED <<jobs, running, shutdown, wg, spawned, wjob, cpc, cjob, done, ran, said, panicked>>
      /\ wpc[g] = "lock" /\ wpc' = [wpc EXCEPT ![g] = "waiting"]
  BY DEF WorkerWaits, queueVars, callers, ends
<1>2. /\ wpc' \in [Workers -> {"none", "lock", "waiting", "execute", "close", "exit", "gone"}]
      /\ \A h \in Workers : wpc'[h] = IF h = g THEN "waiting" ELSE wpc[h]
      /\ OneWorker' /\ WgCounts'
  BY <1>1, LoopStep DEF Loop
<1>3. Held' = Held /\ JobHeld' /\ ClosedOnce' /\ RanHeldOrDone'
  BY <1>1, <1>2, JobsKept
<1>4. TypeOK' /\ StoppedQuiet'
  BY <1>1, <1>2, <1>3 DEF QInv, TypeOK, StoppedQuiet
<1> QED
  BY <1>2, <1>3, <1>4 DEF QInv

LEMMA WorkerTakesQInv ==
  ASSUME QInv, NEW g \in Workers, WorkerTakes(g)
  PROVE  QInv'
<1>1. /\ UNCHANGED <<running, shutdown, wg, spawned, cpc, cjob, done, ran, said, panicked>>
      /\ wpc[g] = "lock" /\ ~shutdown /\ jobs # <<>> /\ jobs \in Seq(Jobs)
      /\ wpc' = [wpc EXCEPT ![g] = "execute"] /\ wjob' = [wjob EXCEPT ![g] = Head(jobs)]
      /\ jobs' = Tail(jobs)
  BY DEF QInv, TypeOK, WorkerTakes, callers, ends
<1>2. /\ wpc' \in [Workers -> {"none", "lock", "waiting", "execute", "close", "exit", "gone"}]
      /\ \A h \in Workers : wpc'[h] = IF h = g THEN "execute" ELSE wpc[h]
      /\ OneWorker' /\ WgCounts'
  BY <1>1, LoopStep DEF Loop
<1>3. /\ jobs' \in Seq(Jobs) /\ Head(jobs) \in Jobs /\ Len(jobs') = Len(jobs) - 1
      /\ Len(jobs) \in Nat \ {0} /\ \A k \in 1..(Len(jobs) - 1) : jobs'[k] = jobs[k + 1]
      /\ Head(jobs) = jobs[1] /\ ToSet(jobs) = ToSet(jobs') \union {Head(jobs)}
  BY <1>1, TailSet
<1>4. wjob' \in [Workers -> Jobs \union {NoJob}] /\ wjob'[g] = Head(jobs)
      /\ \A h \in Workers : h # g => wjob'[h] = wjob[h]
  BY <1>1, <1>3 DEF QInv, TypeOK
<1>5. Held = {} /\ Held' = {Head(jobs)} /\ running
  <2>1. Held = {} /\ running /\ \A h \in Workers : h # g => wpc[h] \in {"none", "exit", "gone"}
    BY <1>1, WorkerFrame DEF Loop
  <2> QED
    BY <1>2, <1>4, <2>1 DEF Held
<1>6. TypeOK'
  BY <1>1, <1>2, <1>3, <1>4 DEF QInv, TypeOK
<1>7. JobHeld'
  BY <1>1, <1>2, <1>3, <1>4 DEF QInv, JobHeld
<1>8. ClosedOnce'
  <2>1. \A i, k \in 1..Len(jobs) : i # k => jobs[i] # jobs[k]
    BY DEF QInv, ClosedOnce
  <2>2. ASSUME NEW i \in 1..Len(jobs'), NEW k \in 1..Len(jobs'), i # k PROVE jobs'[i] # jobs'[k]
    <3>1. i + 1 \in 1..Len(jobs) /\ k + 1 \in 1..Len(jobs) /\ i + 1 # k + 1
      BY <1>3, <2>2
    <3> QED
      BY <1>3, <2>1, <3>1
  <2>3. Head(jobs) \notin ToSet(jobs')
    <3>1. ASSUME NEW k \in 1..Len(jobs') PROVE jobs'[k] # Head(jobs)
      <4>1. k + 1 \in 1..Len(jobs) /\ 1 \in 1..Len(jobs) /\ k + 1 # 1 /\ jobs'[k] = jobs[k + 1]
        BY <1>3
      <4> QED
        BY <1>3, <2>1, <4>1
    <3> QED
      BY <1>3, <3>1 DEF ToSet
  <2>4. (ToSet(jobs) \union Held) \intersect done = {}
    BY DEF QInv, ClosedOnce
  <2>5. (ToSet(jobs') \union Held') \intersect done' = {} /\ ToSet(jobs') \intersect Held' = {}
    BY <1>1, <1>3, <1>5, <2>3, <2>4
  <2> QED
    BY <2>2, <2>5 DEF ClosedOnce
<1>9. RanHeldOrDone'
  BY <1>1, <1>5 DEF QInv, RanHeldOrDone
<1>10. StoppedQuiet'
  BY <1>1, <1>5 DEF QInv, StoppedQuiet
<1> QED
  BY <1>2, <1>6, <1>7, <1>8, <1>9, <1>10 DEF QInv

LEMMA WorkerExecutesQInv ==
  ASSUME QInv, NEW g \in Workers, WorkerExecutes(g)
  PROVE  QInv'
<1>1. /\ UNCHANGED <<jobs, running, shutdown, wg, spawned, wjob, cpc, cjob, done, said, panicked>>
      /\ wpc[g] = "execute" /\ wpc' = [wpc EXCEPT ![g] = "close"]
      /\ ran' = ran \union {wjob[g]} /\ wjob[g] \in Jobs
  BY DEF QInv, JobHeld, WorkerExecutes, queueVars, callers
<1>2. /\ wpc' \in [Workers -> {"none", "lock", "waiting", "execute", "close", "exit", "gone"}]
      /\ \A h \in Workers : wpc'[h] = IF h = g THEN "close" ELSE wpc[h]
      /\ OneWorker' /\ WgCounts'
  BY <1>1, LoopStep DEF Loop
<1>3. Held' = Held /\ wjob[g] \in Held
  BY <1>1, <1>2 DEF Held
<1>4. TypeOK' /\ StoppedQuiet'
  BY <1>1, <1>2, <1>3 DEF QInv, TypeOK, StoppedQuiet
<1>5. JobHeld'
  BY <1>1, <1>2 DEF QInv, JobHeld
<1>6. ClosedOnce' /\ RanHeldOrDone'
  BY <1>1, <1>3 DEF QInv, ClosedOnce, RanHeldOrDone
<1> QED
  BY <1>2, <1>4, <1>5, <1>6 DEF QInv

LEMMA WorkerClosesQInv ==
  ASSUME QInv, NEW g \in Workers, WorkerCloses(g)
  PROVE  QInv'
<1>1. /\ UNCHANGED <<jobs, running, shutdown, wg, spawned, cpc, cjob, ran, said, panicked>>
      /\ wpc[g] = "close" /\ wpc' = [wpc EXCEPT ![g] = "lock"] /\ wjob[g] \in Jobs
      /\ wjob' = [wjob EXCEPT ![g] = NoJob] /\ done' = done \union {wjob[g]}
  BY DEF QInv, JobHeld, WorkerCloses, queueVars, callers
<1>2. /\ wpc' \in [Workers -> {"none", "lock", "waiting", "execute", "close", "exit", "gone"}]
      /\ \A h \in Workers : wpc'[h] = IF h = g THEN "lock" ELSE wpc[h]
      /\ OneWorker' /\ WgCounts'
  BY <1>1, LoopStep DEF Loop
<1>3. wjob' \in [Workers -> Jobs \union {NoJob}] /\ \A h \in Workers : h # g => wjob'[h] = wjob[h]
  BY <1>1 DEF QInv, TypeOK
<1>4. Held = {wjob[g]} /\ Held' = {}
  <2>1. Held = {wjob[g]} /\ \A h \in Workers : h # g => wpc[h] \in {"none", "exit", "gone"}
    BY <1>1, WorkerFrame DEF Loop
  <2> QED
    BY <1>2, <2>1 DEF Held
<1>5. TypeOK' /\ StoppedQuiet'
  BY <1>1, <1>2, <1>3, <1>4 DEF QInv, TypeOK, StoppedQuiet
<1>6. JobHeld'
  BY <1>1, <1>2, <1>3 DEF QInv, JobHeld
<1>7. ClosedOnce' /\ RanHeldOrDone'
  BY <1>1, <1>4 DEF QInv, ClosedOnce, RanHeldOrDone
<1> QED
  BY <1>2, <1>5, <1>6, <1>7 DEF QInv

LEMMA WorkerStopsQInv ==
  ASSUME QInv, NEW g \in Workers, WorkerStops(g)
  PROVE  QInv'
<1>1. /\ UNCHANGED <<shutdown, wg, spawned, wjob, cpc, cjob, ran, said, panicked>>
      /\ wpc[g] = "lock" /\ wpc' = [wpc EXCEPT ![g] = "exit"] /\ jobs \in Seq(Jobs)
      /\ jobs' = <<>> /\ done' = done \union ToSet(jobs) /\ running' = FALSE
  BY DEF QInv, TypeOK, WorkerStops, leftOver, callers
<1>2. /\ wpc' \in [Workers -> {"none", "lock", "waiting", "execute", "close", "exit", "gone"}]
      /\ \A h \in Workers : wpc'[h] = IF h = g THEN "exit" ELSE wpc[h]
  BY <1>1 DEF QInv, TypeOK
<1>3. /\ Active = {g} /\ Held = {} /\ g <= spawned
      /\ \A h \in Workers : h # g => wpc[h] \in {"none", "exit", "gone"}
      /\ \A c \in Callers : cpc[c] # "launch"
  BY <1>1, WorkerFrame DEF Loop
<1>4. Active' = {} /\ Counted' = Counted /\ Held' = {}
  BY <1>1, <1>2, <1>3 DEF Active, Counted, Held
<1>5. TypeOK'
  <2>1. jobs' \in Seq(Jobs) /\ ToSet(jobs) \subseteq Jobs
    BY <1>1 DEF ToSet
  <2> QED
    BY <1>1, <1>2, <2>1 DEF QInv, TypeOK
<1>6. OneWorker'
  <2>1. ~(g > spawned)
    BY <1>3, QueueConstants DEF QInv, TypeOK, Workers, QueueConstants
  <2> QED
    BY <1>1, <1>2, <1>3, <1>4, <2>1 DEF QInv, OneWorker
<1>7. WgCounts'
  BY <1>1, <1>4 DEF QInv, WgCounts
<1>8. JobHeld'
  BY <1>1, <1>2 DEF QInv, JobHeld
<1>9. ClosedOnce'
  <2>1. Len(jobs') = 0 /\ ToSet(jobs') = {}
    BY <1>1 DEF ToSet
  <2> QED
    BY <1>4, <2>1 DEF ClosedOnce
<1>10. RanHeldOrDone' /\ StoppedQuiet'
  BY <1>1, <1>3, <1>4 DEF QInv, RanHeldOrDone, StoppedQuiet
<1> QED
  BY <1>5, <1>6, <1>7, <1>8, <1>9, <1>10 DEF QInv

LEMMA WorkerExitsQInv ==
  ASSUME QInv, NEW g \in Workers, WorkerExits(g)
  PROVE  QInv'
<1>1. /\ UNCHANGED <<jobs, running, shutdown, spawned, wjob, cjob, done, ran, said, panicked>>
      /\ wpc[g] = "exit" /\ wpc' = [wpc EXCEPT ![g] = "gone"] /\ wg' = wg - 1
  BY DEF WorkerExits, queueVars, ends
<1>2. /\ wpc' \in [Workers -> {"none", "lock", "waiting", "execute", "close", "exit", "gone"}]
      /\ \A h \in Workers : wpc'[h] = IF h = g THEN "gone" ELSE wpc[h]
  BY <1>1 DEF QInv, TypeOK
<1>3. /\ cpc' \in [Callers -> {"idle", "launch", "stopping", "blocked", "released", "await"}]
      /\ \A c \in Callers : cpc'[c] = "launch" => cpc[c] = "launch"
  <2>1. cpc' = [c \in Callers |-> IF wg = 1 /\ cpc[c] = "blocked" THEN "released" ELSE cpc[c]]
    BY DEF WorkerExits
  <2> QED
    BY <2>1 DEF QInv, TypeOK
<1>4. Held' = Held /\ JobHeld' /\ ClosedOnce' /\ RanHeldOrDone'
  BY <1>1, <1>2, JobsKept
<1>5. Active' = Active /\ g \in Counted /\ Counted' = Counted \ {g}
  BY <1>1, <1>2 DEF Active, Counted
<1>6. WgCounts' /\ wg' \in Nat
  <2>1. IsFiniteSet(Counted) /\ wg = Cardinality(Counted) /\ wg \in Nat
    BY CountedFinite, QueueConstants DEF QInv, WgCounts
  <2>2. Cardinality(Counted \ {g}) = Cardinality(Counted) - 1
    BY <1>5, <2>1, FS_RemoveElement
  <2>3. wg # 0
    BY <1>5, <2>1, FS_EmptySet
  <2> QED
    BY <1>1, <1>5, <2>1, <2>2, <2>3 DEF WgCounts
<1>7. TypeOK' /\ StoppedQuiet'
  BY <1>1, <1>2, <1>3, <1>4, <1>6 DEF QInv, TypeOK, StoppedQuiet
<1>8. OneWorker'
  <2>1. ~(g > spawned)
    BY <1>1 DEF QInv, OneWorker
  <2> QED
    BY <1>1, <1>2, <1>3, <1>5, <2>1 DEF QInv, OneWorker
<1> QED
  BY <1>4, <1>6, <1>7, <1>8 DEF QInv

LEMMA NextQInv == QInv /\ [Next]_vars => QInv'
<1> SUFFICES ASSUME QInv, [Next]_vars PROVE QInv'
  OBVIOUS
<1>1. CASE UNCHANGED vars
  <2>1. UNCHANGED <<jobs, running, shutdown, wg, spawned, wpc, wjob, cpc, cjob, done, ran, said, panicked>>
    BY <1>1 DEF vars, queueVars, workers, callers, ends
  <2>2. Active' = Active /\ Counted' = Counted /\ Held' = Held
    BY <2>1 DEF Active, Counted, Held
  <2> QED
    BY <2>1, <2>2 DEF QInv, TypeOK, OneWorker, WgCounts, JobHeld, ClosedOnce, RanHeldOrDone, StoppedQuiet
<1>2. ASSUME NEW c \in Callers, Call(c) PROVE QInv'
  BY <1>2, StartQInv, StopCalledQInv, EnqueueQInv, RemoveQInv DEF Call
<1>3. ASSUME NEW c \in Callers, CallerStep(c) PROVE QInv'
  BY <1>3, LaunchQInv, StopEndsQInv DEF CallerStep
<1>4. ASSUME NEW g \in Workers, WorkerStep(g) PROVE QInv'
  BY <1>4, WorkerWaitsQInv, WorkerStopsQInv, WorkerTakesQInv, WorkerExecutesQInv,
     WorkerClosesQInv, WorkerExitsQInv DEF WorkerStep
<1> QED
  BY <1>1, <1>2, <1>3, <1>4 DEF Next

\* QInv holds in every reachable state of the queue, for every number of jobs,
\* callers and workers.
THEOREM QueueInvariant == Spec => []QInv
<1>1. Init => QInv
  BY InitQInv
<1>2. QInv /\ [Next]_vars => QInv'
  BY NextQInv
<1> QED
  BY <1>1, <1>2, PTL DEF Spec

\* No channel of a job is closed twice: not by the worker, the shutdown and
\* RemovePendingJob in any order.
THEOREM NeverClosedTwice == Spec => []ClosedOnce
<1>1. QInv => ClosedOnce
  BY DEF QInv
<1> QED
  BY <1>1, QueueInvariant, PTL

\* Once Stop has returned no job runs until the next Start.
THEOREM StopIsFinal == Spec => []StopHolds
<1>1. QInv => StopHolds
  BY DEF QInv, StoppedQuiet, StopHolds
<1> QED
  BY <1>1, QueueInvariant, PTL

\* Every variable of the queue keeps its type.
THEOREM QueueTypes == Spec => []TypeOK
<1>1. QInv => TypeOK
  BY DEF QInv
<1> QED
  BY <1>1, QueueInvariant, PTL

----------------------------------------------------------------------------
(* Start, when one goroutine at most calls Start and Stop *)

OneController == \A c, d \in Controllers : c = d

\* A running queue without a worker is one whose Start is between its halves.
LEMMA NotRunning ==
  ASSUME QInv, StartInv, wg = 0, \A c \in Callers : cpc[c] # "launch"
  PROVE  ~running
<1>1. Counted = {}
  BY CountedFinite, QueueConstants, FS_EmptySet DEF QInv, WgCounts
<1>2. Active = {}
  BY <1>1 DEF Counted, Active
<1> QED
  BY <1>2 DEF StartInv

LEMMA StartCalledStartInv ==
  ASSUME QInv, StartInv, OneController, NEW c \in Controllers, StartCalled(c)
  PROVE  StartInv'
<1>1. c \in Callers /\ cpc[c] = "idle"
  BY QueueConstants DEF StartCalled, QueueConstants
<1>2. UNCHANGED wpc /\ Active' = Active
  BY DEF StartCalled, workers, Active
<1>3. CASE running
  <2>1. UNCHANGED <<running, shutdown, cpc>> /\ (said' = said \/ (said' = "started" /\ Stopping = {}))
    BY <1>3 DEF StartCalled, alreadyRunning
  <2>2. Stopping' = Stopping
    BY <2>1 DEF Stopping
  <2>3. StartWorks'
    BY <1>3, <2>1 DEF StartInv, StartWorks
  <2> QED
    BY <1>2, <2>1, <2>2, <2>3 DEF StartInv
<1>4. CASE ~running
  <2>1. running' = TRUE /\ shutdown' = FALSE /\ said' = "nothing" /\ cpc' = [cpc EXCEPT ![c] = "launch"]
    BY <1>4 DEF StartCalled, alreadyRunning, Reopen
  <2>2. \A d \in Callers : cpc'[d] = IF d = c THEN "launch" ELSE cpc[d]
    BY <2>1 DEF QInv, TypeOK
  <2> QED
    BY <1>1, <2>1, <2>2 DEF StartInv, StartWorks
<1> QED
  BY <1>3, <1>4

LEMMA StopCalledStartInv ==
  ASSUME QInv, StartInv, OneController, NEW c \in Controllers, StopCalled(c)
  PROVE  StartInv'
<1>1. c \in Callers /\ cpc[c] = "idle"
  BY QueueConstants DEF StopCalled, QueueConstants
<1>2. /\ shutdown' = TRUE /\ said' = "nothing" /\ UNCHANGED running
      /\ \A d \in Callers : cpc'[d] = IF d = c THEN "stopping" ELSE cpc[d]
  BY DEF StopCalled, QInv, TypeOK
<1>3. \A d \in Callers : cpc[d] # "launch" /\ cpc'[d] # "launch"
  BY <1>1, <1>2 DEF OneController, StartInv
<1>4. Active' = Active
  <2>1. \A g \in Workers : wpc'[g] = wpc[g] \/ (wpc[g] = "waiting" /\ wpc'[g] = "lock")
    BY SignalWakes DEF StopCalled, QInv
  <2> QED
    BY <2>1, LoopKept DEF Loop
<1>5. Stopping' # {}
  BY <1>1, <1>2 DEF Stopping
<1> QED
  BY <1>2, <1>3, <1>4, <1>5 DEF StartInv, StartWorks

LEMMA LaunchStartInv ==
  ASSUME QInv, StartInv, OneController, NEW c \in Callers, Launch(c)
  PROVE  StartInv'
<1>1. /\ cpc[c] = "launch" /\ c \in Controllers /\ running /\ ~shutdown
      /\ spawned \in Nat /\ spawned < MaxStarts
  BY QueueConstants DEF Launch, StartInv, QInv, OneWorker, TypeOK, QueueConstants
<1>2. UNCHANGED <<running, shutdown>> /\ \A d \in Callers : cpc'[d] = IF d = c THEN "idle" ELSE cpc[d]
  BY DEF Launch, QInv, TypeOK, queueVars
<1>3. Active' # {}
  <2>1. spawned + 1 \in Workers /\ wpc'[spawned + 1] = "lock"
    BY <1>1, QueueConstants DEF Launch, QInv, TypeOK, Workers, QueueConstants
  <2> QED
    BY <2>1 DEF Active
<1> QED
  BY <1>1, <1>2, <1>3 DEF StartInv, StartWorks

LEMMA StopEndsStartInv ==
  ASSUME QInv, StartInv, OneController, NEW c \in Callers, StopWaits(c) \/ StopWakes(c)
  PROVE  StartInv'
<1>1. /\ cpc[c] \in {"stopping", "released"} /\ c \in Controllers
      /\ UNCHANGED <<running, shutdown, wpc>>
  BY DEF StopWaits, StopWakes, StartInv, queueVars, workers
<1>2. Active' = Active
  BY <1>1 DEF Active
<1>3. \A d \in Callers : cpc[d] # "launch"
  BY <1>1 DEF OneController, StartInv
<1>4. CASE wg = 0
  <2>1. ~running
    BY <1>3, <1>4, NotRunning
  <2>2. \A d \in Callers : cpc'[d] = IF d = c THEN "idle" ELSE cpc[d]
    BY <1>4 DEF StopWaits, StopWakes, workersGone, QInv, TypeOK
  <2>3. said' = "stopped"
    BY <1>4, <2>1 DEF StopWaits, StopWakes, workersGone, stopped
  <2> QED
    BY <1>1, <1>3, <2>1, <2>2, <2>3 DEF StartInv, StartWorks
<1>5. CASE wg # 0
  <2>1. /\ said' = said
        /\ cpc' = cpc \/ cpc' = [cpc EXCEPT ![c] = "blocked"]
    BY <1>5 DEF StopWaits, StopWakes, workersGone
  <2>2. /\ \A d \in Callers : d # c => cpc'[d] = cpc[d]
        /\ cpc'[c] \in {"stopping", "blocked", "released"}
    BY <1>1, <2>1 DEF QInv, TypeOK
  <2>3. Stopping' # {}
    BY <2>2 DEF Stopping
  <2> QED
    BY <1>1, <1>2, <1>3, <2>1, <2>2, <2>3 DEF StartInv, StartWorks
<1> QED
  BY <1>4, <1>5

\* The steps of everybody else: no Start and no Stop begins or ends.
LEMMA OthersStartInv ==
  ASSUME QInv, StartInv, UNCHANGED <<shutdown, said>>,
         running' = running \/ (shutdown /\ ~running'),
         \A c \in Callers : \/ cpc'[c] = cpc[c]
                            \/ cpc[c] = "blocked" /\ cpc'[c] = "released"
                            \/ cpc[c] \in {"idle", "await"} /\ cpc'[c] \in {"idle", "await"},
         running' => Active' = Active
  PROVE  StartInv'
<1>1. Stopping' = Stopping
  BY DEF Stopping
<1>2. StartWorks'
  BY DEF StartInv, StartWorks
<1> QED
  BY <1>1, <1>2 DEF StartInv

LEMMA NextStartInv == OneController /\ QInv /\ StartInv /\ [Next]_vars => StartInv'
<1> SUFFICES ASSUME OneController, QInv, StartInv, [Next]_vars PROVE StartInv'
  OBVIOUS
<1>1. CASE UNCHANGED vars
  <2>1. UNCHANGED <<running, shutdown, wpc, cpc, said>>
    BY <1>1 DEF vars, queueVars, workers, callers
  <2> QED
    BY <2>1, OthersStartInv DEF Active
<1>2. ASSUME NEW c \in Callers, Call(c) PROVE StartInv'
  <2>1. ASSUME NEW j \in Jobs, NEW waits \in BOOLEAN, Enqueue(c, j, waits) PROVE StartInv'
    <3>1. UNCHANGED <<running, shutdown, said>> /\ (cpc' = cpc \/ (cpc[c] = "idle" /\ cpc' = [cpc EXCEPT ![c] = "await"]))
      BY <2>1 DEF Enqueue, callers
    <3>2. wpc' = wpc \/ Signal
      BY <2>1 DEF Enqueue
    <3>3. \A g \in Workers : wpc'[g] = wpc[g] \/ (wpc[g] = "waiting" /\ wpc'[g] = "lock")
      BY <3>2, SignalWakes DEF QInv
    <3>4. Active' = Active
      BY <3>3, LoopKept DEF Loop
    <3> QED
      BY <3>1, <3>4, OthersStartInv DEF QInv, TypeOK
  <2>2. ASSUME NEW id \in Ids, RemovePendingJob(c, id) PROVE StartInv'
    BY <2>2, OthersStartInv DEF RemovePendingJob, workers, callers, Active
  <2> QED
    BY <1>2, <2>1, <2>2, StartCalledStartInv, StopCalledStartInv DEF Call
<1>3. ASSUME NEW c \in Callers, CallerStep(c) PROVE StartInv'
  <2>1. CASE Awaited(c)
    BY <2>1, OthersStartInv DEF Awaited, queueVars, workers, Active, QInv, TypeOK
  <2> QED
    BY <1>3, <2>1, LaunchStartInv, StopEndsStartInv DEF CallerStep
<1>4. ASSUME NEW g \in Workers, WorkerStep(g) PROVE StartInv'
  <2>1. CASE WorkerWaits(g)
    BY <2>1, LoopKept, OthersStartInv DEF WorkerWaits, queueVars, callers, QInv, TypeOK, Loop
  <2>2. CASE WorkerTakes(g)
    BY <2>2, LoopKept, OthersStartInv DEF WorkerTakes, callers, QInv, TypeOK, Loop
  <2>3. CASE WorkerExecutes(g)
    BY <2>3, LoopKept, OthersStartInv DEF WorkerExecutes, queueVars, callers, QInv, TypeOK, Loop
  <2>4. CASE WorkerCloses(g)
    BY <2>4, LoopKept, OthersStartInv DEF WorkerCloses, queueVars, callers, QInv, TypeOK, Loop
  <2>5. CASE WorkerStops(g)
    BY <2>5, OthersStartInv DEF WorkerStops, callers
  <2>6. CASE WorkerExits(g)
    <3>1. Active' = Active
      BY <2>6 DEF WorkerExits, Active, QInv, TypeOK
    <3> QED
      BY <2>6, <3>1, OthersStartInv DEF WorkerExits, queueVars
  <2> QED
    BY <1>4, <2>1, <2>2, <2>3, <2>4, <2>5, <2>6 DEF WorkerStep
<1> QED
  BY <1>1, <1>2, <1>3, <1>4 DEF Next

\* A Start that has returned, with no Stop called since, leaves a worker that
\* serves the queue, if the goroutines that call Start and Stop do so one after
\* the other: with two of them a Stop may overtake the launch (run
\* ExtractQueue_race).
THEOREM StartIsHeeded ==
  ASSUME OneController
  PROVE  Spec => []StartWorks
<1>1. Init => StartInv
  BY DEF Init, StartInv, StartWorks
<1>2. QInv /\ StartInv /\ [Next]_vars => StartInv'
  BY NextStartInv
<1>3. StartInv => StartWorks
  BY DEF StartInv
<1> QED
  BY <1>1, <1>2, <1>3, QueueInvariant, PTL DEF Spec

----------------------------------------------------------------------------
(* ExtractQueue implements ExtractSpec *)

AbsStep == [Abs!Next]_(Abs!absVars)

\* A step that leaves the queue, the job in hand and the released jobs alone.
LEMMA Stutter == UNCHANGED <<jobs, done, ran>> /\ Held' = Held => AbsStep
<1> QED
  BY DEF AbsStep, Abs!absVars

\* The two modules read the same sequence operators.
LEMMA SameOperators ==
  /\ Abs!ToSet(jobs) = ToSet(jobs)
  /\ \A i : Abs!RemoveAt(jobs, i) = RemoveAt(jobs, i)
<1> QED
  BY DEF ToSet, Abs!ToSet, RemoveAt, Abs!RemoveAt

LEMMA AbsInit == Init => Abs!Init
<1> QED
  BY DEF Init, Abs!Init, Held

LEMMA EnqueueAbs ==
  ASSUME QInv, NEW c \in Callers, NEW j \in Jobs, NEW waits \in BOOLEAN, Enqueue(c, j, waits)
  PROVE  AbsStep
<1>1. UNCHANGED <<wjob, ran>> /\ j \notin ToSet(jobs) \union Held \union done
  BY DEF Enqueue, Fresh
<1>2. Held' = Held
  <2>1. wpc' = wpc \/ Signal
    BY DEF Enqueue
  <2>2. \A g \in Workers : wpc'[g] = wpc[g] \/ (wpc[g] = "waiting" /\ wpc'[g] = "lock")
    BY <2>1, SignalWakes DEF QInv, TypeOK
  <2> QED
    BY <1>1, <2>2 DEF Held
<1>3. j \notin ran /\ Abs!Fresh(j)
  BY <1>1, SameOperators DEF QInv, RanHeldOrDone, Abs!Fresh
<1>4. CASE jobs' = jobs /\ done' = done \union {j}
  <2>1. Abs!Refuse(j)
    BY <1>1, <1>2, <1>3, <1>4 DEF Abs!Refuse
  <2> QED
    BY <2>1 DEF AbsStep, Abs!Next
<1>5. CASE jobs' = Append(jobs, j) /\ done' = done
  <2>1. Abs!Accept(j)
    BY <1>1, <1>2, <1>3, <1>5 DEF Abs!Accept
  <2> QED
    BY <2>1 DEF AbsStep, Abs!Next
<1> QED
  BY <1>4, <1>5 DEF Enqueue

LEMMA RemoveAbs ==
  ASSUME QInv, NEW c \in Callers, NEW id \in Ids, RemovePendingJob(c, id)
  PROVE  AbsStep
<1>1. PICK i \in 1..Len(jobs) : done' = done \union {jobs[i]} /\ jobs' = RemoveAt(jobs, i)
  BY DEF RemovePendingJob, without
<1>2. UNCHANGED <<wpc, wjob, ran>> /\ jobs[i] \in ToSet(jobs)
  BY DEF RemovePendingJob, without, workers, QInv, TypeOK, ToSet
<1>3. Held' = Held
  BY <1>2 DEF Held
<1>4. jobs[i] \notin done /\ jobs[i] \notin ran
  BY <1>2 DEF QInv, ClosedOnce, RanHeldOrDone
<1>5. Abs!Withdraw(i)
  BY <1>1, <1>2, <1>3, <1>4, SameOperators DEF Abs!Withdraw
<1> QED
  BY <1>5 DEF AbsStep, Abs!Next

LEMMA WorkerTakesAbs ==
  ASSUME QInv, NEW g \in Workers, WorkerTakes(g)
  PROVE  AbsStep
<1>1. /\ UNCHANGED <<done, ran>> /\ wpc[g] = "lock" /\ jobs # <<>> /\ jobs' = Tail(jobs)
      /\ wpc' = [wpc EXCEPT ![g] = "execute"] /\ wjob' = [wjob EXCEPT ![g] = Head(jobs)]
  BY DEF WorkerTakes, ends
<1>2. Held = {} /\ \A h \in Workers : h # g => wpc[h] \in {"none", "exit", "gone"}
  BY <1>1, WorkerFrame DEF Loop
<1>3. Held' = {Head(jobs)}
  BY <1>1, <1>2 DEF Held, QInv, TypeOK
<1>4. Abs!Begin
  BY <1>1, <1>2, <1>3 DEF Abs!Begin
<1> QED
  BY <1>4 DEF AbsStep, Abs!Next

LEMMA WorkerClosesAbs ==
  ASSUME QInv, NEW g \in Workers, WorkerCloses(g)
  PROVE  AbsStep
<1>1. /\ UNCHANGED <<jobs, ran>> /\ wpc[g] = "close" /\ wpc' = [wpc EXCEPT ![g] = "lock"]
      /\ done' = done \union {wjob[g]} /\ wjob[g] \in Jobs /\ wjob[g] \in ran
  BY DEF WorkerCloses, queueVars, QInv, JobHeld
<1>2. Held = {wjob[g]} /\ \A h \in Workers : h # g => wpc[h] \in {"none", "exit", "gone"}
  BY <1>1, WorkerFrame DEF Loop
<1>3. Held' = {}
  BY <1>1, <1>2 DEF Held, QInv, TypeOK
<1>4. Abs!End(wjob[g])
  BY <1>1, <1>2, <1>3 DEF Abs!End
<1> QED
  BY <1>1, <1>4 DEF AbsStep, Abs!Next

LEMMA WorkerStopsAbs ==
  ASSUME QInv, NEW g \in Workers, WorkerStops(g)
  PROVE  AbsStep
<1>1. /\ UNCHANGED ran /\ wpc[g] = "lock" /\ wpc' = [wpc EXCEPT ![g] = "exit"]
      /\ jobs' = <<>> /\ done' = done \union ToSet(jobs)
  BY DEF WorkerStops, leftOver
<1>2. Held = {} /\ \A h \in Workers : h # g => wpc[h] \in {"none", "exit", "gone"}
  BY <1>1, WorkerFrame DEF Loop
<1>3. Held' = {}
  BY <1>1, <1>2 DEF Held, QInv, TypeOK
<1>4. ToSet(jobs) \intersect ran = {}
  BY DEF QInv, ClosedOnce, RanHeldOrDone
<1>5. Abs!DropAll
  BY <1>1, <1>2, <1>3, <1>4, SameOperators DEF Abs!DropAll
<1> QED
  BY <1>5 DEF AbsStep, Abs!Next

\* Running a job and its release are one step of the abstract queue.
LEMMA WorkerExecutesAbs ==
  ASSUME QInv, NEW g \in Workers, WorkerExecutes(g)
  PROVE  AbsStep
<1>1. /\ UNCHANGED <<jobs, wjob, done>> /\ ran' = ran \union {wjob[g]}
      /\ wpc[g] = "execute" /\ wpc' = [wpc EXCEPT ![g] = "close"]
  BY DEF WorkerExecutes, queueVars
<1>2. Held' = Held /\ wjob[g] \in Held
  BY <1>1 DEF Held, QInv, TypeOK
<1>3. wjob[g] \notin done
  BY <1>2 DEF QInv, ClosedOnce
<1>4. ran' \intersect done' = ran \intersect done /\ done' \ ran' = done \ ran
  BY <1>1, <1>3
<1> QED
  BY <1>1, <1>2, <1>4 DEF AbsStep, Abs!absVars

LEMMA AbsNext == QInv /\ [Next]_vars => AbsStep
<1> SUFFICES ASSUME QInv, [Next]_vars PROVE AbsStep
  OBVIOUS
<1>1. CASE UNCHANGED vars
  BY <1>1, Stutter DEF vars, queueVars, workers, ends, Held
<1>2. ASSUME NEW c \in Callers, Call(c) PROVE AbsStep
  <2>1. CASE StartCalled(c)
    BY <2>1, Stutter DEF StartCalled, alreadyRunning, Reopen, workers, ends, Held
  <2>2. CASE StopCalled(c)
    <3>1. \A g \in Workers : wpc'[g] = wpc[g] \/ (wpc[g] = "waiting" /\ wpc'[g] = "lock")
      BY <2>2, SignalWakes DEF StopCalled, QInv
    <3>2. UNCHANGED <<jobs, wjob, done, ran>>
      BY <2>2 DEF StopCalled, ends
    <3> QED
      BY <3>1, <3>2, Stutter, JobsKept
  <2> QED
    BY <1>2, <2>1, <2>2, EnqueueAbs, RemoveAbs DEF Call
<1>3. ASSUME NEW c \in Callers, CallerStep(c) PROVE AbsStep
  <2>1. CASE Launch(c)
    <3>1. spawned + 1 \in Workers /\ wpc[spawned + 1] = "none"
      BY <2>1, QueueConstants DEF QInv, OneWorker, TypeOK, Launch, wgAdded, Workers, QueueConstants
    <3>2. UNCHANGED <<jobs, wjob, done, ran>> /\ wpc' = [wpc EXCEPT ![spawned + 1] = "lock"]
      BY <2>1 DEF Launch, wgAdded, queueVars, ends
    <3>3. \A g \in Workers : \/ wpc'[g] = wpc[g]
                             \/ wpc[g] \notin {"execute", "close"} /\ wpc'[g] \notin {"execute", "close"}
      BY <3>1, <3>2 DEF QInv, TypeOK
    <3> QED
      BY <3>2, <3>3, Stutter, JobsKept
  <2>2. CASE StopWaits(c) \/ StopWakes(c) \/ Awaited(c)
    BY <2>2, Stutter DEF StopWaits, StopWakes, workersGone, Awaited, queueVars, workers, ends, Held
  <2> QED
    BY <1>3, <2>1, <2>2 DEF CallerStep
<1>4. ASSUME NEW g \in Workers, WorkerStep(g) PROVE AbsStep
  <2>1. CASE WorkerWaits(g) \/ WorkerExits(g)
    <3>1. UNCHANGED <<jobs, wjob, done, ran>>
      BY <2>1 DEF WorkerWaits, WorkerExits, queueVars, ends
    <3>2. \A h \in Workers : \/ wpc'[h] = wpc[h]
                             \/ wpc[h] \notin {"execute", "close"} /\ wpc'[h] \notin {"execute", "close"}
      BY <2>1 DEF WorkerWaits, WorkerExits, QInv, TypeOK
    <3> QED
      BY <3>1, <3>2, Stutter, JobsKept
  <2> QED
    BY <1>4, <2>1, WorkerStopsAbs, WorkerTakesAbs, WorkerExecutesAbs, WorkerClosesAbs DEF WorkerStep
<1> QED
  BY <1>1, <1>2, <1>3, <1>4 DEF Next

\* The queue of extract_queue.go implements the abstract queue: one job at a
\* time, in the order of Enqueue, each released once.
THEOREM Implementation == Spec => Implements
<1>1. Init => Abs!Init
  BY AbsInit
<1>2. QInv /\ [Next]_vars => [Abs!Next]_(Abs!absVars)
  BY AbsNext DEF AbsStep
<1> QED
  BY <1>1, <1>2, QueueInvariant, PTL DEF Spec, Implements, Abs!Spec

=============================================================================
