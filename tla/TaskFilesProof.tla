--------------------------- MODULE TaskFilesProof ---------------------------
(***************************************************************************)
(* Proofs about TaskFiles: for every set of tasks, every number of slots   *)
(* and every number of calls, failures and restarts, the tasks whose name  *)
(* was looked for have files of their own.                                 *)
(***************************************************************************)
EXTENDS TaskFiles, FiniteSetTheorems, TLAPS

----------------------------------------------------------------------------
(* Types *)

LEMMA ZeroIsNumber == ASSUME IsFiniteSet(FileTasks) PROVE 0 \in Numbers
<1>1. Cardinality(FileTasks) \in Nat
  BY FS_CardinalityType
<1> QED
  BY <1>1 DEF Numbers

LEMMA TypeInit == ASSUME IsFiniteSet(FileTasks), Init PROVE TypeOK
<1>1. 0 \in Numbers
  BY ZeroIsNumber
<1>2. writers \in [Numbers -> SUBSET (FileTasks \union {User})]
  BY DEF Init
<1> QED
  BY <1>1, <1>2 DEF Init, TypeOK, NoRecord

LEMMA StartTypes ==
  ASSUME TypeOK, NEW t \in FileTasks, NEW u \in FileTasks, doStart(t, u)
  PROVE  /\ st' \in [FileTasks -> {"new", "wait", "running", "pause", "error", "done"}]
         /\ first' \subseteq FileTasks /\ again' \in [FileTasks -> Nat]
BY DEF TypeOK, doStart

LEMMA TypeStep ==
  ASSUME IsFiniteSet(FileTasks), TypeOK, NewIsIdle, [Next]_fileVars
  PROVE  TypeOK'
<1>0. 0 \in Numbers
  BY ZeroIsNumber
<1>1. CASE UNCHANGED fileVars
  BY <1>1 DEF fileVars, meta, handlers, TypeOK
<1>2. ASSUME NEW t \in FileTasks, Create(t) PROVE TypeOK'
  <2>1. stored' \in [FileTasks -> Records \union {NoRecord}]
    BY <1>0, <1>2 DEF Create, TypeOK, Records
  <2> QED
    BY <1>2, <2>1, StartTypes DEF Create, TypeOK, meta
<1>3. ASSUME NEW t \in FileTasks, Offer(t) PROVE TypeOK'
  BY <1>3, StartTypes DEF Offer, TypeOK, meta
<1>4. ASSUME NEW t \in FileTasks, Pause(t) PROVE TypeOK'
  BY <1>4 DEF Pause, TypeOK, meta, handlers
<1>5. ASSUME NEW t \in FileTasks, Continue(t) PROVE TypeOK'
  BY <1>5, StartTypes DEF Continue, TypeOK, meta, running
<1>6. ASSUME NEW t \in FileTasks, Delete(t) PROVE TypeOK'
  BY <1>0, <1>6 DEF Delete, TypeOK, meta, handlers, NoRecord
<1>7. ASSUME NEW t \in FileTasks, Takes(t) PROVE TypeOK'
  BY <1>7 DEF Takes, TypeOK, meta
<1>8. ASSUME NEW t \in FileTasks, Resolves(t) PROVE TypeOK'
  BY <1>8 DEF Resolves, Fails, Leaves, TypeOK
<1>9. ASSUME NEW t \in FileTasks, FindsName(t) PROVE TypeOK'
  BY <1>9 DEF FindsName, locked, TypeOK
<1>10. ASSUME NEW t \in FileTasks, Starts(t) PROVE TypeOK'
  <2>1. writers' \in [Numbers -> SUBSET (FileTasks \union {User})]
    <3>1. Writes(t) \/ UNCHANGED writers
      BY <1>10 DEF Starts
    <3>2. number[t] \in Numbers /\ writers \in [Numbers -> SUBSET (FileTasks \union {User})]
      BY DEF TypeOK
    <3>3. writers[number[t]] \union {t} \in SUBSET (FileTasks \union {User})
      BY <3>2
    <3> QED
      BY <3>1, <3>2, <3>3 DEF Writes
  <2> QED
    BY <1>10, <2>1 DEF Starts, Fails, Leaves, TypeOK, meta
<1>11. ASSUME NEW t \in FileTasks, Saves(t) PROVE TypeOK'
  <2>1. recordOf(t) \in Records
    BY <1>11 DEF Saves, recordOf, NewIsIdle, TypeOK, Records
  <2> QED
    BY <1>11, <2>1 DEF Saves, Leaves, TypeOK, meta
<1>12. ASSUME NEW t \in FileTasks, Finishes(t) PROVE TypeOK'
  <2>1. [recordOf(t) EXCEPT !.st = "done"]
          \in Records
    BY <1>12 DEF Finishes, recordOf, TypeOK, Records
  <2> QED
    BY <1>12, <2>1 DEF Finishes, TypeOK, meta, handlers
<1>13. ASSUME NEW t \in FileTasks, Breaks(t) PROVE TypeOK'
  BY <1>13 DEF Breaks, TypeOK, meta, handlers
<1>14. CASE Restart
  <2>1. /\ stored' = [t \in FileTasks |-> IF t \in tasks' THEN stored[t] ELSE NoRecord]
        /\ tasks' \subseteq {t \in FileTasks : stored[t] # NoRecord}
    BY <1>14 DEF Restart
  <2>2. st' = [t \in FileTasks |->
          IF t \in tasks' /\ stored[t].st \notin {"done", "error"} THEN "pause"
          ELSE IF t \in tasks' THEN stored[t].st ELSE st[t]]
    BY <1>14 DEF Restart
  <2>3. /\ hasRes' = [t \in FileTasks |-> IF t \in tasks' THEN stored[t].hasRes ELSE hasRes[t]]
        /\ number' = [t \in FileTasks |-> IF t \in tasks' THEN stored[t].number ELSE number[t]]
    BY <1>14 DEF Restart
  <2>4. /\ named' \subseteq tasks' /\ UNCHANGED <<writers, isCreate>>
        /\ first' = {} /\ again' = [t \in FileTasks |-> 0] /\ begun' = {} /\ dupLock' = {}
        /\ at' = [t \in FileTasks |-> "free"]
    BY <1>14 DEF Restart
  <2>5. ASSUME NEW t \in tasks' PROVE t \in FileTasks /\ stored[t] \in Records
    BY <2>1 DEF TypeOK
  <2>6. stored' \in [FileTasks -> Records \union {NoRecord}]
    BY <2>1, <2>5
  <2>7. st' \in [FileTasks -> {"new", "wait", "running", "pause", "error", "done"}]
    <3>1. \A t \in FileTasks : st[t] \in {"new", "wait", "running", "pause", "error", "done"}
      BY DEF TypeOK
    <3> QED
      BY <2>2, <3>1
  <2>8. hasRes' \in [FileTasks -> BOOLEAN]
    <3>1. \A t \in FileTasks : hasRes[t] \in BOOLEAN /\ (t \in tasks' => stored[t].hasRes \in BOOLEAN)
      BY <2>5 DEF TypeOK, Records
    <3> QED
      BY <2>3, <3>1
  <2>9. number' \in [FileTasks -> Numbers]
    <3>1. \A t \in FileTasks : number[t] \in Numbers /\ (t \in tasks' => stored[t].number \in Numbers)
      BY <2>5 DEF TypeOK, Records
    <3> QED
      BY <2>3, <3>1
  <2>10. tasks' \subseteq FileTasks
    BY <2>5
  <2> QED
    BY <2>4, <2>6, <2>7, <2>8, <2>9, <2>10 DEF TypeOK
<1> QED
  BY <1>1, <1>2, <1>3, <1>4, <1>5, <1>6, <1>7, <1>8, <1>9, <1>10, <1>11, <1>12, <1>13, <1>14
     DEF Next, Call, Handler

----------------------------------------------------------------------------
(* The parts of the invariant that are about more than types *)

Names3 == LockKept /\ FoundFree /\ NamedWrote /\ NamedLater /\ OneSearch /\ NewIsIdle /\ NamedApart

LEMMA InitParts == ASSUME Init PROVE Names3
<1>1. \A k \in Numbers : owners(k) \subseteq {User}
  BY DEF Init, owners
<1> QED
  BY <1>1 DEF Init, Names3, LockKept, FoundFree, NamedWrote, NamedLater, OneSearch, NewIsIdle,
              NamedApart, searching

\* What is not about the status or the wait for task.lock is left alone by most
\* steps.
LEMMA Kept ==
  ASSUME FInv, UNCHANGED <<writers, number, named, at, isCreate, dupLock>>,
         NEW x \in FileTasks,
         \/ first' \subseteq first
         \/ first' = first \union {x} /\ at[x] = "free" /\ x \notin named
  PROVE  LockKept' /\ FoundFree' /\ NamedWrote' /\ NamedLater' /\ OneSearch' /\ NamedApart'
<1>1. \A t : searching(t)' = searching(t)
  BY DEF searching
<1>2. \A k : owners(k)' = owners(k)
  BY DEF owners
<1>3. LockKept' /\ FoundFree' /\ NamedWrote' /\ NamedApart'
  BY <1>1, <1>2 DEF FInv, LockKept, FoundFree, NamedWrote, NamedApart
<1>4. NamedLater' /\ OneSearch'
  BY <1>1 DEF FInv, NamedLater, OneSearch, searching
<1> QED
  BY <1>3, <1>4

\* A task on the list is not new; a start makes a search only of a new one.
LEMMA StartKeeps ==
  ASSUME FInv, NEW t \in FileTasks, NEW u \in FileTasks, doStart(t, u),
         t \in tasks \/ st[t] = "new", u \in tasks \union {t}, t \in tasks', tasks \subseteq tasks',
         tasks' \subseteq tasks \union {t},
         UNCHANGED <<writers, number, named, at, isCreate, dupLock>>
  PROVE  Names3'
<1>1. \A v \in FileTasks : v \in tasks => st[v] # "new"
  BY DEF FInv, NewIsIdle
<1>2. NewIsIdle'
  <2>1. CASE st[t] \in {"running", "done"}
    BY <1>1, <2>1 DEF doStart, FInv, NewIsIdle
  <2>2. CASE st[t] \notin {"running", "done"}
    <3>1. \A v \in FileTasks : st'[v] = "new" => v \notin {t, u} /\ st[v] = "new"
      BY <2>2 DEF doStart, FInv, TypeOK
    <3>2. \A v \in FileTasks : v # t => again'[v] = again[v] /\ (v \in first' => v \in first)
      BY <2>2 DEF doStart, FInv, TypeOK
    <3> QED
      BY <3>1, <3>2 DEF FInv, NewIsIdle
  <2> QED
    BY <2>1, <2>2
<1>3. first' \subseteq first \/ (first' = first \union {t} /\ st[t] = "new")
  BY DEF doStart
<1>4. st[t] = "new" => at[t] = "free" /\ t \notin named
  BY DEF FInv, NewIsIdle, TypeOK
<1> QED
  BY <1>2, <1>3, <1>4, Kept DEF Names3

LEMMA CallKeeps ==
  ASSUME FInv, OwnDeletes, NEW t \in FileTasks, Call(t) \/ Offer(t) PROVE Names3'
<1>0. \A v \in FileTasks : v \in tasks => st[v] # "new"
  BY DEF FInv, NewIsIdle
<1>1. CASE Create(t)
  <2>1. CASE Cardinality(running) >= Slots
    <3>1. NewIsIdle'
      BY <1>1, <2>1 DEF Create, FInv, TypeOK, NewIsIdle
    <3> QED
      BY <1>1, <2>1, <3>1, Kept DEF Create, meta, Names3
  <2>2. CASE ~(Cardinality(running) >= Slots)
    BY <1>1, <2>2, StartKeeps DEF Create, meta
  <2> QED
    BY <2>1, <2>2
<1>2. CASE Offer(t)
  BY <1>2, StartKeeps DEF Offer, meta
<1>3. CASE Pause(t)
  <2>1. NewIsIdle'
    BY <1>3 DEF Pause, handlers, FInv, TypeOK, NewIsIdle
  <2> QED
    BY <1>3, <2>1, Kept DEF Pause, meta, handlers, Names3
<1>4. CASE Continue(t)
  <2>1. PICK u \in tasks \union {t} : doStart(t, u)
    BY <1>4 DEF Continue, running
  <2>2. u \in FileTasks
    BY <2>1 DEF FInv, TypeOK
  <2> QED
    BY <1>4, <2>1, <2>2, StartKeeps DEF Continue, meta
<1>5. CASE Delete(t)
  <2>1. /\ t \in tasks /\ tasks' = tasks \ {t} /\ named' = named \ {t}
        /\ UNCHANGED <<st, number, at, isCreate, dupLock, first, again>>
    BY <1>5 DEF Delete, meta, handlers
  <2>2. writers' = writers \/ (writers[number[t]] = {t} /\ writers' = [writers EXCEPT ![number[t]] = {}])
    BY <1>5 DEF Delete
  <2>3. \A k \in Numbers : owners(k)' \subseteq owners(k)
    BY <2>1, <2>2 DEF owners, FInv, TypeOK
  <2>4. \A v : searching(v)' = searching(v)
    BY <2>1 DEF searching
  <2>5. NamedWrote'
    <3>1. ASSUME NEW v \in named, v # t PROVE v \in writers'[number[v]]
      <4>1. v \in writers[number[v]] /\ number[v] \in Numbers /\ number[t] \in Numbers
        BY <3>1 DEF FInv, TypeOK, NamedWrote
      <4>2. writers[number[t]] = {t} => number[v] # number[t]
        BY <3>1, <4>1
      <4> QED
        BY <2>2, <4>1, <4>2 DEF FInv, TypeOK
    <3> QED
      BY <2>1, <3>1 DEF NamedWrote
  <2>6. FoundFree' /\ NamedApart'
    BY <2>1, <2>3, <2>4 DEF FInv, TypeOK, FoundFree, NamedApart
  <2>7. LockKept' /\ NamedLater' /\ OneSearch' /\ NewIsIdle'
    BY <2>1, <2>4 DEF FInv, LockKept, NamedLater, OneSearch, NewIsIdle
  <2> QED
    BY <2>5, <2>6, <2>7 DEF Names3
<1> QED
  BY <1>1, <1>2, <1>3, <1>4, <1>5 DEF Call

----------------------------------------------------------------------------
(* The handler of a start *)

LEMMA TakesKeeps == ASSUME FInv, NEW t \in FileTasks, Takes(t) PROVE Names3'
<1>1. PICK c \in BOOLEAN :
        /\ at[t] = "free" /\ (IF c THEN t \in first ELSE again[t] > 0)
        /\ at' = [at EXCEPT ![t] = "resolve"] /\ isCreate' = [isCreate EXCEPT ![t] = c]
        /\ first' = (IF c THEN first \ {t} ELSE first)
        /\ again' = IF c THEN again ELSE [again EXCEPT ![t] = @ - 1]
  BY DEF Takes
<1>2. UNCHANGED <<tasks, st, number, writers, dupLock, named>>
  BY DEF Takes, meta
<1>3. /\ at'[t] = "resolve" /\ isCreate'[t] = c
      /\ \A u \in FileTasks : u # t => at'[u] = at[u] /\ isCreate'[u] = isCreate[u]
  BY <1>1 DEF FInv, TypeOK
<1>4. \A k : owners(k)' = owners(k)
  BY <1>2 DEF owners
<1>5. LockKept' /\ FoundFree' /\ NamedWrote' /\ NamedApart'
  BY <1>2, <1>3, <1>4 DEF FInv, TypeOK, LockKept, FoundFree, NamedWrote, NamedApart, searching
<1>6. NamedLater' /\ OneSearch'
  BY <1>1, <1>2, <1>3 DEF FInv, TypeOK, NamedLater, OneSearch, searching
<1>7. NewIsIdle'
  BY <1>1, <1>2, <1>3 DEF FInv, TypeOK, NewIsIdle
<1> QED
  BY <1>5, <1>6, <1>7 DEF Names3

LEMMA ResolvesKeeps == ASSUME FInv, NEW t \in FileTasks, Resolves(t) PROVE Names3'
<1>1. /\ at[t] = "resolve" /\ UNCHANGED <<tasks, number, writers, first, again, isCreate, named>>
      /\ \/ /\ at' = [at EXCEPT ![t] = IF isCreate[t] THEN "name" ELSE "start"]
            /\ UNCHANGED <<st, dupLock>>
         \/ /\ at' = [at EXCEPT ![t] = "free"] /\ dupLock' = dupLock \ {t}
            /\ st' = [st EXCEPT ![t] = "error"]
  BY DEF Resolves, Fails, Leaves
<1>2. /\ at'[t] \in {"free", "name", "start"} /\ (isCreate[t] => at'[t] # "start")
      /\ \A u \in FileTasks : u # t => at'[u] = at[u]
  BY <1>1 DEF FInv, TypeOK
<1>3. \A k : owners(k)' = owners(k)
  BY <1>1 DEF owners
<1>4. LockKept' /\ FoundFree' /\ NamedWrote' /\ NamedApart'
  BY <1>1, <1>2, <1>3 DEF FInv, TypeOK, LockKept, FoundFree, NamedWrote, NamedApart, searching
<1>5. NamedLater' /\ OneSearch'
  BY <1>1, <1>2 DEF FInv, TypeOK, NamedLater, OneSearch, searching
<1>6. NewIsIdle'
  BY <1>1, <1>2 DEF FInv, TypeOK, NewIsIdle
<1> QED
  BY <1>4, <1>5, <1>6 DEF Names3

\* The number that is found has no file, so nobody has it.
LEMMA FindsNameKeeps == ASSUME FInv, NEW t \in FileTasks, FindsName(t) PROVE Names3'
<1>1. PICK n \in Numbers :
        /\ at[t] = "name" /\ dupLock = {} /\ dupLock' = {t}
        /\ isFree(number[t], n) /\ number' = [number EXCEPT ![t] = n]
        /\ at' = [at EXCEPT ![t] = "start"]
        /\ UNCHANGED <<tasks, st, writers, first, again, isCreate, named>>
  BY DEF FindsName, locked
<1>2. writers[n] = {}
  BY <1>1 DEF isFree, taken
<1>3. /\ at'[t] = "start" /\ number'[t] = n
      /\ \A u \in FileTasks : u # t => at'[u] = at[u] /\ number'[u] = number[u]
  BY <1>1 DEF FInv, TypeOK
<1>4. \A u \in FileTasks : ~(searching(u) /\ at[u] \in {"start", "save"})
  BY <1>1 DEF FInv, LockKept
<1>5. t \notin named /\ t \notin first
  BY <1>1 DEF FInv, NamedLater, OneSearch, searching
<1>6. \A k \in Numbers : owners(k)' = owners(k)
  BY <1>1, <1>3, <1>5 DEF owners, FInv, TypeOK
<1>7. owners(n)' = {}
  BY <1>1, <1>2 DEF owners
<1>8. LockKept' /\ FoundFree'
  BY <1>1, <1>3, <1>4, <1>7 DEF LockKept, FoundFree, searching
<1>9. NamedWrote' /\ NamedApart'
  BY <1>1, <1>3, <1>5, <1>6 DEF FInv, TypeOK, NamedWrote, NamedApart
<1>10. NamedLater' /\ OneSearch' /\ NewIsIdle'
  BY <1>1, <1>3, <1>5 DEF FInv, TypeOK, NamedLater, OneSearch, NewIsIdle, searching
<1> QED
  BY <1>8, <1>9, <1>10 DEF Names3

\* A start that has the lock is alone with the file it found missing; any other
\* either writes a file it has written or was never named.
LEMMA StartsKeeps ==
  ASSUME User \notin FileTasks, FInv, NEW t \in FileTasks, Starts(t) PROVE Names3'
<1>1. /\ at[t] = "start" /\ UNCHANGED <<tasks, number, first, again, isCreate>>
      /\ \/ /\ Writes(t) /\ at' = [at EXCEPT ![t] = "save"] /\ UNCHANGED <<st, dupLock>>
            /\ named' = IF isCreate[t] /\ t \in tasks THEN named \union {t} ELSE named
         \/ /\ Writes(t) \/ UNCHANGED writers
            /\ at' = [at EXCEPT ![t] = "free"] /\ dupLock' = dupLock \ {t}
            /\ st' = [st EXCEPT ![t] = "error"] /\ UNCHANGED named
  BY DEF Starts, meta, Fails, Leaves
<1>2. /\ at'[t] \in {"free", "save"} /\ \A u \in FileTasks : u # t => at'[u] = at[u]
      /\ named \subseteq named' /\ named' \subseteq named \union {t}
      /\ t \in named' => t \in named \/ (isCreate[t] /\ at'[t] = "save" /\ t \in tasks)
      /\ number[t] \in Numbers /\ writers \in [Numbers -> SUBSET (FileTasks \union {User})]
  BY <1>1 DEF FInv, TypeOK
<1>3. \A k \in Numbers : /\ writers[k] \subseteq writers'[k]
                         /\ writers'[k] \subseteq writers[k] \union {t}
                         /\ t \in writers'[k] => t \in writers[k] \/ k = number[t]
  BY <1>1, <1>2 DEF Writes
<1>4. t \in named' => t \in writers'[number[t]]
  <2>1. CASE t \in named
    BY <1>2, <1>3, <2>1 DEF FInv, NamedWrote
  <2>2. CASE t \notin named
    BY <1>1, <1>2, <2>2 DEF Writes
  <2> QED
    BY <2>1, <2>2
<1>5. NamedWrote'
  <2>1. ASSUME NEW u \in named', u # t PROVE u \in writers'[number[u]]
    BY <1>2, <1>3, <2>1 DEF FInv, TypeOK, NamedWrote
  <2> QED
    BY <1>1, <1>4, <2>1 DEF NamedWrote
\* Who has a file is as before, but for t, which is alone with its own.
<1>6. \A k \in Numbers : \/ owners(k)' = owners(k)
                         \/ isCreate[t] /\ k = number[t] /\ owners(k)' \subseteq {t}
  <2>1. CASE t \in named \/ t \notin named'
    <3>1. ASSUME NEW k \in Numbers, NEW x \in owners(k)' PROVE x \in owners(k)
      <4>1. CASE x # t
        BY <1>1, <1>2, <1>3, <3>1, <4>1 DEF owners
      <4>2. CASE x = t /\ t \in named
        <5>1. t \in writers[number[t]]
          BY <4>2 DEF FInv, NamedWrote
        <5> QED
          BY <1>1, <1>3, <3>1, <4>2, <5>1 DEF owners
      <4>3. x = t => t \in named'
        BY <3>1 DEF owners
      <4> QED
        BY <2>1, <4>1, <4>2, <4>3
    <3>2. ASSUME NEW k \in Numbers, NEW x \in owners(k) PROVE x \in owners(k)'
      BY <1>1, <1>2, <1>3, <3>2 DEF owners
    <3> QED
      BY <3>1, <3>2
  <2>2. CASE t \notin named /\ t \in named'
    <3>1. isCreate[t] /\ owners(number[t]) = {}
      BY <1>1, <1>2, <2>2 DEF FInv, FoundFree, searching
    <3>2. ASSUME NEW k \in Numbers, NEW x, x # t PROVE x \in owners(k)' <=> x \in owners(k)
      BY <1>1, <1>2, <1>3, <3>2 DEF owners
    <3>3. ASSUME NEW k \in Numbers, k # number[t] PROVE t \notin owners(k)' /\ t \notin owners(k)
      BY <1>1, <2>2, <3>3 DEF owners, FInv, TypeOK
    <3>4. ASSUME NEW k \in Numbers, k # number[t] PROVE owners(k)' = owners(k)
      BY <3>2, <3>3, <3>4
    <3>5. ASSUME NEW x \in owners(number[t])' PROVE x = t
      BY <1>1, <1>2, <3>1, <3>2, <3>5
    <3> QED
      BY <1>1, <3>1, <3>4, <3>5
  <2> QED
    BY <2>1, <2>2
<1>7. NamedApart'
  BY <1>6 DEF FInv, NamedApart
<1>8. LockKept'
  <2>1. ASSUME NEW u \in FileTasks, searching(u)', at'[u] \in {"start", "save"}
        PROVE  searching(u) /\ at[u] \in {"start", "save"} /\ (u = t => at'[u] = "save")
    BY <1>1, <1>2, <2>1 DEF searching
  <2>2. ASSUME NEW u \in FileTasks, searching(u)', at'[u] \in {"start", "save"} PROVE dupLock' = {u}
    <3>1. dupLock = {u}
      BY <2>1, <2>2 DEF FInv, LockKept
    <3>2. u = t => dupLock' = dupLock
      BY <1>1, <1>2, <2>1, <2>2 DEF FInv, TypeOK
    <3> QED
      BY <1>1, <3>1, <3>2
  <2> QED
    BY <2>2 DEF LockKept
<1>9. FoundFree'
  <2>1. ASSUME NEW u \in FileTasks, searching(u)', at'[u] = "start" PROVE owners(number[u])' = {}
    <3>1. u # t /\ searching(u) /\ at[u] = "start"
      BY <1>1, <1>2, <2>1 DEF searching
    <3>2. dupLock = {u} /\ owners(number[u]) = {}
      BY <3>1 DEF FInv, LockKept, FoundFree
    <3>3. ~isCreate[t]
      BY <1>1, <3>1, <3>2 DEF FInv, LockKept, searching
    <3>4. number[u] \in Numbers
      BY DEF FInv, TypeOK
    <3>5. owners(number[u])' = owners(number[u])
      <4>1. number'[u] = number[u]
        BY <1>1
      <4> DEFINE k == number[u]
      <4>2. \A j \in Numbers : owners(j)' = owners(j)
        BY <1>6, <3>3
      <4> QED
        BY <1>1, <3>4, <4>1, <4>2 DEF owners
    <3> QED
      BY <3>2, <3>5
  <2> QED
    BY <1>1, <2>1 DEF FoundFree, owners
<1>10. NamedLater' /\ OneSearch'
  BY <1>1, <1>2 DEF FInv, TypeOK, NamedLater, OneSearch, searching
<1>11. NewIsIdle'
  BY <1>1, <1>2 DEF FInv, TypeOK, NewIsIdle
<1> QED
  BY <1>5, <1>7, <1>8, <1>9, <1>10, <1>11 DEF Names3

LEMMA SavesKeeps == ASSUME FInv, NEW t \in FileTasks, Saves(t) PROVE Names3'
<1>1. /\ at[t] = "save" /\ UNCHANGED <<tasks, st, number, writers, first, again, isCreate, named>>
      /\ at' = [at EXCEPT ![t] = "free"] /\ dupLock' = dupLock \ {t}
  BY DEF Saves, Leaves, meta
<1>2. at'[t] = "free" /\ \A u \in FileTasks : u # t => at'[u] = at[u]
  BY <1>1 DEF FInv, TypeOK
<1>3. \A k : owners(k)' = owners(k)
  BY <1>1 DEF owners
<1>4. LockKept' /\ FoundFree' /\ NamedWrote' /\ NamedApart'
  BY <1>1, <1>2, <1>3 DEF FInv, LockKept, FoundFree, NamedWrote, NamedApart, searching
<1>5. NamedLater' /\ OneSearch' /\ NewIsIdle'
  BY <1>1, <1>2 DEF FInv, TypeOK, NamedLater, OneSearch, NewIsIdle, searching
<1> QED
  BY <1>4, <1>5 DEF Names3

----------------------------------------------------------------------------
(* The watcher, a restart, and the theorems *)

LEMMA WatchKeeps ==
  ASSUME FInv, NEW t \in FileTasks, Finishes(t) \/ Breaks(t) PROVE Names3'
<1>1. /\ UNCHANGED <<tasks, meta, writers, handlers, named>>
      /\ st' = [st EXCEPT ![t] = "done"] \/ st' = [st EXCEPT ![t] = "error"]
  BY DEF Finishes, Breaks, meta, handlers
<1>2. NewIsIdle'
  BY <1>1 DEF meta, handlers, FInv, TypeOK, NewIsIdle
<1> QED
  BY <1>1, <1>2, Kept DEF meta, handlers, Names3

LEMMA RestartKeeps == ASSUME FInv, TypeOK', Restart PROVE Names3'
<1>1. /\ first' = {} /\ again' = [t \in FileTasks |-> 0] /\ UNCHANGED writers
      /\ at' = [t \in FileTasks |-> "free"] /\ tasks' \subseteq {t \in FileTasks : stored[t] # NoRecord}
      /\ number' = [t \in FileTasks |-> IF t \in tasks' THEN stored[t].number ELSE number[t]]
      /\ named' = {t \in named \cap tasks' : stored[t].number = number[t]}
      /\ st' = [t \in FileTasks |->
           IF t \in tasks' /\ stored[t].st \notin {"done", "error"} THEN "pause"
           ELSE IF t \in tasks' THEN stored[t].st ELSE st[t]]
  BY DEF Restart
<1>2. named' \subseteq named /\ \A t \in named' : number'[t] = number[t]
  BY <1>1 DEF FInv, TypeOK
<1>3. \A k \in Numbers : owners(k)' \subseteq owners(k)
  BY <1>1, <1>2 DEF owners
<1>4. NamedWrote' /\ NamedApart'
  BY <1>1, <1>2, <1>3 DEF FInv, NamedWrote, NamedApart
<1>5. LockKept' /\ FoundFree' /\ NamedLater' /\ OneSearch'
  BY <1>1, <1>2 DEF FInv, TypeOK, LockKept, FoundFree, NamedLater, OneSearch, searching
<1>6. \A t \in tasks' : t \in FileTasks /\ st'[t] # "new"
  BY <1>1
<1>7. NewIsIdle'
  BY <1>1, <1>6 DEF NewIsIdle
<1> QED
  BY <1>4, <1>5, <1>7 DEF Names3

LEMMA StepKeeps ==
  ASSUME FInv, IsFiniteSet(FileTasks), User \notin FileTasks, OwnDeletes, [Next]_fileVars PROVE FInv'
<1>1. TypeOK'
  BY TypeStep DEF FInv
<1>2. CASE UNCHANGED fileVars
  <2>1. /\ UNCHANGED <<tasks, st, number, writers, first, again, at, isCreate, dupLock, named>>
        /\ \A t : searching(t)' = searching(t)
        /\ \A k : owners(k)' = owners(k)
    BY <1>2 DEF fileVars, meta, handlers, searching, owners
  <2> QED
    BY <1>1, <2>1 DEF FInv, LockKept, FoundFree, NamedWrote, NamedLater, OneSearch, NewIsIdle, NamedApart
<1>3. CASE Next
  BY <1>1, <1>3, CallKeeps, TakesKeeps, ResolvesKeeps, FindsNameKeeps, StartsKeeps, SavesKeeps,
     WatchKeeps, RestartKeeps
     DEF Next, Handler, FInv, Names3
<1> QED
  BY <1>2, <1>3

THEOREM FilesInvariant ==
  ASSUME OwnDeletes PROVE Spec => []FInv
<1>1. Init => FInv
  BY FileConstants, TypeInit, InitParts DEF FInv, Names3
<1>2. FInv /\ [Next]_fileVars => FInv'
  BY FileConstants, StepKeeps
<1> QED
  BY <1>1, <1>2, PTL DEF Spec

\* Tasks whose name was looked for by CheckDuplicateAndRename have files of
\* their own, whatever pauses, failures, deletions and restarts there are.
THEOREM NamesStayApart ==
  ASSUME OwnDeletes PROVE Spec => []NamedApart
<1>1. FInv => NamedApart
  BY DEF FInv
<1> QED
  BY <1>1, FilesInvariant, PTL

=============================================================================
