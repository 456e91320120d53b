--------------------------- MODULE SchedulerProof ---------------------------
(***************************************************************************)
(* Proofs about Scheduler, for every number of tasks, callers and slots:   *)
(* whatever the clients call, a task that waits is in the queue, as long   *)
(* as no Delete moves the list under pauseAll; without Continue a deleted  *)
(* task is not started; without PutConfig too the limit holds; and without *)
(* pauseAll and failed calls no slot is left free while tasks wait.        *)
(***************************************************************************)
EXTENDS Scheduler, FiniteSetTheorems, SequenceTheorems, TLAPS

----------------------------------------------------------------------------
(* Sequences *)

LEMMA SetOfSeq ==
  ASSUME NEW S, NEW s \in Seq(S)
  PROVE  /\ ToSet(s) = {s[i] : i \in 1..Len(s)} /\ ToSet(s) \subseteq S
         /\ DOMAIN s = 1..Len(s) /\ Len(s) \in Nat
         /\ IsFiniteSet(ToSet(s))
<1>1. DOMAIN s = 1..Len(s) /\ Len(s) \in Nat /\ s \in [1..Len(s) -> S]
  BY LenProperties
<1>2. ToSet(s) = {s[i] : i \in 1..Len(s)}
  BY <1>1 DEF ToSet
<1>3. s \in Surjection(1..Len(s), ToSet(s))
  BY <1>1, <1>2 DEF Surjection
<1>4. IsFiniteSet(1..Len(s))
  BY <1>1, FS_Interval
<1>5. IsFiniteSet(ToSet(s))
  BY <1>3, <1>4, FS_Surjection
<1> QED
  BY <1>1, <1>2, <1>5

LEMMA EmptySet == ToSet(<<>>) = {}
<1> QED
  BY DEF ToSet

LEMMA AppendSet ==
  ASSUME NEW S, NEW s \in Seq(S), NEW e \in S
  PROVE  /\ Append(s, e) \in Seq(S) /\ Append(s, e) # <<>>
         /\ ToSet(Append(s, e)) = ToSet(s) \union {e}
         /\ Distinct(s) /\ e \notin ToSet(s) => Distinct(Append(s, e))
<1> DEFINE a == Append(s, e)
<1>1. /\ a \in Seq(S) /\ a # <<>> /\ Len(a) = Len(s) + 1
      /\ \A i \in 1..Len(s) : a[i] = s[i]
      /\ a[Len(s) + 1] = e
  BY AppendProperties
<1>2. /\ ToSet(a) = {a[i] : i \in 1..Len(a)} /\ DOMAIN a = 1..Len(a)
      /\ ToSet(s) = {s[i] : i \in 1..Len(s)} /\ DOMAIN s = 1..Len(s) /\ Len(s) \in Nat
  BY <1>1, SetOfSeq
<1> HIDE DEF a
<1>3. ToSet(a) = ToSet(s) \union {e}
  BY <1>1, <1>2
<1>4. Distinct(s) /\ e \notin ToSet(s) => Distinct(a)
  BY <1>1, <1>2 DEF Distinct
<1> QED
  BY <1>1, <1>3, <1>4 DEF a

LEMMA ConcatSet ==
  ASSUME NEW S, NEW s \in Seq(S), NEW r \in Seq(S)
  PROVE  s \o r \in Seq(S) /\ ToSet(s \o r) = ToSet(s) \union ToSet(r)
<1> DEFINE q == s \o r
<1>1. /\ q \in Seq(S) /\ Len(q) = Len(s) + Len(r)
      /\ \A i \in 1..(Len(s) + Len(r)) : q[i] = IF i <= Len(s) THEN s[i] ELSE r[i - Len(s)]
  BY ConcatProperties
<1>2. /\ ToSet(q) = {q[i] : i \in 1..Len(q)}
      /\ ToSet(s) = {s[i] : i \in 1..Len(s)} /\ Len(s) \in Nat
      /\ ToSet(r) = {r[i] : i \in 1..Len(r)} /\ Len(r) \in Nat
  BY <1>1, SetOfSeq
<1> HIDE DEF q
<1>3. ToSet(q) \subseteq ToSet(s) \union ToSet(r)
  BY <1>1, <1>2
<1>4. ToSet(s) \subseteq ToSet(q)
  BY <1>1, <1>2
<1>5. ASSUME NEW i \in 1..Len(r) PROVE r[i] \in ToSet(q)
  <2>1. /\ Len(s) + i \in 1..(Len(s) + Len(r)) /\ ~(Len(s) + i <= Len(s))
        /\ (Len(s) + i) - Len(s) = i
    BY <1>2
  <2>2. q[Len(s) + i] = r[i]
    BY <1>1, <2>1
  <2> QED
    BY <1>1, <1>2, <2>1, <2>2
<1> QED
  BY <1>1, <1>2, <1>3, <1>4, <1>5 DEF q

LEMMA TailSet ==
  ASSUME NEW S, NEW s \in Seq(S), s # <<>>
  PROVE  /\ Head(s) \in S /\ Tail(s) \in Seq(S) /\ Len(Tail(s)) = Len(s) - 1
         /\ Len(s) \in Nat /\ Len(s) > 0
         /\ ToSet(s) = ToSet(Tail(s)) \union {Head(s)}
         /\ Distinct(s) => Distinct(Tail(s)) /\ Head(s) \notin ToSet(Tail(s))
<1> DEFINE r == Tail(s)
<1>1. /\ Head(s) \in S /\ r \in Seq(S) /\ Len(r) = Len(s) - 1
      /\ \A i \in 1..Len(r) : r[i] = s[i + 1]
      /\ Len(s) \in Nat /\ Len(s) > 0
  BY HeadTailProperties, EmptySeq, LenProperties
<1>2. Head(s) = s[1]
  BY <1>1
<1>3. /\ ToSet(s) = {s[i] : i \in 1..Len(s)} /\ DOMAIN s = 1..Len(s)
      /\ ToSet(r) = {r[i] : i \in 1..Len(r)} /\ DOMAIN r = 1..Len(r)
  BY <1>1, SetOfSeq
<1> HIDE DEF r
<1>4. ToSet(r) \union {Head(s)} \subseteq ToSet(s)
  BY <1>1, <1>2, <1>3
<1>5. ASSUME NEW i \in 1..Len(s) PROVE s[i] \in ToSet(r) \union {Head(s)}
  <2>1. i = 1 \/ (i - 1 \in 1..Len(r) /\ r[i - 1] = s[i])
    BY <1>1
  <2> QED
    BY <1>2, <1>3, <2>1
<1>6. ASSUME Distinct(s) PROVE Distinct(r) /\ Head(s) \notin ToSet(r)
  <2>1. \A i, k \in 1..Len(s) : s[i] = s[k] => i = k
    BY <1>3, <1>6 DEF Distinct
  <2>2. \A i \in 1..Len(r) : i + 1 \in 1..Len(s) /\ i + 1 # 1 /\ r[i] = s[i + 1]
    BY <1>1
  <2>3. Head(s) \notin ToSet(r)
    BY <1>1, <1>2, <1>3, <2>1, <2>2
  <2>4. \A i, k \in 1..Len(r) : r[i] = r[k] => i = k
    BY <2>1, <2>2
  <2> QED
    BY <1>3, <2>3, <2>4 DEF Distinct
<1> QED
  BY <1>1, <1>3, <1>4, <1>5, <1>6 DEF r

\* The number of positions of I up to i, for each of them.
Rank(I) == [i \in I |-> Cardinality({j \in I : j <= i})]

LEMMA RankOnto ==
  ASSUME NEW n \in Nat, NEW I, I \subseteq 1..n
  PROVE  /\ IsFiniteSet(I) /\ Cardinality(I) \in Nat
         /\ \A i, k \in I : i # k => Rank(I)[i] # Rank(I)[k]
         /\ \A k \in 1..Cardinality(I) : \E i \in I : Rank(I)[i] = k
         /\ \A i \in I : Rank(I)[i] \in 1..Cardinality(I)
<1> DEFINE Upto(i) == {j \in I : j <= i}
<1>1. IsFiniteSet(I) /\ Cardinality(I) \in Nat
  <2>1. IsFiniteSet(1..n)
    BY FS_Interval
  <2> QED
    BY <2>1, FS_Subset, FS_CardinalityType
<1>2. \A i \in I : IsFiniteSet(Upto(i)) /\ Cardinality(Upto(i)) \in 1..Cardinality(I)
  <2> SUFFICES ASSUME NEW i \in I
               PROVE  IsFiniteSet(Upto(i)) /\ Cardinality(Upto(i)) \in 1..Cardinality(I)
    OBVIOUS
  <2>1. Upto(i) \subseteq I /\ i \in Upto(i)
    OBVIOUS
  <2>2. IsFiniteSet(Upto(i)) /\ Cardinality(Upto(i)) <= Cardinality(I) /\ Cardinality(Upto(i)) \in Nat
    BY <1>1, <2>1, FS_Subset, FS_CardinalityType
  <2>3. Cardinality(Upto(i)) # 0
    BY <2>1, <2>2, FS_EmptySet
  <2> QED
    BY <1>1, <2>2, <2>3
<1>3. \A i, k \in I : i < k => Cardinality(Upto(i)) # Cardinality(Upto(k))
  <2> SUFFICES ASSUME NEW i \in I, NEW k \in I, i < k, Cardinality(Upto(i)) = Cardinality(Upto(k))
               PROVE  FALSE
    OBVIOUS
  <2>1. i \in Nat /\ k \in Nat /\ \A j \in I : j \in Nat
    OBVIOUS
  <2>2. k <= k /\ ~(k <= i) /\ \A j \in I : j <= i => j <= k
    BY <2>1
  <2>3. Upto(i) \subseteq Upto(k) /\ k \in Upto(k) /\ k \notin Upto(i)
    BY <2>2
  <2>4. IsFiniteSet(Upto(k)) /\ Upto(i) \in SUBSET Upto(k)
    BY <1>2, <2>3
  <2> HIDE DEF Upto
  <2>5. Upto(i) = Upto(k)
    BY <2>4, FS_Subset
  <2> QED
    BY <2>3, <2>5
<1>4. \A i, k \in I : i # k => Rank(I)[i] # Rank(I)[k]
  BY <1>3 DEF Rank
<1>5. Rank(I) \in Injection(I, 1..Cardinality(I))
  BY <1>2, <1>4 DEF Rank, Injection, IsInjective
<1>6. IsFiniteSet(1..Cardinality(I)) /\ Cardinality(1..Cardinality(I)) = Cardinality(I)
  BY <1>1, FS_Interval
<1>7. Rank(I) \in Surjection(I, 1..Cardinality(I))
  BY <1>5, <1>6, FS_Injection
<1> QED
  BY <1>1, <1>2, <1>4, <1>7 DEF Rank, Surjection

LEMMA EntriesSet ==
  ASSUME NEW S, NEW s \in Seq(S), NEW I, I \subseteq DOMAIN s
  PROVE  /\ entries(s, I) \in Seq(S) /\ Len(entries(s, I)) = Cardinality(I)
         /\ ToSet(entries(s, I)) = {s[i] : i \in I}
         /\ Distinct(s) => Distinct(entries(s, I))
<1> DEFINE e == entries(s, I)
           at == [k \in 1..Cardinality(I) |-> CHOOSE i \in I : Cardinality({j \in I : j <= i}) = k]
<1>1. DOMAIN s = 1..Len(s) /\ Len(s) \in Nat /\ \A i \in I : s[i] \in S
  BY SetOfSeq, ElementOfSeq
<1>2. Cardinality(I) \in Nat
  BY <1>1, RankOnto
<1>3. \A k \in 1..Cardinality(I) : at[k] \in I /\ Rank(I)[at[k]] = k
  <2> SUFFICES ASSUME NEW k \in 1..Cardinality(I) PROVE at[k] \in I /\ Rank(I)[at[k]] = k
    OBVIOUS
  <2>0. \E i \in I : Rank(I)[i] = k
    BY <1>1, RankOnto
  <2>1. \E i \in I : Cardinality({j \in I : j <= i}) = k
    BY <2>0 DEF Rank
  <2> QED
    BY <2>1 DEF Rank
<1>4. \A i \in I : \E k \in 1..Cardinality(I) : at[k] = i
  <2> SUFFICES ASSUME NEW i \in I PROVE \E k \in 1..Cardinality(I) : at[k] = i
    OBVIOUS
  <2>1. Rank(I)[i] \in 1..Cardinality(I)
    BY <1>1, RankOnto
  <2>2. at[Rank(I)[i]] \in I /\ Rank(I)[at[Rank(I)[i]]] = Rank(I)[i]
    BY <1>3, <2>1
  <2>3. \A j, k \in I : j # k => Rank(I)[j] # Rank(I)[k]
    BY <1>1, RankOnto
  <2> QED
    BY <2>1, <2>2, <2>3
<1>5. e = [k \in 1..Cardinality(I) |-> s[at[k]]]
  BY DEF entries
<1> HIDE DEF e, at
<1>6. e \in Seq(S) /\ Len(e) = Cardinality(I)
  <2>1. e \in [1..Cardinality(I) -> S]
    BY <1>1, <1>3, <1>5
  <2> QED
    BY <1>2, <1>5, <2>1
<1>7. ToSet(e) = {e[k] : k \in 1..Cardinality(I)} /\ DOMAIN e = 1..Cardinality(I)
  BY <1>6, SetOfSeq
<1>8. ToSet(e) = {s[i] : i \in I}
  BY <1>3, <1>4, <1>5, <1>7
<1>9. Distinct(s) => Distinct(e)
  BY <1>3, <1>5, <1>7 DEF Distinct
<1> QED
  BY <1>6, <1>8, <1>9 DEF e

LEMMA FilteredSet ==
  ASSUME TypeOK, NEW ids, NEW not
  PROVE  /\ filtered(ids, not) \in Seq(Tasks)
         /\ ToSet(filtered(ids, not)) = {t \in ToSet(tasks) : t \in ids /\ status[t] \notin not}
<1> DEFINE I == {i \in DOMAIN tasks : tasks[i] \in ids /\ status[tasks[i]] \notin not}
<1>1. tasks \in Seq(Tasks) /\ I \subseteq DOMAIN tasks
  BY DEF TypeOK
<1>2. ToSet(tasks) = {tasks[i] : i \in DOMAIN tasks}
  BY DEF ToSet
<1>3. {tasks[i] : i \in I} = {t \in ToSet(tasks) : t \in ids /\ status[t] \notin not}
  BY <1>2
<1> QED
  BY <1>1, <1>3, EntriesSet DEF filtered

LEMMA WithoutSet ==
  ASSUME NEW S, NEW s \in Seq(S), NEW f \in Seq(S)
  PROVE  /\ without(s, f) \in Seq(S) /\ ToSet(without(s, f)) \subseteq ToSet(s)
         /\ Distinct(s) => Distinct(without(s, f)) /\ ToSet(without(s, f)) = ToSet(s) \ ToSet(f)
         /\ ToSet(s) \ ToSet(f) \subseteq ToSet(without(s, f))
<1> DEFINE I == {i \in DOMAIN s : s[i] \in ToSet(f) => \E j \in 1..(i - 1) : s[j] = s[i]}
<1>1. I \subseteq DOMAIN s /\ DOMAIN s = 1..Len(s) /\ Len(s) \in Nat
  BY SetOfSeq
<1>2. ToSet(s) = {s[i] : i \in DOMAIN s}
  BY DEF ToSet
<1>3. /\ without(s, f) \in Seq(S) /\ ToSet(without(s, f)) = {s[i] : i \in I}
      /\ Distinct(s) => Distinct(without(s, f))
  BY <1>1, EntriesSet DEF without
<1>4. ToSet(s) \ ToSet(f) \subseteq {s[i] : i \in I}
  BY <1>2
<1>5. ASSUME Distinct(s), NEW i \in I PROVE s[i] \notin ToSet(f)
  <2>1. \A j \in 1..(i - 1) : s[j] # s[i]
    BY <1>1, <1>5 DEF Distinct
  <2> QED
    BY <2>1
<1> QED
  BY <1>2, <1>3, <1>4, <1>5

----------------------------------------------------------------------------
(* Threads and what they are doing *)

LEMMA ThreadFacts ==
  /\ Notifier \in Threads /\ Notifier \notin Clients /\ Notifier # Nobody
  /\ \A c \in Clients : c \in Threads /\ c # Nobody /\ c # Notifier
  /\ \A th \in Threads : th \in Clients \/ th = Notifier
  /\ \A th \in Threads : th # Nobody /\ th # Ticker
<1> QED
  BY SchedulerConstants DEF SchedulerConstants, Threads

LEMMA CallTypes ==
  ASSUME TypeOK, NEW th \in Threads
  PROVE  /\ call[th] \in CallRecord
         /\ call[th].todo \in Seq(Tasks) /\ call[th].rest \in Seq(Tasks)
         /\ call[th].scan \in Seq(Tasks) /\ call[th].need \in Int
<1> QED
  BY DEF TypeOK, CallRecord

LEMMA Singleton ==
  ASSUME NEW t \in Tasks
  PROVE  /\ <<t>> \in Seq(Tasks) /\ Len(<<t>>) = 1 /\ Head(<<t>>) = t /\ <<t>> # <<>>
         /\ ToSet(<<t>>) = {t} /\ Tail(<<t>>) = <<>>
<1>1. <<t>> \in Seq(Tasks) /\ Len(<<t>>) = 1 /\ Head(<<t>>) = t /\ <<t>> # <<>> /\ Tail(<<t>>) = <<>>
  OBVIOUS
<1>2. ToSet(<<t>>) = {<<t>>[i] : i \in 1..1}
  BY <1>1, SetOfSeq
<1> QED
  BY <1>1, <1>2

\* A new record of a call.
LEMMA DoingTypes ==
  ASSUME NEW p \in {"idle", "pause", "picked", "start", "create", "run", "watch", "cleared",
                    "deletePicked", "delete", "deleteAll"},
         NEW s \in Seq(Tasks)
  PROVE  /\ doing(p, s) \in CallRecord /\ doing(p, s).pc = p /\ doing(p, s).todo = s
         /\ idle \in CallRecord /\ idle.pc = "idle" /\ idle.todo = <<>>
<1>1. <<>> \in Seq(Tasks)
  OBVIOUS
<1>2. idle \in CallRecord
  BY <1>1 DEF idle, CallRecord
<1>3. doing(p, s) \in CallRecord /\ doing(p, s).pc = p /\ doing(p, s).todo = s
  BY <1>2 DEF CallRecord, doing
<1> QED
  BY <1>2, <1>3 DEF idle

LEMMA DoingOne ==
  ASSUME NEW t \in Tasks
  PROVE  /\ doing("create", <<t>>) \in CallRecord
         /\ doing("create", <<t>>).pc = "create" /\ doing("create", <<t>>).todo = <<t>>
         /\ doing("run", <<t>>) \in CallRecord
         /\ doing("run", <<t>>).pc = "run" /\ doing("run", <<t>>).todo = <<t>>
<1> DEFINE s == <<t>>
<1>1. s \in Seq(Tasks)
  OBVIOUS
<1> HIDE DEF s
<1>2. doing("create", s) \in CallRecord /\ doing("create", s).pc = "create" /\ doing("create", s).todo = s
  BY <1>1, DoingTypes
<1>3. doing("run", s) \in CallRecord /\ doing("run", s).pc = "run" /\ doing("run", s).todo = s
  BY <1>1, DoingTypes
<1> QED
  BY <1>2, <1>3 DEF s

\* The call of one thread changes.
LEMMA CallSet ==
  ASSUME TypeOK, NEW th \in Threads, NEW r \in CallRecord, call' = [call EXCEPT ![th] = r]
  PROVE  /\ call' \in [Threads -> CallRecord] /\ call'[th] = r
         /\ \A u \in Threads : u # th => call'[u] = call[u]
<1> QED
  BY DEF TypeOK

\* The task a thread is at.
LEMMA TargetTypes ==
  ASSUME TypeOK, InHand, NEW th \in Threads, IsPausing(th) \/ IsStarting(th)
  PROVE  /\ target(th) \in Tasks
         /\ call[th].pc = "preempting" => target(th) = Head(call[th].scan)
         /\ call[th].pc # "preempting" => target(th) = Head(call[th].todo) /\ call[th].todo # <<>>
<1>1. call[th].pc = "preempting" => call[th].scan # <<>>
  BY DEF InHand
<1>2. call[th].pc # "preempting" => call[th].todo # <<>>
  BY DEF IsPausing, IsStarting
<1> QED
  BY <1>1, <1>2, CallTypes, TailSet DEF target

\* Where a thread goes after doStart or doPause of its target.
LEMMA ProceedCall ==
  ASSUME TypeOK, InHand, NEW th \in Threads, IsPausing(th) \/ IsStarting(th), Proceed(th)
  PROVE  /\ call' \in [Threads -> CallRecord]
         /\ \A u \in Threads : u # th => call'[u] = call[u]
         /\ call[th].pc = "preempting" =>
              /\ call'[th].pc = "setWait" /\ call'[th].todo = call[th].todo
              /\ call'[th].scan = call[th].scan
         /\ call[th].pc = "create" => call'[th].pc = "watch" /\ call'[th].todo = call[th].todo
         /\ call[th].pc = "run" => call'[th] = idle
         /\ call[th].pc \in {"pause", "pauseAll", "start"} =>
              call'[th].pc = call[th].pc /\ call'[th].todo = Tail(call[th].todo)
         /\ call[th].pc \in {"pause", "pauseAll", "start", "create", "run", "preempting"}
         /\ lock' = IF call[th].pc \in {"create", "run"} THEN Nobody ELSE lock
<1>1. call[th].pc \in {"pause", "pauseAll", "start", "create", "run", "preempting"}
  BY DEF IsPausing, IsStarting
<1>2. CASE call[th].pc = "preempting"
  <2> DEFINE r == [call[th] EXCEPT !.pc = "setWait"]
  <2>1. r \in CallRecord /\ r.pc = "setWait" /\ r.todo = call[th].todo /\ r.scan = call[th].scan
    BY CallTypes DEF CallRecord
  <2>2. call' = [call EXCEPT ![th] = r]
    BY <1>2 DEF Proceed, TypeOK
  <2> QED
    BY <1>2, <2>1, <2>2, CallSet DEF Proceed
<1>3. CASE call[th].pc = "create"
  <2> DEFINE r == [call[th] EXCEPT !.pc = "watch"]
  <2>1. r \in CallRecord /\ r.pc = "watch" /\ r.todo = call[th].todo
    BY CallTypes DEF CallRecord
  <2>2. call' = [call EXCEPT ![th] = r]
    BY <1>3 DEF Proceed, TypeOK
  <2> QED
    BY <1>3, <2>1, <2>2, CallSet DEF Proceed
<1>4. CASE call[th].pc = "run"
  <2>1. idle \in CallRecord
    BY DoingTypes, EmptySeq
  <2>2. call' = [call EXCEPT ![th] = idle]
    BY <1>4 DEF Proceed, TypeOK
  <2> QED
    BY <1>4, <2>1, <2>2, CallSet DEF Proceed
<1>5. CASE call[th].pc \in {"pause", "pauseAll", "start"}
  <2> DEFINE r == [call[th] EXCEPT !.todo = Tail(call[th].todo)]
  <2>1. call[th].todo # <<>>
    BY <1>5 DEF IsPausing, IsStarting
  <2>2. Tail(call[th].todo) \in Seq(Tasks)
    BY <2>1, CallTypes, TailSet
  <2>3. r \in CallRecord /\ r.pc = call[th].pc /\ r.todo = Tail(call[th].todo)
    BY <2>2, CallTypes DEF CallRecord
  <2>4. call[th].pc # "preempting" /\ call[th].pc # "create" /\ call[th].pc # "run"
    BY <1>5
  <2>5. call' = [call EXCEPT ![th] = r]
    BY <2>4 DEF Proceed
  <2> QED
    BY <1>5, <2>3, <2>5, CallSet DEF Proceed
<1> QED
  BY <1>1, <1>2, <1>3, <1>4, <1>5

----------------------------------------------------------------------------
(* Frames of the invariant *)

\* Where a client, and the notifier, holds d.lock, and where they may be at all.
Section(th) ==
  IF th = Notifier THEN call[th].pc = "run"
  ELSE call[th].pc \in {"create", "preempt", "preempting", "setWait", "deleting"}
Lawful(th) == IF th = Notifier THEN call[th].pc \in {"idle", "run"} ELSE call[th].pc # "run"

LEMMA LockHeldFacts ==
  LockHeld <=> \A th \in Threads : Lawful(th) /\ (lock = th <=> Section(th))
<1> QED
  BY ThreadFacts DEF LockHeld, Lawful, Section

\* One thread moves: it stays in or out of the section, enters it or leaves it.
LEMMA LockStep ==
  ASSUME LockHeld, NEW th \in Threads, \A u \in Threads : u # th => call'[u] = call[u],
         Lawful(th)',
         \/ lock' = lock /\ (Section(th)' <=> Section(th))
         \/ lock = Nobody /\ lock' = th /\ Section(th)'
         \/ lock = th /\ lock' = Nobody /\ ~Section(th)'
  PROVE  LockHeld'
<1>1. \A u \in Threads : Lawful(u) /\ (lock = u <=> Section(u))
  BY LockHeldFacts
<1>2. \A u \in Threads : u # th => (Lawful(u)' <=> Lawful(u)) /\ (Section(u)' <=> Section(u))
  BY DEF Lawful, Section
<1>3. \A u \in Threads : Lawful(u)' /\ (lock' = u <=> Section(u)')
  BY <1>1, <1>2, ThreadFacts
<1> QED
  BY <1>3, ThreadFacts DEF LockHeld, Lawful, Section

LEMMA HandStep ==
  ASSUME InHand, NEW th \in Threads, \A u \in Threads : u # th => call'[u] = call[u],
         call'[th].pc \in {"create", "run", "watch"} => Len(call'[th].todo) = 1,
         call'[th].pc \in {"preempting", "setWait", "deletePicked", "deleting"} => call'[th].scan # <<>>
  PROVE  InHand'
<1> QED
  BY DEF InHand

LEMMA ListedStep ==
  ASSUME ListedOnce, UNCHANGED tasks, \A t \in ToSet(tasks) : status[t] # "none" => status'[t] # "none"
  PROVE  ListedOnce'
<1> QED
  BY DEF ListedOnce

\* The list keeps its length, or grows, and no range over it has begun.
LEMMA WalkStep ==
  ASSUME TypeOK, WalkKept, UNCHANGED <<tasks, walk, missed>>
  PROVE  WalkKept'
<1> QED
  BY DEF WalkKept

\* Who waits is still known of: the queue only grew, and the notifier and
\* pauseAll drop a task only when it does not wait any more.
LEMMA WaitStep ==
  ASSUME WaitQueued, missed' \/ errors' # 0 \/ (~missed /\ errors = 0),
         ToSet(waitTasks) \subseteq ToSet(waitTasks'),
         \A t \in ToSet(tasks') :
           status'[t] = "wait" => t \in ToSet(waitTasks') \/ (t \in ToSet(tasks) /\ status[t] = "wait"),
         \/ call'[Notifier] = call[Notifier]
         \/ call[Notifier].pc # "run"
         \/ status'[target(Notifier)] # "wait",
         \A c \in Clients : \A t \in ToSet(tasks') :
           WillPause(c, t) /\ status'[t] = "wait" => WillPause(c, t)'
  PROVE  WaitQueued'
<1> SUFFICES ASSUME ~missed' /\ errors' = 0,
                    NEW t \in ToSet(tasks'), status'[t] = "wait", t \notin ToSet(waitTasks')
             PROVE  \/ call'[Notifier].pc = "run" /\ target(Notifier)' = t
                    \/ \E c \in Clients : WillPause(c, t)'
  BY DEF WaitQueued, AllQueued, Queued
<1>1. \/ call[Notifier].pc = "run" /\ target(Notifier) = t
      \/ \E c \in Clients : WillPause(c, t)
  BY DEF WaitQueued, AllQueued, Queued
<1>2. CASE call[Notifier].pc = "run" /\ target(Notifier) = t
  <2>1. call'[Notifier] = call[Notifier]
    BY <1>2
  <2>2. target(Notifier)' = target(Notifier)
    BY <2>1 DEF target
  <2> QED
    BY <1>2, <2>1, <2>2
<1>3. CASE \E c \in Clients : WillPause(c, t)
  BY <1>3
<1> QED
  BY <1>1, <1>2, <1>3

\* The pauseAll of a client that did not move, nor its list.
LEMMA WillPauseSame ==
  ASSUME NEW c, NEW t, call'[c] = call[c], walk'[c] = walk[c]
  PROVE  WillPause(c, t)' <=> WillPause(c, t)
<1> QED
  BY DEF WillPause

\* A client moves that is not in pauseAll.
LEMMA WaitClient ==
  ASSUME WaitQueued, UNCHANGED <<walk, missed, errors>>,
         ToSet(waitTasks) \subseteq ToSet(waitTasks'),
         \A t \in ToSet(tasks') :
           status'[t] = "wait" => t \in ToSet(waitTasks') \/ (t \in ToSet(tasks) /\ status[t] = "wait"),
         NEW c \in Clients, call[c].pc \notin {"cleared", "pauseAll"},
         \A u \in Threads : u # c => call'[u] = call[u]
  PROVE  WaitQueued'
<1>1. call'[Notifier] = call[Notifier] /\ \A d \in Clients : d # c => call'[d] = call[d]
  BY ThreadFacts
<1>2. ASSUME NEW d \in Clients, NEW t, WillPause(d, t) PROVE WillPause(d, t)'
  <2>1. d # c
    BY <1>2 DEF WillPause
  <2> QED
    BY <1>1, <1>2, <2>1, WillPauseSame
<1>3. CASE ~missed /\ errors = 0
  BY <1>1, <1>2, <1>3, WaitStep
<1>4. CASE ~(~missed /\ errors = 0)
  BY <1>4 DEF WaitQueued
<1> QED
  BY <1>3, <1>4

\* One of the steps of doStart and doPause.
LEMMA MutSInv ==
  ASSUME SInv, TypeOK', NEW th \in Threads, IsPausing(th) \/ IsStarting(th),
         UNCHANGED <<tasks, waitTasks, walk, missed>>,
         \/ UNCHANGED <<call, lock, status, errors>>
         \/ /\ Proceed(th)
            /\ \A t \in Tasks : t # target(th) => status'[t] = status[t]
            /\ status[target(th)] # "none" => status'[target(th)] # "none"
            /\ errors' # 0 \/ (UNCHANGED errors /\ status'[target(th)] # "wait")
  PROVE  SInv'
<1>0. WalkKept'
  BY WalkStep DEF SInv
<1>1. CASE UNCHANGED <<call, lock, status, errors>>
  BY <1>0, <1>1 DEF SInv, InHand, LockHeld, ListedOnce, WaitQueued, AllQueued, Queued, WillPause, target
<1>2. CASE /\ Proceed(th)
           /\ \A t \in Tasks : t # target(th) => status'[t] = status[t]
           /\ status[target(th)] # "none" => status'[target(th)] # "none"
           /\ errors' # 0 \/ (UNCHANGED errors /\ status'[target(th)] # "wait")
  <2> USE DEF SInv
  <2>1. /\ target(th) \in Tasks /\ ToSet(tasks) \subseteq Tasks
        /\ call[th].pc # "preempting" => target(th) = Head(call[th].todo) /\ call[th].todo # <<>>
    BY TargetTypes, SetOfSeq DEF TypeOK
  <2>2. /\ \A u \in Threads : u # th => call'[u] = call[u]
        /\ call[th].pc = "preempting" => call'[th].pc = "setWait" /\ call'[th].scan = call[th].scan
        /\ call[th].pc = "create" => call'[th].pc = "watch" /\ call'[th].todo = call[th].todo
        /\ call[th].pc = "run" => call'[th] = idle
        /\ call[th].pc \in {"pause", "pauseAll", "start"} =>
             call'[th].pc = call[th].pc /\ call'[th].todo = Tail(call[th].todo)
        /\ call[th].pc \in {"pause", "pauseAll", "start", "create", "run", "preempting"}
        /\ lock' = IF call[th].pc \in {"create", "run"} THEN Nobody ELSE lock
    BY <1>2, ProceedCall
  <2>3. idle.pc = "idle"
    BY DEF idle
  <2>4. InHand'
    <3>1. /\ call'[th].pc \in {"create", "run", "watch"} => Len(call'[th].todo) = 1
          /\ call'[th].pc \in {"preempting", "setWait", "deletePicked", "deleting"} =>
               call'[th].scan # <<>>
      BY <2>2, <2>3 DEF InHand
    <3> QED
      BY <2>2, <3>1, HandStep
  <2>5. LockHeld'
    <3>1. Lawful(th) /\ (lock = th <=> Section(th))
      BY LockHeldFacts
    <3>2. /\ Lawful(th)'
          /\ \/ lock' = lock /\ (Section(th)' <=> Section(th))
             \/ lock = th /\ lock' = Nobody /\ ~Section(th)'
      BY <2>2, <2>3, <3>1 DEF Lawful, Section
    <3> QED
      BY <2>2, <3>2, LockStep
  <2>6. ListedOnce'
    BY <1>2, <2>1, ListedStep
  <2>7. WaitQueued'
    <3> SUFFICES ASSUME ~missed', errors' = 0 PROVE WaitQueued'
      BY DEF WaitQueued
    <3>0. ~missed /\ errors = 0 /\ status'[target(th)] # "wait"
      BY <1>2
    <3>1. \/ call'[Notifier] = call[Notifier]
          \/ call[Notifier].pc # "run"
          \/ status'[target(Notifier)] # "wait"
      BY <2>2, <3>0, ThreadFacts
    <3>2. ASSUME NEW c \in Clients, NEW t \in ToSet(tasks'), WillPause(c, t), status'[t] = "wait"
          PROVE  WillPause(c, t)'
      <4>1. CASE c # th
        BY <2>2, <3>2, <4>1, ThreadFacts, WillPauseSame
      <4>2. CASE c = th
        <5>0. call[c].pc = "pauseAll" /\ call'[c].pc = "pauseAll" /\ call'[c].todo = Tail(call[c].todo)
          BY <2>2, <3>2, <4>2 DEF WillPause
        <5>1. ToSet(call[c].todo) = ToSet(Tail(call[c].todo)) \union {target(c)}
          BY <2>1, <5>0, <4>2, CallTypes, TailSet
        <5>2. t # target(c)
          BY <3>0, <3>2, <4>2
        <5> QED
          BY <3>2, <5>0, <5>1, <5>2 DEF WillPause
      <4> QED
        BY <4>1, <4>2
    <3>3. \A t \in ToSet(tasks') : status'[t] = "wait" => t \in ToSet(tasks) /\ status[t] = "wait"
      BY <1>2, <2>1, <3>0
    <3> QED
      BY <3>0, <3>1, <3>2, <3>3, WaitStep
  <2> QED
    BY <1>0, <2>4, <2>5, <2>6, <2>7
<1> QED
  BY <1>1, <1>2

LEMMA PauseChecksSInv ==
  ASSUME SInv, NEW th \in Threads, PauseChecks(th)
  PROVE  SInv'
<1>1. IsPausing(th) /\ target(th) \in Tasks
  BY TargetTypes DEF PauseChecks, SInv
<1>2. CASE status[target(th)] \in {"pause", "done"}
  <2>1. Proceed(th) /\ UNCHANGED <<tasks, waitTasks, status, walk, missed, errors>>
    BY <1>2 DEF PauseChecks, lists, walking, bounds
  <2>2. TypeOK'
    <3>1. call' \in [Threads -> CallRecord] /\ lock' \in Threads \union {Nobody}
      BY <1>1, <2>1, ProceedCall DEF SInv, TypeOK
    <3> QED
      BY <1>2, <3>1 DEF PauseChecks, SInv, TypeOK, lists, handlers, fetching, watching, walking, bounds
  <2> QED
    BY <1>1, <1>2, <2>1, <2>2, MutSInv
<1>3. CASE status[target(th)] \notin {"pause", "done"}
  <2>1. /\ UNCHANGED <<tasks, waitTasks, status, call, lock, walk, missed, errors>>
        /\ statusLock' = [statusLock EXCEPT ![target(th)] = th]
    BY <1>3 DEF PauseChecks, lists, walking, bounds
  <2>2. TypeOK'
    BY <1>1, <2>1 DEF PauseChecks, SInv, TypeOK, lists, handlers, fetching, watching, walking, bounds
  <2> QED
    BY <1>1, <2>1, <2>2, MutSInv
<1> QED
  BY <1>2, <1>3

LEMMA PauseSetsSInv ==
  ASSUME SInv, NEW th \in Threads, PauseSets(th)
  PROVE  SInv'
<1>1. IsPausing(th) /\ target(th) \in Tasks /\ Proceed(th)
  BY TargetTypes DEF PauseSets, SInv
<1>2. /\ status' = [status EXCEPT ![target(th)] = "pause"]
      /\ UNCHANGED <<tasks, waitTasks, walk, missed, errors>>
  BY DEF PauseSets, lists, walking, bounds
<1>3. TypeOK'
  <2>1. call' \in [Threads -> CallRecord] /\ lock' \in Threads \union {Nobody}
    BY <1>1, ProceedCall DEF SInv, TypeOK
  <2>2. /\ status' \in [Tasks -> Statuses] /\ pauses' \in [Tasks -> Nat]
        /\ statusLock' \in [Tasks -> Threads \union {Ticker, Nobody}]
    BY <1>1 DEF PauseSets, SInv, TypeOK, Statuses
  <2> QED
    BY <2>1, <2>2 DEF PauseSets, SInv, TypeOK, lists, fetching, watching, walking, bounds
<1>4. status'[target(th)] = "pause" /\ \A t \in Tasks : t # target(th) => status'[t] = status[t]
  BY <1>1, <1>2 DEF SInv, TypeOK
<1> QED
  BY <1>1, <1>2, <1>3, <1>4, MutSInv

LEMMA StartChecksSInv ==
  ASSUME SInv, NEW th \in Threads, StartChecks(th)
  PROVE  SInv'
<1>1. IsStarting(th) /\ target(th) \in Tasks
  BY TargetTypes DEF StartChecks, SInv
<1>2. CASE status[target(th)] \in {"running", "done"}
  <2>1. /\ Proceed(th)
        /\ UNCHANGED <<tasks, waitTasks, status, statusLock, fetcher, spawned, walk, missed, errors>>
    BY <1>2 DEF StartChecks, lists, walking, bounds
  <2>2. TypeOK'
    <3>1. call' \in [Threads -> CallRecord] /\ lock' \in Threads \union {Nobody}
      BY <1>1, <2>1, ProceedCall DEF SInv, TypeOK
    <3> QED
      BY <2>1, <3>1 DEF StartChecks, SInv, TypeOK, handlers, fetching, walking, bounds
  <2> QED
    BY <1>1, <1>2, <2>1, <2>2, MutSInv
<1>3. CASE status[target(th)] \notin {"running", "done"}
  <2>1. /\ UNCHANGED <<tasks, waitTasks, status, call, lock, walk, missed, errors>>
        /\ statusLock' = [statusLock EXCEPT ![target(th)] = th]
        /\ fetcher' = [fetcher EXCEPT ![target(th)] = IF @ = "none" THEN "idle" ELSE @]
        /\ spawned' = [spawned EXCEPT ![target(th)] = @ + 1]
    BY <1>3 DEF StartChecks, lists, walking, bounds
  <2>2. fetcher' \in [Tasks -> {"none", "idle", "active", "done", "failed"}]
    BY <1>1, <2>1 DEF SInv, TypeOK
  <2>3. TypeOK'
    BY <1>1, <2>1, <2>2 DEF StartChecks, SInv, TypeOK, handlers, fetching, walking, bounds
  <2> QED
    BY <1>1, <2>1, <2>3, MutSInv
<1> QED
  BY <1>2, <1>3

LEMMA StartSetsSInv ==
  ASSUME SInv, NEW th \in Threads, StartSets(th)
  PROVE  SInv'
<1>1. IsStarting(th) /\ target(th) \in Tasks /\ Proceed(th)
  BY TargetTypes DEF StartSets, SInv
<1>2. /\ status' = [status EXCEPT ![target(th)] = "running"]
      /\ UNCHANGED <<tasks, waitTasks, walk, missed, errors>>
  BY DEF StartSets, lists, walking, bounds
<1>3. TypeOK'
  <2>1. call' \in [Threads -> CallRecord] /\ lock' \in Threads \union {Nobody}
    BY <1>1, ProceedCall DEF SInv, TypeOK
  <2>2. /\ status' \in [Tasks -> Statuses] /\ starts' \in [Tasks -> Nat]
        /\ statusLock' \in [Tasks -> Threads \union {Ticker, Nobody}]
    BY <1>1 DEF StartSets, SInv, TypeOK, Statuses
  <2> QED
    BY <2>1, <2>2 DEF StartSets, SInv, TypeOK, lists, fetching, watching, walking, bounds
<1>4. status'[target(th)] = "running" /\ \A t \in Tasks : t # target(th) => status'[t] = status[t]
  BY <1>1, <1>2 DEF SInv, TypeOK
<1> QED
  BY <1>1, <1>2, <1>3, <1>4, MutSInv

----------------------------------------------------------------------------
(* The goroutines of the downloader *)

\* A step that leaves the lists, the calls and d.lock alone, and sets no task waiting.
LEMMA AsideSInv ==
  ASSUME SInv, TypeOK', UNCHANGED <<tasks, waitTasks, call, lock, walk, missed, errors>>,
         \A t \in Tasks : status'[t] = status[t] \/ status'[t] \in {"error", "done"}
  PROVE  SInv'
<1> USE DEF SInv
<1>1. ToSet(tasks) \subseteq Tasks
  BY SetOfSeq DEF TypeOK
<1>2. InHand' /\ LockHeld'
  BY DEF InHand, LockHeld
<1>3. ListedOnce'
  BY <1>1, ListedStep
<1>4. WalkKept'
  BY WalkStep
<1>5. ASSUME NEW c, NEW t, WillPause(c, t) PROVE WillPause(c, t)'
  BY <1>5, WillPauseSame
<1>6. WaitQueued'
  <2>1. CASE ~missed /\ errors = 0
    BY <1>1, <1>5, <2>1, WaitStep
  <2>2. CASE ~(~missed /\ errors = 0)
    BY <2>2 DEF WaitQueued
  <2> QED
    BY <2>1, <2>2
<1> QED
  BY <1>2, <1>3, <1>4, <1>6

LEMMA HandlerSInv ==
  ASSUME SInv, NEW t \in Tasks, HandlerStep(t)
  PROVE  SInv'
<1> USE DEF SInv, lists, locks, handlers, fetching, watching, walking, bounds
<1>1. CASE StartHandled(t)
  <2>1. /\ starts' \in [Tasks -> Nat] /\ failing' \in [Tasks -> Nat] /\ fails' \in Nat
        /\ status' \in [Tasks -> Statuses] /\ fetcher' \in [Tasks -> {"none", "idle", "active", "done", "failed"}]
        /\ doneCh' \in [Tasks -> {"empty", "ok", "err"}]
        /\ \A u \in Tasks : status'[u] = status[u] \/ status'[u] \in {"error", "done"}
    <3>1. starts' \in [Tasks -> Nat]
      BY <1>1 DEF StartHandled, TypeOK
    <3>2. CASE /\ fetcher' = [fetcher EXCEPT ![t] = "active"]
               /\ doneCh' = [doneCh EXCEPT ![t] = IF fetcher[t] = "failed" THEN "empty" ELSE @]
               /\ UNCHANGED <<status, failing, fails>>
      BY <3>1, <3>2 DEF TypeOK
    <3>3. CASE /\ fails' = IF fetcher[t] = "done" THEN fails ELSE fails + 1
               /\ status' = [status EXCEPT ![t] = "error"]
               /\ failing' = [failing EXCEPT ![t] = @ + 1]
               /\ UNCHANGED fetching
      BY <3>1, <3>3 DEF TypeOK, Statuses
    <3> QED
      BY <1>1, <3>2, <3>3 DEF StartHandled
  <2>2. TypeOK' /\ UNCHANGED <<tasks, waitTasks, call, lock, walk, missed, errors>>
    BY <1>1, <2>1 DEF StartHandled, TypeOK
  <2> QED
    BY <2>1, <2>2, AsideSInv
<1>2. CASE StartReports(t)
  <2>1. TypeOK' /\ UNCHANGED <<tasks, waitTasks, call, lock, status, walk, missed, errors>>
    BY <1>2 DEF StartReports, notifiesAfterError, TypeOK
  <2> QED
    BY <2>1, AsideSInv
<1>3. CASE PauseHandled(t)
  <2>0. fetcher' \in [Tasks -> {"none", "idle", "active", "done", "failed"}] /\ pauses' \in [Tasks -> Nat]
    BY <1>3 DEF PauseHandled, closed, TypeOK
  <2>1. TypeOK' /\ UNCHANGED <<tasks, waitTasks, call, lock, status, walk, missed, errors>>
    BY <1>3, <2>0 DEF PauseHandled, TypeOK
  <2> QED
    BY <2>1, AsideSInv
<1> QED
  BY <1>1, <1>2, <1>3 DEF HandlerStep

LEMMA WatchSInv ==
  ASSUME SInv, NEW t \in Tasks, WatchStep(t) \/ FetcherEnds(t)
  PROVE  SInv'
<1> USE DEF SInv, lists, locks, handlers, fetching, watching, walking, bounds
<1>1. CASE WatchBegins(t)
  <2>1. TypeOK' /\ UNCHANGED <<tasks, waitTasks, call, lock, status, walk, missed, errors>>
    BY <1>1 DEF WatchBegins, TypeOK
  <2> QED
    BY <2>1, AsideSInv
<1>2. CASE WatchFails(t)
  <2>1. /\ TypeOK' /\ UNCHANGED <<tasks, waitTasks, call, lock, walk, missed, errors>>
        /\ \A u \in Tasks : status'[u] = status[u] \/ status'[u] \in {"error", "done"}
    BY <1>2 DEF WatchFails, TypeOK, Statuses
  <2> QED
    BY <2>1, AsideSInv
<1>3. CASE WatchReports(t)
  <2>1. TypeOK' /\ UNCHANGED <<tasks, waitTasks, call, lock, status, walk, missed, errors>>
    BY <1>3 DEF WatchReports, notifiesAfterError, TypeOK
  <2> QED
    BY <2>1, AsideSInv
<1>4. CASE WatchFinds(t)
  <2>1. TypeOK' /\ UNCHANGED <<tasks, waitTasks, call, lock, status, walk, missed, errors>>
    BY <1>4 DEF WatchFinds, TypeOK
  <2> QED
    BY <2>1, AsideSInv
<1>5. CASE WatchDone(t)
  <2>1. /\ TypeOK' /\ UNCHANGED <<tasks, waitTasks, call, lock, walk, missed, errors>>
        /\ \A u \in Tasks : status'[u] = status[u] \/ status'[u] \in {"error", "done"}
    BY <1>5 DEF WatchDone, TypeOK, Statuses
  <2> QED
    BY <2>1, AsideSInv
<1>6. CASE WatchEnds(t)
  <2>1. TypeOK' /\ UNCHANGED <<tasks, waitTasks, call, lock, status, walk, missed, errors>>
    BY <1>6 DEF WatchEnds, TypeOK
  <2> QED
    BY <2>1, AsideSInv
<1>7. CASE FetcherEnds(t)
  <2>1. /\ fetcher' \in [Tasks -> {"none", "idle", "active", "done", "failed"}] /\ fails' \in Nat
        /\ doneCh' \in [Tasks -> {"empty", "ok", "err"}]
    <3>1. CASE fetcher' = [fetcher EXCEPT ![t] = "done"] /\ doneCh' = [doneCh EXCEPT ![t] = "ok"] /\ UNCHANGED fails
      BY <3>1 DEF TypeOK
    <3>2. CASE fails' = fails + 1 /\ fetcher' = [fetcher EXCEPT ![t] = "failed"] /\ doneCh' = [doneCh EXCEPT ![t] = "err"]
      BY <3>2 DEF TypeOK
    <3> QED
      BY <1>7, <3>1, <3>2 DEF FetcherEnds
  <2>2. TypeOK' /\ UNCHANGED <<tasks, waitTasks, call, lock, status, walk, missed, errors>>
    BY <1>7, <2>1 DEF FetcherEnds, TypeOK
  <2> QED
    BY <2>2, AsideSInv
<1> QED
  BY <1>1, <1>2, <1>3, <1>4, <1>5, <1>6, <1>7 DEF WatchStep

LEMMA TickSInv ==
  ASSUME SInv, NEW t \in Tasks, TickLocks(t) \/ TickEnds(t)
  PROVE  SInv'
<1>1. TypeOK' /\ UNCHANGED <<tasks, waitTasks, call, lock, status, walk, missed, errors>>
  BY DEF TickLocks, TickEnds, SInv, TypeOK, lists, handlers, fetching, watching, walking, bounds
<1> QED
  BY <1>1, AsideSInv

LEMMA notifyRunningSInv ==
  ASSUME SInv, notifyRunning
  PROVE  SInv'
<1> USE DEF SInv, lists, locks, handlers, fetching, watching, walking, bounds
<1>1. CASE noSlotLeft \/ waitTasks = <<>>
  <2>1. TypeOK' /\ UNCHANGED <<tasks, waitTasks, call, lock, status, walk, missed, errors>>
    BY <1>1 DEF notifyRunning, TypeOK
  <2> QED
    BY <2>1, AsideSInv
<1>2. CASE ~(noSlotLeft \/ waitTasks = <<>>)
  <2> DEFINE w == Head(waitTasks)
  <2>1. /\ waitTasks # <<>> /\ waitTasks' = Tail(waitTasks) /\ lock = Nobody /\ lock' = Notifier
        /\ call' = [call EXCEPT ![Notifier] = doing("run", <<w>>)]
        /\ UNCHANGED <<tasks, status, walk, missed, errors>>
    BY <1>2 DEF notifyRunning
  <2>2. /\ w \in Tasks /\ Tail(waitTasks) \in Seq(Tasks)
        /\ ToSet(waitTasks) = ToSet(Tail(waitTasks)) \union {w}
    BY <2>1, TailSet DEF TypeOK
  <2> HIDE DEF w
  <2>3. /\ <<w>> \in Seq(Tasks) /\ Len(<<w>>) = 1 /\ Head(<<w>>) = w
    BY <2>2, Singleton
  <2>4. /\ call' \in [Threads -> CallRecord] /\ call'[Notifier].pc = "run" /\ call'[Notifier].todo = <<w>>
        /\ \A u \in Threads : u # Notifier => call'[u] = call[u]
    <3>1. /\ doing("run", <<w>>) \in CallRecord
          /\ doing("run", <<w>>).pc = "run" /\ doing("run", <<w>>).todo = <<w>>
      BY <2>3, DoingTypes, Zenon
    <3> QED
      BY <2>1, <3>1, CallSet, ThreadFacts
  <2>5. TypeOK'
    <3>1. notifies' \in Nat
      BY DEF notifyRunning, TypeOK
    <3>2. waitTasks' \in Seq(Tasks) /\ lock' \in Threads \union {Nobody}
      BY <2>1, <2>2, ThreadFacts
    <3>3. UNCHANGED <<tasks, maxRunning, status, statusLock, handlers, fetching, watching, walking, bounds>>
      BY DEF notifyRunning
    <3> QED
      BY <2>4, <3>1, <3>2, <3>3 DEF TypeOK
  <2>6. InHand'
    BY <2>3, <2>4, HandStep, ThreadFacts
  <2>7. LockHeld'
    BY <2>1, <2>4, LockStep, ThreadFacts DEF Lawful, Section
  <2>8. ListedOnce'
    BY <2>1 DEF ListedOnce
  <2>9. target(Notifier)' = w
    BY <2>3, <2>4 DEF target
  <2>10. call[Notifier].pc # "run"
    BY <2>1, ThreadFacts DEF LockHeld
  <2>11. WaitQueued'
    <3>1. ASSUME NEW d \in Clients, NEW t PROVE WillPause(d, t)' <=> WillPause(d, t)
      BY <2>1, <2>4, ThreadFacts, WillPauseSame
    <3> QED
      BY <2>1, <2>2, <2>4, <2>9, <2>10, <3>1 DEF WaitQueued, AllQueued, Queued
  <2>12. WalkKept'
    BY <2>1, WalkStep
  <2> QED
    BY <2>5, <2>6, <2>7, <2>8, <2>11, <2>12
<1> QED
  BY <1>1, <1>2

----------------------------------------------------------------------------
(* The calls *)

\* A client that is not in a section of d.lock goes on, keeping the lists' promises.
LEMMA ClientSInv ==
  ASSUME SInv, TypeOK', ListedOnce', WaitQueued', WalkKept', NEW c \in Clients,
         \A u \in Threads : u # c => call'[u] = call[u],
         \/ /\ lock' = lock
            /\ call[c].pc \notin {"create", "preempt", "preempting", "setWait", "deleting"}
            /\ call'[c].pc \notin {"create", "preempt", "preempting", "setWait", "deleting", "run", "watch"}
            /\ call'[c].pc = "deletePicked" => call'[c].scan # <<>>
         \/ /\ lock' = lock
            /\ call[c].pc \notin {"create", "preempt", "preempting", "setWait", "deleting"}
            /\ call'[c].pc = "watch" /\ Len(call'[c].todo) = 1
         \/ /\ lock = Nobody /\ lock' = c
            /\ call'[c].pc = "create" /\ Len(call'[c].todo) = 1
         \/ /\ lock = Nobody /\ lock' = c /\ call'[c].pc = "preempt"
         \/ /\ lock' = lock /\ call[c].pc \in {"create", "preempt", "preempting", "setWait", "deleting"}
            /\ call'[c].pc = "preempt"
         \/ /\ lock' = lock /\ call[c].pc \in {"create", "preempt", "preempting", "setWait", "deleting"}
            /\ call'[c].pc \in {"preempting", "deleting"} /\ call'[c].scan # <<>>
         \/ /\ lock = Nobody /\ lock' = c /\ call'[c].pc = "deleting" /\ call'[c].scan # <<>>
         \/ /\ call[c].pc \in {"create", "preempt", "preempting", "setWait", "deleting"} /\ lock' = Nobody
            /\ call'[c].pc \notin {"create", "preempt", "preempting", "setWait", "deleting", "run",
                                  "watch", "deletePicked"}
  PROVE  SInv'
<1>1. c \in Threads /\ c # Notifier /\ (lock = c <=> Section(c))
  BY LockHeldFacts, ThreadFacts DEF SInv
<1>2. InHand'
  BY <1>1, HandStep DEF SInv
<1>3. Lawful(c)'
  BY <1>1 DEF Lawful
<1>4. \/ lock' = lock /\ (Section(c)' <=> Section(c))
      \/ lock = Nobody /\ lock' = c /\ Section(c)'
      \/ lock = c /\ lock' = Nobody /\ ~Section(c)'
  BY <1>1 DEF Section
<1>5. LockHeld'
  BY <1>1, <1>3, <1>4, LockStep DEF SInv
<1> QED
  BY <1>2, <1>5 DEF SInv

\* restoreTask refuses: a Continue is over, the notifier leaves d.lock.
LEMMA StartFailsSInv ==
  ASSUME SInv, NEW th \in Threads, StartFails(th)
  PROVE  SInv'
<1> USE DEF SInv
<1>1. /\ IsStarting(th) /\ target(th) \in Tasks /\ errors' = errors + 1 /\ errors' # 0
      /\ UNCHANGED <<tasks, waitTasks, maxRunning, status, statusLock, notifies, handlers, fetching,
                     watching, walk, missed, calls, fails>>
  BY TargetTypes DEF StartFails, lists, walking, TypeOK
<1>2. CASE call[th].pc = "start"
  <2> DEFINE q == [call[th] EXCEPT !.todo = <<>>]
  <2>1. th \in Clients
    BY <1>2, ThreadFacts DEF LockHeld
  <2>2. q \in CallRecord /\ q.pc = "start"
    BY <1>2, CallTypes, EmptySeq DEF CallRecord
  <2> HIDE DEF q
  <2>3. call' = [call EXCEPT ![th] = q] /\ lock' = lock
    BY <1>2 DEF StartFails, q, TypeOK
  <2>4. /\ call' \in [Threads -> CallRecord] /\ call'[th].pc = "start"
        /\ \A u \in Threads : u # th => call'[u] = call[u]
    BY <2>2, <2>3, CallSet
  <2>5. TypeOK'
    BY <1>1, <2>3, <2>4 DEF TypeOK, handlers, fetching, watching
  <2>6. ListedOnce' /\ WaitQueued' /\ WalkKept'
    BY <1>1, WalkStep DEF ListedOnce, WaitQueued
  <2> QED
    BY <1>2, <2>1, <2>3, <2>4, <2>5, <2>6, ClientSInv
<1>3. CASE call[th].pc # "start"
  <2>1. Proceed(th)
    BY <1>3 DEF StartFails
  <2>2. call' \in [Threads -> CallRecord] /\ lock' \in Threads \union {Nobody}
    BY <1>1, <2>1, ProceedCall DEF TypeOK
  <2>3. TypeOK'
    BY <1>1, <2>2 DEF TypeOK, handlers, fetching, watching
  <2> QED
    BY <1>1, <2>1, <2>3, MutSInv
<1> QED
  BY <1>2, <1>3

LEMMA CountTypes ==
  ASSUME TypeOK
  PROVE  /\ IsFiniteSet(Running) /\ Cardinality(Running) \in Nat /\ Running \subseteq Tasks
         /\ maxRunning \in Nat \ {0} /\ remainRunningCount \in Int
<1>1. Running \subseteq Tasks
  BY SetOfSeq DEF Running, TypeOK
<1>2. IsFiniteSet(Running) /\ Cardinality(Running) \in Nat
  BY <1>1, FS_Subset, FS_CardinalityType, SchedulerConstants DEF SchedulerConstants
<1>3. maxRunning \in Nat \ {0}
  BY SchedulerConstants DEF SchedulerConstants, TypeOK
<1> QED
  BY <1>1, <1>2, <1>3 DEF remainRunningCount

\* A prefix of the tasks found, and the rest.
LEMMA SplitTypes ==
  ASSUME NEW s \in Seq(Tasks), NEW n \in 0..Len(s)
  PROVE  /\ SubSeq(s, 1, n) \in Seq(Tasks) /\ SubSeq(s, n + 1, Len(s)) \in Seq(Tasks)
         /\ ToSet(SubSeq(s, n + 1, Len(s))) \subseteq Tasks
<1>1. Len(s) \in Nat /\ \A i \in 1..Len(s) : s[i] \in Tasks
  BY LenProperties, ElementOfSeq
<1>2. SubSeq(s, 1, n) \in Seq(Tasks)
  BY <1>1, SubSeqProperties
<1>3. SubSeq(s, n + 1, Len(s)) \in Seq(Tasks)
  BY <1>1, SubSeqProperties
<1> QED
  BY <1>2, <1>3, SetOfSeq

\* A call that begins with some tasks to go through, and leaves the lists alone.
LEMMA BeginSInv ==
  ASSUME SInv, NEW c \in Clients, NEW op, Calls(c, op), NEW r \in CallRecord,
         r.pc \in {"pause", "picked", "start", "deletePicked", "cleared"},
         r.pc = "deletePicked" => r.scan # <<>>,
         call' = [call EXCEPT ![c] = r],
         UNCHANGED <<tasks, status, lock, walk, missed>>,
         UNCHANGED waitTasks \/ (r.pc = "cleared" /\ waitTasks' = <<>>)
  PROVE  SInv'
<1> USE DEF SInv
<1>1. /\ call' \in [Threads -> CallRecord] /\ call'[c] = r
      /\ \A u \in Threads : u # c => call'[u] = call[u]
  BY CallSet, ThreadFacts
<1>2. call[c].pc = "idle" /\ calls' \in Nat /\ UNCHANGED errors
  BY DEF Calls, TypeOK
<1>3. TypeOK'
  BY <1>1, <1>2, EmptySeq DEF Calls, TypeOK, handlers, fetching, watching
<1>4. ListedOnce' /\ WalkKept'
  BY WalkStep DEF ListedOnce
<1>5. WaitQueued'
  <2>1. CASE UNCHANGED waitTasks
    BY <1>1, <1>2, <2>1, WaitClient
  <2>2. CASE r.pc = "cleared"
    BY <1>1, <2>2 DEF WaitQueued, AllQueued, Queued, WillPause
  <2> QED
    BY <2>1, <2>2
<1> QED
  BY <1>1, <1>2, <1>3, <1>4, <1>5, ClientSInv

\* append in the array of a pauseAll: no task of it is overwritten, unless a Delete
\* has made room.
LEMMA AppendedWalk ==
  ASSUME SInv, NEW d \in Clients, NEW t \in Tasks, NEW moved \in BOOLEAN
  PROVE  LET w == appended(walk[d], t, moved) IN
         /\ w \in WalkRecord /\ (w.shared => walk[d].shared) /\ w.next = walk[d].next
         /\ ~missed => w.view = walk[d].view
<1> DEFINE v == walk[d].view
           n == Len(tasks) + 1
           e == [v EXCEPT ![n] = t]
           w == appended(walk[d], t, moved)
<1>1. /\ walk[d] \in WalkRecord /\ v \in Seq(Tasks) /\ Len(v) \in Nat /\ Len(tasks) \in Nat
      /\ walk[d].next \in Nat \ {0} /\ walk[d].shared \in BOOLEAN
  BY LenProperties DEF SInv, TypeOK, WalkRecord
<1>2. CASE ~walk[d].shared
  BY <1>1, <1>2 DEF appended
<1>3. CASE walk[d].shared /\ moved
  BY <1>1, <1>3 DEF appended, WalkRecord
<1>4. CASE walk[d].shared /\ ~moved /\ Len(tasks) < Len(v)
  <2>1. n \in 1..Len(v) /\ v \in [1..Len(v) -> Tasks]
    BY <1>1, <1>4, LenProperties
  <2>2. e \in [1..Len(v) -> Tasks]
    BY <2>1
  <2>3. e \in Seq(Tasks)
    BY <1>1, <2>2
  <2> HIDE DEF v, n, e
  <2>4. w = [walk[d] EXCEPT !.view = e]
    <3>1. w = [walk[d] EXCEPT !.view[n] = t]
      BY <1>4 DEF appended, v, n
    <3> QED
      BY <1>1, <3>1 DEF e, v, WalkRecord
  <2>5. missed
    BY <1>1, <1>4 DEF SInv, WalkKept, TypeOK, v
  <2> HIDE DEF w
  <2>6. w \in WalkRecord /\ w.shared = walk[d].shared /\ w.next = walk[d].next
    BY <1>1, <2>3, <2>4 DEF WalkRecord
  <2> QED
    BY <2>5, <2>6 DEF w
<1>5. CASE walk[d].shared /\ ~moved /\ ~(Len(tasks) < Len(v))
  BY <1>1, <1>5 DEF appended
<1> QED
  BY <1>1, <1>2, <1>3, <1>4, <1>5

LEMMA doCreateSInv ==
  ASSUME SInv, NEW c \in Clients, NEW t \in Tasks, doCreate(c, t)
  PROVE  SInv'
<1> USE DEF SInv
<1>1. /\ call[c].pc = "idle" /\ lock = Nobody /\ calls' \in Nat /\ status[t] = "none"
      /\ UNCHANGED <<maxRunning, statusLock, notifies, handlers, fetching, watching, fails, missed, errors>>
  BY DEF doCreate, Calls, TypeOK
<1>2. tasks' = Append(tasks, t) /\ t \notin ToSet(tasks)
  BY <1>1 DEF doCreate, ListedOnce
<1>3. /\ tasks' \in Seq(Tasks) /\ ToSet(tasks') = ToSet(tasks) \union {t} /\ ToSet(tasks) \subseteq Tasks
      /\ Distinct(tasks') /\ Len(tasks') = Len(tasks) + 1 /\ Len(tasks) \in Nat
  BY <1>2, AppendSet, SetOfSeq, AppendProperties DEF TypeOK, ListedOnce
<1>4. /\ <<t>> \in Seq(Tasks) /\ Len(<<t>>) = 1
  BY Singleton
<1>5. /\ doing("watch", <<t>>) \in CallRecord
      /\ doing("watch", <<t>>).pc = "watch" /\ doing("watch", <<t>>).todo = <<t>>
      /\ doing("create", <<t>>) \in CallRecord
      /\ doing("create", <<t>>).pc = "create" /\ doing("create", <<t>>).todo = <<t>>
  <2>1. /\ doing("watch", <<t>>) \in CallRecord
        /\ doing("watch", <<t>>).pc = "watch" /\ doing("watch", <<t>>).todo = <<t>>
    BY <1>4, DoingTypes, Zenon
  <2>2. /\ doing("create", <<t>>) \in CallRecord
        /\ doing("create", <<t>>).pc = "create" /\ doing("create", <<t>>).todo = <<t>>
    BY DoingOne
  <2> QED
    BY <2>1, <2>2
<1>6. /\ walk' \in [Clients -> WalkRecord]
      /\ \A d \in Clients : /\ walk'[d].shared => walk[d].shared
                            /\ walk'[d].next = walk[d].next
                            /\ ~missed => walk'[d].view = walk[d].view
  <2>1. PICK moved \in BOOLEAN : walk' = [d \in Clients |-> appended(walk[d], t, moved)]
    BY DEF doCreate
  <2> QED
    BY <2>1, AppendedWalk
<1>7. WalkKept'
  <2> SUFFICES ASSUME ~missed, NEW d \in Clients, walk[d].shared
               PROVE  Len(walk[d].view) <= Len(tasks')
    BY <1>1, <1>6 DEF WalkKept
  <2>1. Len(walk[d].view) <= Len(tasks) /\ Len(walk[d].view) \in Nat
    BY LenProperties DEF WalkKept, TypeOK, WalkRecord
  <2> QED
    BY <1>3, <2>1
<1>8. ASSUME ~missed', \A u \in Threads : u # c => call'[u] = call[u],
             NEW d \in Clients, NEW u, WillPause(d, u)
      PROVE  WillPause(d, u)'
  <2>1. d # c /\ call'[d] = call[d] /\ walk'[d].view = walk[d].view /\ walk'[d].next = walk[d].next
    <3>1. call[d].pc \in {"cleared", "pauseAll"}
      BY <1>8 DEF WillPause
    <3>2. d # c /\ ~missed
      BY <1>1, <1>8, <3>1
    <3> QED
      BY <1>6, <1>8, <3>2, ThreadFacts
  <2> QED
    BY <1>8, <2>1 DEF WillPause
<1>9. CASE noSlotLeft
  <2>1. /\ status' = [status EXCEPT ![t] = "wait"] /\ waitTasks' = Append(waitTasks, t) /\ lock' = lock
        /\ call' = [call EXCEPT ![c] = doing("watch", <<t>>)]
    BY <1>9 DEF doCreate
  <2>2. /\ call' \in [Threads -> CallRecord] /\ call'[c].pc = "watch" /\ call'[c].todo = <<t>>
        /\ \A u \in Threads : u # c => call'[u] = call[u]
    BY <1>5, <2>1, CallSet, ThreadFacts
  <2>3. waitTasks' \in Seq(Tasks) /\ ToSet(waitTasks') = ToSet(waitTasks) \union {t}
    BY <2>1, AppendSet DEF TypeOK
  <2>4. /\ status' \in [Tasks -> Statuses] /\ status'[t] = "wait"
        /\ \A u \in Tasks : u # t => status'[u] = status[u]
    BY <2>1 DEF TypeOK, Statuses
  <2>5. TypeOK'
    BY <1>1, <1>3, <1>6, <2>1, <2>2, <2>3, <2>4 DEF TypeOK, handlers, fetching, watching
  <2>6. ListedOnce'
    BY <1>3, <2>4 DEF ListedOnce
  <2>7. WaitQueued'
    <3> SUFFICES ASSUME ~missed', errors' = 0 PROVE WaitQueued'
      BY DEF WaitQueued
    <3>1. call'[Notifier] = call[Notifier] /\ \A d \in Clients : \A u : WillPause(d, u) => WillPause(d, u)'
      BY <1>8, <2>2, ThreadFacts
    <3> QED
      BY <1>1, <1>3, <2>3, <2>4, <3>1, WaitStep
  <2> QED
    BY <1>1, <1>4, <1>7, <2>1, <2>2, <2>5, <2>6, <2>7, ClientSInv
<1>10. CASE ~noSlotLeft
  <2>1. /\ status' = [status EXCEPT ![t] = newStatus] /\ waitTasks' = waitTasks /\ lock' = c
        /\ call' = [call EXCEPT ![c] = doing("create", <<t>>)]
    BY <1>10 DEF doCreate
  <2>2. /\ call' \in [Threads -> CallRecord] /\ call'[c].pc = "create" /\ call'[c].todo = <<t>>
        /\ \A u \in Threads : u # c => call'[u] = call[u]
    BY <1>5, <2>1, CallSet, ThreadFacts
  <2>4. /\ status' \in [Tasks -> Statuses] /\ status'[t] = "ready"
        /\ \A u \in Tasks : u # t => status'[u] = status[u]
    BY <2>1 DEF TypeOK, Statuses, newStatus
  <2>5. TypeOK'
    BY <1>1, <1>3, <1>6, <2>1, <2>2, <2>4, ThreadFacts DEF TypeOK, handlers, fetching, watching
  <2>6. ListedOnce'
    BY <1>3, <2>4 DEF ListedOnce
  <2>7. WaitQueued'
    <3> SUFFICES ASSUME ~missed', errors' = 0 PROVE WaitQueued'
      BY DEF WaitQueued
    <3>1. call'[Notifier] = call[Notifier] /\ \A d \in Clients : \A u : WillPause(d, u) => WillPause(d, u)'
      BY <1>8, <2>2, ThreadFacts
    <3> QED
      BY <1>1, <1>3, <2>1, <2>4, <3>1, WaitStep
  <2> QED
    BY <1>1, <1>4, <1>7, <2>1, <2>2, <2>5, <2>6, <2>7, ClientSInv
<1> QED
  BY <1>9, <1>10

LEMMA deleteAllSInv ==
  ASSUME SInv, NEW c \in Clients, deleteAll(c)
  PROVE  SInv'
<1> USE DEF SInv
<1>1. /\ call[c].pc = "idle" /\ lock = Nobody /\ calls' \in Nat
      /\ UNCHANGED <<maxRunning, statusLock, notifies, handlers, fetching, watching, fails, errors,
                     status, lock, missed>>
      /\ tasks' = <<>> /\ waitTasks' = <<>> /\ call' = [call EXCEPT ![c] = doing("deleteAll", tasks)]
      /\ walk' = [d \in Clients |-> [walk[d] EXCEPT !.shared = FALSE]]
  BY DEF deleteAll, Calls, TypeOK
<1>2. /\ call' \in [Threads -> CallRecord] /\ call'[c].pc = "deleteAll"
      /\ \A u \in Threads : u # c => call'[u] = call[u]
  <2>1. doing("deleteAll", tasks) \in CallRecord /\ doing("deleteAll", tasks).pc = "deleteAll"
    BY DoingTypes DEF TypeOK
  <2> QED
    BY <1>1, <2>1, CallSet, ThreadFacts
<1>3. walk' \in [Clients -> WalkRecord] /\ \A d \in Clients : walk'[d].shared = FALSE
  BY <1>1 DEF TypeOK, WalkRecord
<1>4. TypeOK'
  BY <1>1, <1>2, <1>3, EmptySeq DEF TypeOK, handlers, fetching, watching
<1>5. ListedOnce' /\ WaitQueued' /\ WalkKept'
  BY <1>1, <1>3, EmptySet DEF ListedOnce, WaitQueued, AllQueued, WalkKept, Distinct
<1> QED
  BY <1>1, <1>2, <1>4, <1>5, ClientSInv

\* The rest of the tasks found waits, in the queue.
LEMMA RestWaits ==
  ASSUME SInv, NEW c \in Clients, NEW rest \in Seq(Tasks), UNCHANGED tasks,
         status' = [t \in Tasks |-> IF t \in ToSet(rest) THEN "wait" ELSE status[t]],
         waitTasks' = queued(rest), \A u \in Threads : u # c => call'[u] = call[u],
         call[c].pc \notin {"cleared", "pauseAll"}, UNCHANGED <<walk, missed, errors>>
  PROVE  /\ status' \in [Tasks -> Statuses] /\ waitTasks' \in Seq(Tasks)
         /\ ListedOnce' /\ WaitQueued' /\ WalkKept'
<1> USE DEF SInv
<1>1. waitTasks' \in Seq(Tasks) /\ ToSet(waitTasks') = ToSet(waitTasks) \union ToSet(rest)
  BY ConcatSet DEF TypeOK, queued
<1>2. /\ status' \in [Tasks -> Statuses]
      /\ \A t \in Tasks : status'[t] = IF t \in ToSet(rest) THEN "wait" ELSE status[t]
  BY DEF TypeOK, Statuses
<1>3. ToSet(tasks) \subseteq Tasks
  BY SetOfSeq DEF TypeOK
<1>4. ListedOnce'
  BY <1>2, <1>3, ListedStep
<1>5. WaitQueued'
  BY <1>1, <1>2, <1>3, WaitClient
<1> QED
  BY <1>1, <1>2, <1>4, <1>5, WalkStep

LEMMA continueAllSInv ==
  ASSUME SInv, NEW c \in Clients, continueAll(c)
  PROVE  SInv'
<1> USE DEF SInv
<1> DEFINE found == filtered(Tasks, {"running", "done"})
           n == IF remainRunningCount < 0 THEN 0 ELSE Least(remainRunningCount, Len(found))
           rest == SubSeq(found, n + 1, Len(found))
           first == SubSeq(found, 1, n)
<1>1. found \in Seq(Tasks)
  BY FilteredSet
<1>2. remainRunningCount \in Int /\ Len(found) \in Nat
  BY <1>1, CountTypes, LenProperties
<1>3. /\ call[c].pc = "idle" /\ calls' \in Nat
      /\ UNCHANGED <<maxRunning, statusLock, notifies, handlers, fetching, watching, fails, errors, walk, missed, tasks, lock>>
      /\ status' = [t \in Tasks |-> IF t \in ToSet(rest) THEN "wait" ELSE status[t]]
      /\ waitTasks' = queued(rest) /\ call' = [call EXCEPT ![c] = doing("start", first)]
  BY DEF continueAll, Calls, walking, TypeOK
<1> HIDE DEF found
<1>4. n \in 0..Len(found)
  BY <1>2 DEF Least
<1>5. first \in Seq(Tasks) /\ rest \in Seq(Tasks)
  BY <1>1, <1>4, SplitTypes
<1> HIDE DEF n, rest, first
<1>6. /\ call' \in [Threads -> CallRecord] /\ call'[c].pc = "start"
      /\ \A u \in Threads : u # c => call'[u] = call[u]
  <2>1. doing("start", first) \in CallRecord /\ doing("start", first).pc = "start"
    BY <1>5, DoingTypes
  <2> QED
    BY <1>3, <2>1, CallSet, ThreadFacts
<1>7. status' \in [Tasks -> Statuses] /\ waitTasks' \in Seq(Tasks) /\ ListedOnce' /\ WaitQueued' /\ WalkKept'
  BY <1>3, <1>5, <1>6, RestWaits
<1>8. TypeOK'
  BY <1>3, <1>6, <1>7 DEF TypeOK, handlers, fetching, watching
<1> QED
  BY <1>3, <1>6, <1>7, <1>8, ClientSInv

LEMMA ApiSInv ==
  ASSUME SInv, NEW c \in Clients, ApiCall(c)
  PROVE  SInv'
<1>1. ASSUME NEW t \in Tasks, doCreate(c, t) PROVE SInv'
  BY <1>1, doCreateSInv
<1>2. ASSUME NEW ids \in Batches, Pause(c, ids) PROVE SInv'
  <2> DEFINE f == filtered(ids, {"pause", "error", "done"})
  <2>1. f \in Seq(Tasks)
    BY FilteredSet DEF SInv
  <2> HIDE DEF f
  <2>2. doing("pause", f) \in CallRecord /\ doing("pause", f).pc = "pause"
    BY <2>1, DoingTypes
  <2>3. call' = [call EXCEPT ![c] = doing("pause", f)] /\ Calls(c, "pause")
        /\ UNCHANGED <<tasks, waitTasks, status, lock, walk, missed>>
    BY <1>2 DEF Pause, f, lists, walking
  <2> QED
    BY <2>2, <2>3, BeginSInv
<1>3. ASSUME NEW ids \in Batches, Continue(c, ids) PROVE SInv'
  <2> DEFINE f == filtered(ids, {"running", "done"})
  <2>1. f \in Seq(Tasks)
    BY FilteredSet DEF SInv
  <2> HIDE DEF f
  <2>2. doing("picked", f) \in CallRecord /\ doing("picked", f).pc = "picked"
    BY <2>1, DoingTypes
  <2>3. call' = [call EXCEPT ![c] = doing("picked", f)] /\ Calls(c, "continue")
        /\ UNCHANGED <<tasks, waitTasks, status, lock, walk, missed>>
    BY <1>3 DEF Continue, f, lists, walking
  <2> QED
    BY <2>2, <2>3, BeginSInv
<1>4. ASSUME NEW ids \in Batches, ContinueBatch(c, ids) PROVE SInv'
  <2> DEFINE f == filtered(ids, {})
  <2>1. f \in Seq(Tasks)
    BY FilteredSet DEF SInv
  <2> HIDE DEF f
  <2>2. doing("start", f) \in CallRecord /\ doing("start", f).pc = "start"
    BY <2>1, DoingTypes
  <2>3. call' = [call EXCEPT ![c] = doing("start", f)] /\ Calls(c, "continueBatch")
        /\ UNCHANGED <<tasks, waitTasks, status, lock, walk, missed>>
    BY <1>4 DEF ContinueBatch, f, lists, walking
  <2> QED
    BY <2>2, <2>3, BeginSInv
<1>5. ASSUME NEW ids \in Batches, Delete(c, ids) PROVE SInv'
  <2> DEFINE f == filtered(ids, {})
             d == doing("deletePicked", f)
             r == [d EXCEPT !.scan = f]
  <2>1. f \in Seq(Tasks)
    BY FilteredSet DEF SInv
  <2> HIDE DEF f
  <2>2. d \in CallRecord /\ d.pc = "deletePicked"
    BY <2>1, DoingTypes
  <2>3. call' = [call EXCEPT ![c] = r] /\ Calls(c, "delete") /\ f # <<>>
        /\ UNCHANGED <<tasks, waitTasks, status, lock, walk, missed>>
    BY <1>5 DEF Delete, f, lists, walking
  <2> HIDE DEF d
  <2>4. r \in CallRecord /\ r.pc = "deletePicked" /\ r.scan = f
    BY <2>1, <2>2 DEF CallRecord
  <2> HIDE DEF r
  <2> QED
    BY <2>3, <2>4, BeginSInv
<1>6. ASSUME pauseAll(c) PROVE SInv'
  <2>1. doing("cleared", <<>>) \in CallRecord /\ doing("cleared", <<>>).pc = "cleared"
    BY EmptySeq, DoingTypes
  <2>2. call' = [call EXCEPT ![c] = doing("cleared", <<>>)] /\ Calls(c, "pauseAll")
        /\ waitTasks' = <<>> /\ UNCHANGED <<tasks, status, lock, walk, missed>>
    BY <1>6 DEF pauseAll, walking
  <2> QED
    BY <2>1, <2>2, BeginSInv
<1>7. ASSUME NEW n \in Limits, PutConfig(c, n) PROVE SInv'
  <2>1. TypeOK' /\ UNCHANGED <<tasks, waitTasks, call, lock, status, walk, missed, errors>>
    BY <1>7 DEF PutConfig, SInv, TypeOK, lists, locks, handlers, fetching, watching, walking
  <2> QED
    BY <2>1, AsideSInv
<1> QED
  BY <1>1, <1>2, <1>3, <1>4, <1>5, <1>6, <1>7, continueAllSInv, deleteAllSInv DEF ApiCall

----------------------------------------------------------------------------
(* The calls under way *)

LEMMA CreateWatchesSInv ==
  ASSUME SInv, NEW c \in Clients, CreateWatches(c)
  PROVE  SInv'
<1> USE DEF SInv
<1>1. /\ call[c].pc = "watch" /\ call' = [call EXCEPT ![c] = idle]
      /\ spawned' = [spawned EXCEPT ![target(c)] = @ + 1]
      /\ UNCHANGED <<tasks, waitTasks, status, lock, walk, missed, errors>>
  BY DEF CreateWatches, lists, locks, walking, bounds
<1>2. idle \in CallRecord /\ idle.pc = "idle"
  BY DoingTypes, EmptySeq
<1>3. /\ call' \in [Threads -> CallRecord] /\ call'[c].pc = "idle"
      /\ \A u \in Threads : u # c => call'[u] = call[u]
  BY <1>1, <1>2, CallSet, ThreadFacts
<1>4. spawned' \in [Tasks -> Nat]
  <2>1. call[c].todo \in Seq(Tasks) /\ Len(call[c].todo) = 1 /\ call[c].pc # "preempting"
    BY <1>1, CallTypes, ThreadFacts DEF InHand
  <2>2. target(c) \in Tasks
    BY <2>1, EmptySeq, TailSet DEF target
  <2> QED
    BY <1>1, <2>2 DEF TypeOK
<1>5. TypeOK'
  BY <1>3, <1>4 DEF CreateWatches, TypeOK, lists, locks, handlers, fetching, walking, bounds
<1>6. ListedOnce' /\ WalkKept'
  BY <1>1, WalkStep DEF ListedOnce, walking
<1>7. WaitQueued'
  BY <1>1, <1>3, WaitClient DEF walking, bounds
<1> QED
  BY <1>1, <1>3, <1>5, <1>6, <1>7, ClientSInv

LEMMA ContinueCountsSInv ==
  ASSUME SInv, NEW c \in Clients, ContinueCounts(c)
  PROVE  SInv'
<1> USE DEF SInv
<1> DEFINE found == call[c].todo
           n == Least(maxRunning, Len(found))
           first == SubSeq(found, 1, n)
           after == SubSeq(found, n + 1, Len(found))
           r == [pc |-> "preempt", todo |-> first, rest |-> after, scan |-> tasks,
                 need |-> n - remainRunningCount]
<1>1. /\ call[c].pc = "picked" /\ lock = Nobody /\ lock' = c /\ call' = [call EXCEPT ![c] = r]
      /\ UNCHANGED <<tasks, waitTasks, maxRunning, status, statusLock, notifies, handlers, fetching, watching, walking, bounds>>
  BY DEF ContinueCounts, lists
<1>2. found \in Seq(Tasks) /\ Len(found) \in Nat /\ remainRunningCount \in Int /\ maxRunning \in Nat
  BY CallTypes, CountTypes, LenProperties, ThreadFacts
<1> HIDE DEF found
<1>3. n \in 0..Len(found) /\ n \in Int
  BY <1>2 DEF Least
<1>4. first \in Seq(Tasks) /\ after \in Seq(Tasks)
  BY <1>2, <1>3, SplitTypes
<1>5. n - remainRunningCount \in Int
  BY <1>2, <1>3
<1> HIDE DEF n, first, after
<1>6. r \in CallRecord /\ r.pc = "preempt"
  BY <1>4, <1>5 DEF CallRecord, TypeOK
<1> HIDE DEF r
<1>7. /\ call' \in [Threads -> CallRecord] /\ call'[c].pc = "preempt"
      /\ \A u \in Threads : u # c => call'[u] = call[u]
  BY <1>1, <1>6, CallSet, ThreadFacts
<1>8. TypeOK'
  BY <1>1, <1>7, ThreadFacts DEF TypeOK, handlers, fetching, watching, walking, bounds
<1>9. ListedOnce' /\ WalkKept'
  BY <1>1, WalkStep DEF ListedOnce, walking
<1>10. WaitQueued'
  BY <1>1, <1>7, WaitClient DEF walking, bounds
<1> QED
  BY <1>1, <1>7, <1>8, <1>9, <1>10, ClientSInv

LEMMA PreemptLooksSInv ==
  ASSUME SInv, NEW c \in Clients, PreemptLooks(c)
  PROVE  SInv'
<1> USE DEF SInv
<1>1. /\ call[c].pc = "preempt" /\ call[c].scan # <<>>
      /\ UNCHANGED <<tasks, waitTasks, maxRunning, status, lock, statusLock, notifies, handlers, fetching, watching, walking, bounds>>
  BY DEF PreemptLooks, Preempts, lists, locks
<1>2. call[c] \in CallRecord /\ Tail(call[c].scan) \in Seq(Tasks)
  BY <1>1, CallTypes, TailSet, ThreadFacts
<1>3. ASSUME call' = [call EXCEPT ![c] = [call[c] EXCEPT !.pc = "preempting"]] PROVE SInv'
  <2> DEFINE r == [call[c] EXCEPT !.pc = "preempting"]
  <2>1. r \in CallRecord /\ r.pc = "preempting" /\ r.scan = call[c].scan
    BY <1>2 DEF CallRecord
  <2> HIDE DEF r
  <2>2. call' = [call EXCEPT ![c] = r]
    BY <1>3 DEF r
  <2>3. /\ call' \in [Threads -> CallRecord] /\ call'[c].pc = "preempting" /\ call'[c].scan # <<>>
        /\ \A u \in Threads : u # c => call'[u] = call[u]
    BY <1>1, <2>1, <2>2, CallSet, ThreadFacts
  <2>4. TypeOK'
    BY <1>1, <2>3 DEF TypeOK, handlers, fetching, watching, walking, bounds
  <2>5. ListedOnce' /\ WalkKept'
    BY <1>1, WalkStep DEF ListedOnce, walking
  <2>6. WaitQueued'
    BY <1>1, <2>3, WaitClient DEF walking, bounds
  <2> QED
    BY <1>1, <2>3, <2>4, <2>5, <2>6, ClientSInv
<1>4. ASSUME call' = [call EXCEPT ![c] = [call[c] EXCEPT !.scan = Tail(call[c].scan)]] PROVE SInv'
  <2> DEFINE r == [call[c] EXCEPT !.scan = Tail(call[c].scan)]
  <2>1. r \in CallRecord /\ r.pc = "preempt"
    BY <1>1, <1>2 DEF CallRecord
  <2> HIDE DEF r
  <2>2. call' = [call EXCEPT ![c] = r]
    BY <1>4 DEF r
  <2>3. /\ call' \in [Threads -> CallRecord] /\ call'[c].pc = "preempt"
        /\ \A u \in Threads : u # c => call'[u] = call[u]
    BY <2>1, <2>2, CallSet, ThreadFacts
  <2>4. TypeOK'
    BY <1>1, <2>3 DEF TypeOK, handlers, fetching, watching, walking, bounds
  <2>5. ListedOnce' /\ WalkKept'
    BY <1>1, WalkStep DEF ListedOnce, walking
  <2>6. WaitQueued'
    BY <1>1, <2>3, WaitClient DEF walking, bounds
  <2> QED
    BY <1>1, <2>3, <2>4, <2>5, <2>6, ClientSInv
<1> QED
  BY <1>3, <1>4, ThreadFacts DEF PreemptLooks, TypeOK

LEMMA PreemptSetsWaitSInv ==
  ASSUME SInv, NEW c \in Clients, PreemptSetsWait(c)
  PROVE  SInv'
<1> USE DEF SInv
<1> DEFINE t == Head(call[c].scan)
           r == [call[c] EXCEPT !.pc = "preempt", !.scan = Tail(call[c].scan), !.need = call[c].need - 1]
<1>1. /\ call[c].pc = "setWait" /\ status' = [status EXCEPT ![t] = "wait"] /\ waitTasks' = Append(waitTasks, t)
      /\ call' = [call EXCEPT ![c] = r]
      /\ UNCHANGED <<tasks, maxRunning, lock, statusLock, notifies, handlers, fetching, watching, walking, bounds>>
  BY ThreadFacts DEF PreemptSetsWait, locks, TypeOK
<1>2. call[c].scan # <<>>
  BY <1>1, ThreadFacts DEF InHand
<1>3. call[c] \in CallRecord /\ Tail(call[c].scan) \in Seq(Tasks) /\ t \in Tasks /\ call[c].need \in Int
  BY <1>2, CallTypes, TailSet, ThreadFacts
<1>4. r \in CallRecord /\ r.pc = "preempt"
  <2>1. call[c].need - 1 \in Int
    BY <1>3
  <2> DEFINE q == Tail(call[c].scan)
             k == call[c].need - 1
  <2>2. q \in Seq(Tasks) /\ k \in Int
    BY <1>3, <2>1
  <2> HIDE DEF q, k
  <2>3. /\ [call[c] EXCEPT !.pc = "preempt", !.scan = q, !.need = k] \in CallRecord
        /\ [call[c] EXCEPT !.pc = "preempt", !.scan = q, !.need = k].pc = "preempt"
    BY <1>3, <2>2 DEF CallRecord
  <2> QED
    BY <2>3 DEF q, k
<1> HIDE DEF r, t
<1>5. /\ call' \in [Threads -> CallRecord] /\ call'[c].pc = "preempt"
      /\ \A u \in Threads : u # c => call'[u] = call[u]
  BY <1>1, <1>4, CallSet, ThreadFacts
<1>6. waitTasks' \in Seq(Tasks) /\ ToSet(waitTasks') = ToSet(waitTasks) \union {t}
  BY <1>1, <1>3, AppendSet DEF TypeOK
<1>7. /\ status' \in [Tasks -> Statuses] /\ status'[t] = "wait"
      /\ \A u \in Tasks : u # t => status'[u] = status[u]
  BY <1>1, <1>3 DEF TypeOK, Statuses
<1>8. TypeOK'
  BY <1>1, <1>5, <1>6, <1>7 DEF TypeOK, handlers, fetching, watching, walking, bounds
<1>9. ToSet(tasks) \subseteq Tasks
  BY SetOfSeq DEF TypeOK
<1>10. ListedOnce' /\ WalkKept'
  BY <1>1, <1>7, <1>9, ListedStep, WalkStep DEF walking
<1>11. WaitQueued'
  BY <1>1, <1>5, <1>6, <1>7, <1>9, WaitClient DEF walking, bounds
<1> QED
  BY <1>1, <1>5, <1>8, <1>10, <1>11, ClientSInv

LEMMA ContinueSplitsSInv ==
  ASSUME SInv, NEW c \in Clients, ContinueSplits(c)
  PROVE  SInv'
<1> USE DEF SInv
<1>1. /\ call[c].pc = "preempt" /\ lock' = Nobody
      /\ status' = [t \in Tasks |-> IF t \in ToSet(call[c].rest) THEN "wait" ELSE status[t]]
      /\ waitTasks' = queued(call[c].rest) /\ call' = [call EXCEPT ![c] = doing("start", call[c].todo)]
      /\ UNCHANGED <<tasks, maxRunning, statusLock, notifies, handlers, fetching, watching, walking, bounds>>
  BY ThreadFacts DEF ContinueSplits, TypeOK
<1>2. call[c].rest \in Seq(Tasks) /\ call[c].todo \in Seq(Tasks)
  BY CallTypes, ThreadFacts
<1>3. /\ call' \in [Threads -> CallRecord] /\ call'[c].pc = "start"
      /\ \A u \in Threads : u # c => call'[u] = call[u]
  <2>1. doing("start", call[c].todo) \in CallRecord /\ doing("start", call[c].todo).pc = "start"
    BY <1>2, DoingTypes
  <2> QED
    BY <1>1, <2>1, CallSet, ThreadFacts
<1>4. status' \in [Tasks -> Statuses] /\ waitTasks' \in Seq(Tasks) /\ ListedOnce' /\ WaitQueued' /\ WalkKept'
  BY <1>1, <1>2, <1>3, RestWaits DEF walking, bounds
<1>5. TypeOK'
  BY <1>1, <1>3, <1>4 DEF TypeOK, handlers, fetching, watching, walking, bounds
<1> QED
  BY <1>1, <1>3, <1>4, <1>5, ClientSInv

\* pauseAll ranges over all tasks of the list, one after the other.
LEMMA pauseAllBeginsSInv ==
  ASSUME SInv, NEW c \in Clients, pauseAllBegins(c)
  PROVE  SInv'
<1> USE DEF SInv
<1> DEFINE r == [call[c] EXCEPT !.pc = "pauseAll"]
           w == [view |-> tasks, next |-> 1, shared |-> TRUE]
<1>1. /\ call[c].pc = "cleared" /\ call' = [call EXCEPT ![c] = r] /\ walk' = [walk EXCEPT ![c] = w]
      /\ UNCHANGED <<tasks, waitTasks, maxRunning, status, lock, statusLock, notifies, handlers, fetching,
                     watching, missed, bounds>>
  BY ThreadFacts DEF pauseAllBegins, lists, locks, TypeOK
<1>2. r \in CallRecord /\ r.pc = "pauseAll"
  BY CallTypes, ThreadFacts DEF CallRecord
<1> HIDE DEF r
<1>3. /\ call' \in [Threads -> CallRecord] /\ call'[c].pc = "pauseAll"
      /\ \A u \in Threads : u # c => call'[u] = call[u]
  BY <1>1, <1>2, CallSet, ThreadFacts
<1>4. w \in WalkRecord
  BY DEF WalkRecord, TypeOK
<1>5. /\ walk' \in [Clients -> WalkRecord] /\ walk'[c].view = tasks /\ walk'[c].next = 1
      /\ \A d \in Clients : d # c => walk'[d] = walk[d]
  BY <1>1, <1>4 DEF TypeOK
<1> HIDE DEF w
<1>6. TypeOK'
  BY <1>1, <1>3, <1>5 DEF TypeOK, handlers, fetching, watching, bounds
<1>7. Len(tasks) \in Nat /\ DOMAIN tasks = 1..Len(tasks) /\ ToSet(tasks) = {tasks[i] : i \in 1..Len(tasks)}
  BY SetOfSeq DEF TypeOK
<1>8. ListedOnce' /\ WalkKept'
  BY <1>1, <1>5, <1>7 DEF ListedOnce, WalkKept
<1>9. \A t \in ToSet(tasks) : WillPause(c, t)'
  BY <1>3, <1>5, <1>7 DEF WillPause
<1>10. WaitQueued'
  BY <1>1, <1>9 DEF WaitQueued, AllQueued, Queued
<1> QED
  BY <1>1, <1>3, <1>6, <1>8, <1>10, ClientSInv

LEMMA pauseAllReadsSInv ==
  ASSUME SInv, NEW c \in Clients, pauseAllReads(c)
  PROVE  SInv'
<1> USE DEF SInv
<1> DEFINE u == walk[c].view[walk[c].next]
           r == [call[c] EXCEPT !.todo = <<u>>]
           w == [walk[c] EXCEPT !.next = walk[c].next + 1]
<1>1. /\ call[c].pc = "pauseAll" /\ call[c].todo = <<>> /\ walk[c].next <= Len(walk[c].view)
      /\ call' = [call EXCEPT ![c] = r] /\ walk' = [walk EXCEPT ![c] = w]
      /\ UNCHANGED <<tasks, waitTasks, maxRunning, status, lock, statusLock, notifies, handlers, fetching,
                     watching, missed, bounds>>
  BY ThreadFacts DEF pauseAllReads, Walks, lists, locks, TypeOK
<1>2. /\ walk[c] \in WalkRecord /\ walk[c].view \in Seq(Tasks) /\ walk[c].next \in Nat \ {0}
      /\ Len(walk[c].view) \in Nat /\ DOMAIN walk[c].view = 1..Len(walk[c].view)
  BY LenProperties DEF TypeOK, WalkRecord
<1>3. u \in Tasks
  BY <1>1, <1>2, ElementOfSeq
<1> HIDE DEF u
<1>4. <<u>> \in Seq(Tasks) /\ ToSet(<<u>>) = {u}
  BY <1>3, Singleton
<1>5. r \in CallRecord /\ r.pc = "pauseAll" /\ r.todo = <<u>>
  BY <1>1, <1>4, CallTypes, ThreadFacts DEF CallRecord
<1>6. w \in WalkRecord /\ w.view = walk[c].view /\ w.next = walk[c].next + 1 /\ w.shared = walk[c].shared
  BY <1>2 DEF WalkRecord
<1> HIDE DEF r, w
<1>7. /\ call' \in [Threads -> CallRecord] /\ call'[c] = r
      /\ \A th \in Threads : th # c => call'[th] = call[th]
  BY <1>1, <1>5, CallSet, ThreadFacts
<1>8. /\ walk' \in [Clients -> WalkRecord] /\ walk'[c] = w
      /\ \A d \in Clients : d # c => walk'[d] = walk[d]
  BY <1>1, <1>6 DEF TypeOK
<1>9. TypeOK'
  BY <1>1, <1>7, <1>8 DEF TypeOK, handlers, fetching, watching, bounds
<1>10. ListedOnce' /\ WalkKept'
  BY <1>1, <1>6, <1>8 DEF ListedOnce, WalkKept
<1>11. ASSUME NEW d \in Clients, NEW t, WillPause(d, t) PROVE WillPause(d, t)'
  <2>1. CASE d # c
    BY <1>7, <1>8, <1>11, <2>1, ThreadFacts, WillPauseSame
  <2>2. CASE d = c
    <3>1. PICK p \in 1..Len(walk[c].view) : p >= walk[c].next /\ walk[c].view[p] = t
      BY <1>1, <1>2, <1>11, <2>2, EmptySet DEF WillPause
    <3>2. CASE p = walk[c].next
      BY <1>4, <1>5, <1>7, <2>2, <3>1, <3>2 DEF WillPause, u
    <3>3. CASE p # walk[c].next
      <4>1. p >= walk[c].next + 1 /\ p \in DOMAIN w.view
        BY <1>2, <1>6, <3>1, <3>3
      <4> QED
        BY <1>5, <1>6, <1>7, <1>8, <2>2, <3>1, <4>1 DEF WillPause
    <3> QED
      BY <3>2, <3>3
  <2> QED
    BY <2>1, <2>2
<1>12. WaitQueued'
  <2> SUFFICES ASSUME ~missed', errors' = 0 PROVE WaitQueued'
    BY DEF WaitQueued
  <2>1. call'[Notifier] = call[Notifier] /\ ~missed /\ errors = 0
    BY <1>1, <1>7, ThreadFacts DEF bounds
  <2> QED
    BY <1>1, <1>11, <2>1, WaitStep
<1> QED
  BY <1>1, <1>5, <1>7, <1>9, <1>10, <1>12, ClientSInv

\* A task that is not in the list leaves it as it is.
LEMMA WithoutNone ==
  ASSUME NEW S, NEW s \in Seq(S), NEW t \in S, t \notin ToSet(s)
  PROVE  Len(without(s, <<t>>)) = Len(s)
<1> DEFINE I == {i \in DOMAIN s : s[i] \in ToSet(<<t>>) => \E j \in 1..(i - 1) : s[j] = s[i]}
<1>1. DOMAIN s = 1..Len(s) /\ Len(s) \in Nat /\ ToSet(s) = {s[i] : i \in 1..Len(s)}
  BY SetOfSeq
<1>2. <<t>> \in Seq(S) /\ Len(<<t>>) = 1 /\ <<t>>[1] = t
  OBVIOUS
<1>3. ToSet(<<t>>) = {<<t>>[i] : i \in 1..1}
  BY <1>2, SetOfSeq
<1>4. \A i \in 1..Len(s) : s[i] \notin ToSet(<<t>>)
  BY <1>1, <1>2, <1>3
<1>5. I = 1..Len(s)
  BY <1>1, <1>4
<1>6. Cardinality(1..Len(s)) = Len(s)
  <2>1. \A n \in Nat : Cardinality(1..n) = n
    BY FS_Interval
  <2> QED
    BY <1>1, <2>1
<1>7. Len(entries(s, I)) = Cardinality(I)
  BY EntriesSet
<1> QED
  BY <1>5, <1>6, <1>7 DEF without

\* The array of a pauseAll keeps its length when the tasks in it move.
LEMMA ShiftedWalk ==
  ASSUME TypeOK, NEW d \in Clients, NEW t
  PROVE  shifted(walk[d], t) \in WalkRecord
<1> DEFINE v == walk[d].view
           e == [p \in DOMAIN v |->
                   IF p < Len(tasks) /\ \E i \in 1..p : tasks[i] = t THEN tasks[p + 1] ELSE v[p]]
<1>1. /\ walk[d] \in WalkRecord /\ v \in Seq(Tasks) /\ Len(v) \in Nat /\ DOMAIN v = 1..Len(v)
      /\ tasks \in Seq(Tasks) /\ Len(tasks) \in Nat
      /\ \A p \in 1..Len(v) : v[p] \in Tasks
      /\ \A p \in 1..Len(tasks) : tasks[p] \in Tasks
  BY LenProperties, ElementOfSeq DEF TypeOK, WalkRecord
<1>2. e \in [1..Len(v) -> Tasks]
  <2> SUFFICES ASSUME NEW p \in 1..Len(v)
               PROVE  (IF p < Len(tasks) /\ \E i \in 1..p : tasks[i] = t THEN tasks[p + 1] ELSE v[p]) \in Tasks
    BY <1>1
  <2>1. p < Len(tasks) => p + 1 \in 1..Len(tasks)
    BY <1>1
  <2> QED
    BY <1>1, <2>1
<1>3. e \in Seq(Tasks)
  BY <1>1, <1>2
<1>4. shifted(walk[d], t) = [walk[d] EXCEPT !.view = e]
  BY DEF shifted
<1> HIDE DEF e
<1> QED
  BY <1>1, <1>3, <1>4 DEF WalkRecord

\* A task leaves both lists: one that stays in the list stays in the queue.
LEMMA DeleteRemovesSInv ==
  ASSUME SInv, NEW c \in Clients, DeleteRemoves(c)
  PROVE  SInv'
<1> USE DEF SInv
<1> DEFINE t == Head(call[c].scan)
           last == Len(call[c].scan) = 1
           goto == IF last THEN "delete" ELSE "deleting"
           shifts(d) == walk[d].shared /\ t \in ToSet(tasks)
           r == [call[c] EXCEPT !.pc = goto, !.scan = Tail(call[c].scan)]
<1>1. /\ (call[c].pc = "deletePicked" /\ lock = Nobody) \/ call[c].pc = "deleting"
      /\ tasks' = without(tasks, <<t>>) /\ waitTasks' = without(waitTasks, <<t>>)
      /\ walk' = [d \in Clients |-> IF shifts(d) THEN shifted(walk[d], t) ELSE walk[d]]
      /\ missed' = (missed \/ \E d \in Clients : shifts(d))
      /\ lock' = IF last THEN Nobody ELSE c
      /\ call' = [call EXCEPT ![c] = r]
      /\ UNCHANGED <<maxRunning, status, statusLock, notifies, handlers, fetching, watching, bounds>>
  <2>1. call' = [call EXCEPT ![c] = r]
    BY DEF DeleteRemoves
  <2>2. missed' = (missed \/ \E d \in Clients : shifts(d))
    BY Zenon DEF DeleteRemoves
  <2>3. UNCHANGED <<maxRunning, status, statusLock, notifies, handlers, fetching, watching, bounds>>
    BY Zenon DEF DeleteRemoves
  <2>4. /\ (call[c].pc = "deletePicked" /\ lock = Nobody) \/ call[c].pc = "deleting"
        /\ tasks' = without(tasks, <<t>>) /\ waitTasks' = without(waitTasks, <<t>>)
        /\ walk' = [d \in Clients |-> IF shifts(d) THEN shifted(walk[d], t) ELSE walk[d]]
        /\ lock' = IF last THEN Nobody ELSE c
    BY DEF DeleteRemoves, queueWithout
  <2> QED
    BY <2>1, <2>2, <2>3, <2>4, Zenon
<1>2. /\ call[c] \in CallRecord /\ call[c].scan # <<>> /\ t \in Tasks /\ Tail(call[c].scan) \in Seq(Tasks)
      /\ Len(Tail(call[c].scan)) = Len(call[c].scan) - 1 /\ Len(call[c].scan) \in Nat
      /\ lock = c <=> call[c].pc = "deleting"
  <2>1. call[c].scan # <<>> /\ (lock = c <=> call[c].pc = "deleting")
    BY <1>1, ThreadFacts DEF InHand, LockHeld
  <2> QED
    BY <2>1, CallTypes, TailSet, ThreadFacts
<1>3. r \in CallRecord /\ r.pc = goto /\ r.scan = Tail(call[c].scan)
  <2> DEFINE q == Tail(call[c].scan)
  <2>1. q \in Seq(Tasks)
    BY <1>2
  <2> HIDE DEF q
  <2>2. [call[c] EXCEPT !.pc = goto, !.scan = q] \in CallRecord
    BY <1>2, <2>1 DEF CallRecord
  <2>3. [call[c] EXCEPT !.pc = goto, !.scan = q].pc = goto /\ [call[c] EXCEPT !.pc = goto, !.scan = q].scan = q
    BY <1>2 DEF CallRecord
  <2> QED
    BY <2>2, <2>3 DEF q
<1> HIDE DEF r, t
<1>4. /\ call' \in [Threads -> CallRecord] /\ call'[c] = r
      /\ \A u \in Threads : u # c => call'[u] = call[u]
  BY <1>1, <1>3, CallSet, ThreadFacts
<1>5. ~last => call'[c].pc = "deleting" /\ call'[c].scan # <<>>
  <2>1. ASSUME Tail(call[c].scan) = <<>> PROVE last
    <3>0. Len(<<>>) = 0
      OBVIOUS
    <3>1. Len(Tail(call[c].scan)) = 0
      BY <2>1, <3>0, Zenon
    <3>2. Len(call[c].scan) - 1 = 0
      BY <1>2, <3>1
    <3> QED
      BY <1>2, <3>2
  <2> QED
    BY <1>3, <1>4, <2>1
<1>6. last => call'[c].pc = "delete"
  BY <1>3, <1>4
<1> HIDE DEF last, goto
<1>7. <<t>> \in Seq(Tasks) /\ ToSet(<<t>>) = {t}
  BY <1>2, Singleton
<1>8. tasks' \in Seq(Tasks) /\ Distinct(tasks') /\ ToSet(tasks') = ToSet(tasks) \ {t}
  BY <1>1, <1>7, WithoutSet DEF TypeOK, ListedOnce
<1>9. waitTasks' \in Seq(Tasks) /\ ToSet(waitTasks) \ {t} \subseteq ToSet(waitTasks')
  BY <1>1, <1>7, WithoutSet DEF TypeOK
<1>10. /\ walk' \in [Clients -> WalkRecord] /\ missed' \in BOOLEAN
       /\ ~missed' => ~missed /\ walk' = walk /\ \A d \in Clients : walk[d].shared => t \notin ToSet(tasks)
  <2>1. \A d \in Clients : shifted(walk[d], t) \in WalkRecord
    BY ShiftedWalk
  <2>2. walk' \in [Clients -> WalkRecord] /\ missed' \in BOOLEAN
    BY <1>1, <2>1 DEF TypeOK
  <2> QED
    BY <1>1, <2>2 DEF TypeOK
<1>11. TypeOK'
  BY <1>1, <1>4, <1>8, <1>9, <1>10, ThreadFacts DEF TypeOK, handlers, fetching, watching, bounds
<1>12. ListedOnce'
  BY <1>1, <1>8 DEF ListedOnce
<1>13. WalkKept'
  <2> SUFFICES ASSUME ~missed', NEW d \in Clients, walk'[d].shared
               PROVE  Len(walk'[d].view) <= Len(tasks')
    BY DEF WalkKept
  <2>1. walk'[d] = walk[d] /\ t \notin ToSet(tasks) /\ Len(walk[d].view) <= Len(tasks)
    BY <1>10 DEF WalkKept
  <2>2. Len(tasks') = Len(tasks)
    BY <1>1, <1>2, <2>1, WithoutNone DEF TypeOK
  <2> QED
    BY <2>1, <2>2
<1>14. WaitQueued'
  <2> SUFFICES ASSUME ~missed', errors' = 0,
                      NEW u \in ToSet(tasks'), status'[u] = "wait", u \notin ToSet(waitTasks')
               PROVE  \/ call'[Notifier].pc = "run" /\ target(Notifier)' = u
                      \/ \E d \in Clients : WillPause(d, u)'
    BY DEF WaitQueued, AllQueued, Queued
  <2>1. u \in ToSet(tasks) /\ status[u] = "wait" /\ u \notin ToSet(waitTasks)
    BY <1>1, <1>8, <1>9
  <2>2. \/ call[Notifier].pc = "run" /\ target(Notifier) = u
        \/ \E d \in Clients : WillPause(d, u)
    BY <1>1, <1>10, <2>1 DEF WaitQueued, AllQueued, Queued, bounds
  <2>3. call'[Notifier] = call[Notifier]
    BY <1>4, ThreadFacts
  <2>4. ASSUME NEW d \in Clients, WillPause(d, u) PROVE WillPause(d, u)'
    <3>1. d # c
      BY <1>1, <2>4 DEF WillPause
    <3> QED
      BY <1>4, <1>10, <2>4, <3>1, ThreadFacts, WillPauseSame
  <2> QED
    BY <2>2, <2>3, <2>4 DEF target
<1>15. CASE last
  BY <1>1, <1>2, <1>4, <1>6, <1>11, <1>12, <1>13, <1>14, <1>15, ClientSInv
<1>16. CASE ~last
  BY <1>1, <1>2, <1>4, <1>5, <1>11, <1>12, <1>13, <1>14, <1>16, ClientSInv
<1> QED
  BY <1>15, <1>16

LEMMA doDeleteSInv ==
  ASSUME SInv, NEW c \in Clients, doDelete(c)
  PROVE  SInv'
<1> USE DEF SInv
<1> DEFINE r == [call[c] EXCEPT !.todo = Tail(call[c].todo)]
<1>1. /\ call[c].pc \in {"delete", "deleteAll"} /\ call[c].todo # <<>>
      /\ fetcher' = [fetcher EXCEPT ![target(c)] = closed(@)]
      /\ call' = [call EXCEPT ![c] = r]
      /\ UNCHANGED <<tasks, waitTasks, maxRunning, status, lock, statusLock, notifies, handlers, doneCh, watching,
                     walking, bounds>>
  BY ThreadFacts DEF doDelete, lists, locks, TypeOK
<1>2. call[c] \in CallRecord /\ Tail(call[c].todo) \in Seq(Tasks)
  BY <1>1, CallTypes, TailSet, ThreadFacts
<1>3. r \in CallRecord /\ r.pc = call[c].pc
  BY <1>2 DEF CallRecord
<1> HIDE DEF r
<1>4. /\ call' \in [Threads -> CallRecord] /\ call'[c].pc = call[c].pc
      /\ \A u \in Threads : u # c => call'[u] = call[u]
  BY <1>1, <1>3, CallSet, ThreadFacts
<1>5. fetcher' \in [Tasks -> {"none", "idle", "active", "done", "failed"}]
  BY <1>1 DEF closed, TypeOK
<1>6. TypeOK'
  BY <1>1, <1>4, <1>5 DEF TypeOK, handlers, watching, walking, bounds
<1>7. ListedOnce' /\ WalkKept'
  BY <1>1, WalkStep DEF ListedOnce, walking
<1>8. WaitQueued'
  BY <1>1, <1>4, WaitClient DEF walking, bounds
<1> QED
  BY <1>1, <1>4, <1>6, <1>7, <1>8, ClientSInv

LEMMA DeleteFailsSInv ==
  ASSUME SInv, NEW c \in Clients, DeleteFails(c)
  PROVE  SInv'
<1> USE DEF SInv
<1>1. /\ call[c].pc \in {"delete", "deleteAll"} /\ call' = [call EXCEPT ![c] = idle]
      /\ errors' \in Nat /\ errors' # 0
      /\ UNCHANGED <<tasks, waitTasks, maxRunning, status, lock, statusLock, notifies, handlers, doneCh,
                     watching, walk, missed, calls, fails>>
  BY DEF DeleteFails, lists, locks, walking, TypeOK
<1>2. idle \in CallRecord /\ idle.pc = "idle"
  BY DoingTypes, EmptySeq
<1>3. /\ call' \in [Threads -> CallRecord] /\ call'[c].pc = "idle"
      /\ \A u \in Threads : u # c => call'[u] = call[u]
  BY <1>1, <1>2, CallSet, ThreadFacts
<1>4. fetcher' \in [Tasks -> {"none", "idle", "active", "done", "failed"}]
  BY DEF DeleteFails, closed, TypeOK
<1>5. TypeOK'
  BY <1>1, <1>3, <1>4 DEF TypeOK, handlers, watching
<1>6. ListedOnce' /\ WaitQueued' /\ WalkKept'
  BY <1>1, WalkStep DEF ListedOnce, WaitQueued
<1> QED
  BY <1>1, <1>3, <1>5, <1>6, ClientSInv

LEMMA ReturnSInv ==
  ASSUME SInv, NEW c \in Clients, Return(c)
  PROVE  SInv'
<1> USE DEF SInv
<1>1. /\ call[c].pc \in {"pause", "pauseAll", "start", "delete", "deleteAll"} /\ call[c].todo = <<>>
      /\ ~Walks(c) /\ walk' = [walk EXCEPT ![c] = noWalk]
      /\ call' = [call EXCEPT ![c] = idle] /\ notifies' \in Nat
      /\ UNCHANGED <<tasks, waitTasks, maxRunning, status, lock, statusLock, missed, handlers, fetching,
                     watching, bounds>>
  <2>1. notifies' \in Nat
    BY DEF Return, TypeOK
  <2>2. /\ call[c].pc \in {"pause", "pauseAll", "start", "delete", "deleteAll"} /\ call[c].todo = <<>>
        /\ ~Walks(c) /\ walk' = [walk EXCEPT ![c] = noWalk] /\ call' = [call EXCEPT ![c] = idle]
    BY Zenon DEF Return
  <2>3. UNCHANGED <<tasks, waitTasks, maxRunning, status, lock, statusLock, missed, handlers, fetching,
                    watching, bounds>>
    BY DEF Return, lists, locks
  <2> QED
    BY <2>1, <2>2, <2>3, Zenon
<1>2. idle \in CallRecord /\ idle.pc = "idle" /\ noWalk \in WalkRecord /\ noWalk.shared = FALSE
  <2>1. idle \in CallRecord /\ idle.pc = "idle"
    BY DoingTypes, EmptySeq
  <2>2. noWalk \in WalkRecord /\ noWalk.shared = FALSE
    BY EmptySeq DEF noWalk, WalkRecord
  <2> QED
    BY <2>1, <2>2
<1>3. /\ call' \in [Threads -> CallRecord] /\ call'[c].pc = "idle"
      /\ \A u \in Threads : u # c => call'[u] = call[u]
  BY <1>1, <1>2, CallSet, ThreadFacts
<1>4. /\ walk' \in [Clients -> WalkRecord] /\ walk'[c].shared = FALSE
      /\ \A d \in Clients : d # c => walk'[d] = walk[d]
  BY <1>1, <1>2 DEF TypeOK
<1>5. TypeOK'
  BY <1>1, <1>3, <1>4 DEF TypeOK, handlers, fetching, watching, bounds
<1>6. ListedOnce' /\ WalkKept'
  BY <1>1, <1>4 DEF ListedOnce, WalkKept
<1>7. ASSUME NEW d \in Clients, NEW t, WillPause(d, t) PROVE WillPause(d, t)'
  <2>1. d # c
    <3>1. DOMAIN walk[c].view = 1..Len(walk[c].view) /\ Len(walk[c].view) \in Nat /\ walk[c].next \in Nat
      BY LenProperties DEF TypeOK, WalkRecord
    <3>2. ~WillPause(c, t)
      BY <1>1, <3>1, EmptySet DEF WillPause, Walks
    <3> QED
      BY <1>7, <3>2
  <2> QED
    BY <1>3, <1>4, <1>7, <2>1, ThreadFacts, WillPauseSame
<1>8. WaitQueued'
  <2> SUFFICES ASSUME ~missed', errors' = 0 PROVE WaitQueued'
    BY DEF WaitQueued
  <2>1. call'[Notifier] = call[Notifier] /\ ~missed /\ errors = 0
    BY <1>1, <1>3, ThreadFacts DEF bounds
  <2> QED
    BY <1>1, <1>7, <2>1, WaitStep
<1> QED
  BY <1>1, <1>3, <1>5, <1>6, <1>8, ClientSInv

----------------------------------------------------------------------------
(* Whatever the clients call *)

LEMMA MutStepSInv ==
  ASSUME SInv, NEW th \in Threads, MutStep(th)
  PROVE  SInv'
<1> QED
  BY PauseChecksSInv, PauseSetsSInv, StartChecksSInv, StartSetsSInv, StartFailsSInv DEF MutStep

LEMMA InitSInv == Init => SInv
<1> SUFFICES ASSUME Init PROVE SInv
  OBVIOUS
<1> USE DEF Init, SInv
<1>1. idle \in CallRecord /\ idle.pc = "idle" /\ idle.todo = <<>>
  BY DoingTypes, EmptySeq
<1>2. tasks \in Seq(Tasks) /\ Distinct(tasks) /\ ToSet(tasks) \subseteq Restored
  <2>1. IsFiniteSet(Restored) /\ Cardinality(Restored) \in Nat /\ Restored \subseteq Tasks
    BY SchedulerConstants, FS_Subset, FS_CardinalityType DEF SchedulerConstants
  <2>2. /\ tasks \in [1..Cardinality(Restored) -> Restored]
        /\ \A i, j \in 1..Cardinality(Restored) : i # j => tasks[i] # tasks[j]
    BY DEF SetToSeqs
  <2>3. tasks \in Seq(Restored)
    BY <2>1, <2>2
  <2>4. tasks \in Seq(Tasks)
    BY <2>1, <2>2
  <2> QED
    BY <2>2, <2>3, <2>4, SetOfSeq DEF Distinct
<1>3. noWalk \in WalkRecord /\ noWalk.shared = FALSE
  BY EmptySeq DEF noWalk, WalkRecord
<1>4. status \in [Tasks -> Statuses]
  BY DEF Statuses
<1>5. TypeOK
  BY <1>1, <1>2, <1>3, <1>4, EmptySeq, ThreadFacts DEF TypeOK
<1>6. InHand /\ LockHeld
  BY <1>1, ThreadFacts DEF InHand, LockHeld
<1>7. ListedOnce /\ WaitQueued /\ WalkKept
  <2>1. \A t \in ToSet(tasks) : t \in Tasks /\ status[t] # "none" /\ status[t] # "wait"
    BY <1>2, SchedulerConstants DEF SchedulerConstants
  <2>2. \A c \in Clients : walk[c].shared = FALSE
    BY <1>3
  <2> QED
    BY <1>2, <2>1, <2>2 DEF ListedOnce, WaitQueued, AllQueued, WalkKept
<1> QED
  BY <1>5, <1>6, <1>7

LEMMA NextSInv ==
  ASSUME SInv, [Next]_vars
  PROVE  SInv'
<1>1. CASE UNCHANGED vars
  BY <1>1 DEF vars, lists, locks, handlers, fetching, watching, walking, bounds, SInv, TypeOK, InHand, LockHeld,
              ListedOnce, WalkKept, WaitQueued, AllQueued, Queued, WillPause, target
<1>2. ASSUME NEW c \in Clients, ApiCall(c) PROVE SInv'
  BY <1>2, ApiSInv
<1>3. ASSUME NEW c \in Clients, ClientStep(c) PROVE SInv'
  BY <1>3, ThreadFacts, MutStepSInv, CreateWatchesSInv, ContinueCountsSInv, PreemptLooksSInv, PreemptSetsWaitSInv,
     ContinueSplitsSInv, pauseAllBeginsSInv, pauseAllReadsSInv, DeleteRemovesSInv, doDeleteSInv,
     DeleteFailsSInv, ReturnSInv DEF ClientStep
<1>4. CASE notifyRunning \/ MutStep(Notifier)
  BY <1>4, ThreadFacts, notifyRunningSInv, MutStepSInv
<1>5. ASSUME NEW t \in Tasks, HandlerStep(t) \/ WatchStep(t) \/ FetcherEnds(t) \/ TickLocks(t) \/ TickEnds(t)
      PROVE  SInv'
  BY <1>5, HandlerSInv, WatchSInv, TickSInv
<1> QED
  BY <1>1, <1>2, <1>3, <1>4, <1>5 DEF Next, Progress

\* Whatever the clients call, and however the goroutines interleave: the lock is held by
\* who is in its section, a task is listed once, and who waits is still known of.
THEOREM SchedulerInvariant == Spec => []SInv
<1> QED
  BY InitSInv, NextSInv, PTL DEF Spec

\* Every variable has its type.
THEOREM SchedulerTypes == Spec => []TypeOK
<1>1. SInv => TypeOK
  BY DEF SInv
<1> QED
  BY <1>1, SchedulerInvariant, PTL

\* A task that waits is in the wait queue, or in the hands of notifyRunning or pauseAll:
\* doCreate, Continue and its preemption never set a task waiting and forget it.  That
\* no Delete has moved the list while pauseAll ranges over it is a premise (see missed).
THEOREM WaitingIsQueued == Spec => []WaitQueued
<1>1. SInv => WaitQueued
  BY DEF SInv
<1> QED
  BY <1>1, SchedulerInvariant, PTL

----------------------------------------------------------------------------
(* Without Continue: the steps by what they do to lists, calls and lock *)

\* The steps of doStart and doPause that change the call, when nobody continues.
PauseOver(th) ==
  /\ th \in Clients /\ call[th].pc \in {"pause", "pauseAll"} /\ call[th].todo # <<>>
  /\ call'[th].pc = call[th].pc /\ call'[th].todo = Tail(call[th].todo)
  /\ UNCHANGED <<lock, starts, errors>>
  /\ UNCHANGED status \/ status' = [status EXCEPT ![target(th)] = "pause"]
StartOver(th) ==
  /\ AtLock(th) /\ lock = th /\ lock' = Nobody /\ call'[th].pc \in {"watch", "idle"}
  /\ \/ status[target(th)] \in {"running", "done"} /\ UNCHANGED <<status, starts, errors>>
     \/ /\ status' = [status EXCEPT ![target(th)] = "running"]
        /\ starts' = [starts EXCEPT ![target(th)] = @ + 1] /\ UNCHANGED errors
     \/ errors' # 0 /\ UNCHANGED <<status, starts>>

LEMMA MutEffects ==
  ASSUME SInv, QueueInList, NEW th \in Threads, MutStep(th)
  PROVE  /\ UNCHANGED <<tasks, waitTasks, maxRunning, notifies, failing, doneCh, watched>>
         /\ \A t \in Tasks : fetcher'[t] \in {fetcher[t], "idle"}
         /\ \A u \in Threads : u # th => call'[u] = call[u]
         /\ target(th) \in Tasks
         /\ UNCHANGED <<call, lock, status, starts, errors>> \/ PauseOver(th) \/ StartOver(th)
<1> USE DEF SInv
<1>1. IsPausing(th) \/ IsStarting(th)
  BY DEF MutStep, PauseChecks, PauseSets, StartChecks, StartSets, StartFails
<1>2. target(th) \in Tasks
  BY <1>1, TargetTypes
<1>3. /\ UNCHANGED <<tasks, waitTasks, maxRunning, notifies, failing, doneCh, watched>>
      /\ \A t \in Tasks : fetcher'[t] \in {fetcher[t], "idle"}
  <2>1. UNCHANGED <<tasks, waitTasks, maxRunning, notifies, failing, doneCh, watched>>
    BY DEF MutStep, PauseChecks, PauseSets, StartChecks, StartSets, StartFails, lists, handlers, fetching,
           watching
  <2>2. \/ UNCHANGED fetcher
        \/ fetcher' = [fetcher EXCEPT ![target(th)] = IF @ = "none" THEN "idle" ELSE @]
    BY DEF MutStep, PauseChecks, PauseSets, StartChecks, StartSets, StartFails, fetching
  <2>3. \A t \in Tasks : fetcher'[t] \in {fetcher[t], "idle"}
    BY <1>2, <2>2 DEF TypeOK
  <2> QED
    BY <2>1, <2>3
<1>4. Lawful(th) /\ (lock = th <=> Section(th))
  BY LockHeldFacts
<1>5. call[th].pc \notin {"preempting", "start"}
  BY <1>4, ThreadFacts DEF QueueInList, Lawful
<1>6. idle.pc = "idle"
  BY DEF idle
<1>7. ASSUME Proceed(th)
      PROVE  /\ \A u \in Threads : u # th => call'[u] = call[u]
             /\ IsPausing(th) => /\ call[th].pc \in {"pause", "pauseAll"} /\ call[th].todo # <<>>
                                 /\ call'[th].pc = call[th].pc /\ call'[th].todo = Tail(call[th].todo)
                                 /\ lock' = lock /\ th \in Clients
             /\ IsStarting(th) => AtLock(th) /\ lock = th /\ lock' = Nobody /\ call'[th].pc \in {"watch", "idle"}
  <2>1. /\ \A u \in Threads : u # th => call'[u] = call[u]
        /\ call[th].pc = "create" => call'[th].pc = "watch"
        /\ call[th].pc = "run" => call'[th] = idle
        /\ call[th].pc \in {"pause", "pauseAll", "start"} =>
              call'[th].pc = call[th].pc /\ call'[th].todo = Tail(call[th].todo)
        /\ lock' = IF call[th].pc \in {"create", "run"} THEN Nobody ELSE lock
    BY <1>1, <1>7, ProceedCall
  <2>2. ASSUME IsPausing(th) PROVE call[th].pc \in {"pause", "pauseAll"} /\ call[th].todo # <<>> /\ th \in Clients
    BY <1>4, <1>5, <2>2, ThreadFacts DEF IsPausing, Lawful
  <2>3. ASSUME IsStarting(th) PROVE call[th].pc \in {"create", "run"} /\ lock = th
    BY <1>4, <1>5, <2>3, ThreadFacts DEF IsStarting, Lawful, Section
  <2> QED
    BY <1>6, <2>1, <2>2, <2>3 DEF AtLock
<1>8. CASE PauseChecks(th) \/ PauseSets(th)
  <2>1. IsPausing(th) /\ UNCHANGED <<starts, errors>>
    BY <1>8 DEF PauseChecks, PauseSets, handlers, bounds
  <2>2. CASE UNCHANGED <<call, lock, status>>
    BY <1>2, <1>3, <2>1, <2>2
  <2>3. CASE Proceed(th) /\ (UNCHANGED status \/ status' = [status EXCEPT ![target(th)] = "pause"])
    BY <1>2, <1>3, <1>7, <2>1, <2>3 DEF PauseOver
  <2> QED
    BY <1>8, <2>2, <2>3 DEF PauseChecks, PauseSets
<1>9. CASE StartChecks(th) \/ StartSets(th)
  <2>1. IsStarting(th) /\ UNCHANGED errors
    BY <1>9 DEF StartChecks, StartSets, bounds
  <2>2. CASE UNCHANGED <<call, lock, status, starts>>
    BY <1>2, <1>3, <2>1, <2>2
  <2>3. CASE /\ Proceed(th)
             /\ \/ status[target(th)] \in {"running", "done"} /\ UNCHANGED <<status, starts>>
                \/ /\ status' = [status EXCEPT ![target(th)] = "running"]
                   /\ starts' = [starts EXCEPT ![target(th)] = @ + 1]
    BY <1>2, <1>3, <1>7, <2>1, <2>3 DEF StartOver
  <2> QED
    BY <1>9, <2>2, <2>3 DEF StartChecks, StartSets, handlers
<1>10. CASE StartFails(th)
  <2>1. IsStarting(th) /\ errors' # 0 /\ UNCHANGED <<status, starts>> /\ Proceed(th)
    BY <1>5, <1>10 DEF StartFails, handlers, TypeOK
  <2> QED
    BY <1>2, <1>3, <1>7, <2>1 DEF StartOver
<1> QED
  BY <1>8, <1>9, <1>10 DEF MutStep

\* What runs aside of the calls sets no status but error and done.
LEMMA AsideEffects ==
  ASSUME TypeOK, NEW t \in Tasks,
         HandlerStep(t) \/ WatchStep(t) \/ FetcherEnds(t) \/ TickLocks(t) \/ TickEnds(t)
  PROVE  /\ UNCHANGED <<tasks, waitTasks, maxRunning, call, lock>>
         /\ \A u \in Tasks : u # t => status'[u] = status[u]
         /\ status'[t] = status[t] \/ status'[t] \in {"error", "done"}
         /\ UNCHANGED errors
<1> USE DEF lists, locks
<1>1. UNCHANGED <<tasks, waitTasks, maxRunning, call, lock>>
  BY DEF HandlerStep, WatchStep, StartHandled, StartReports, PauseHandled, WatchBegins, WatchFails, WatchReports,
         WatchFinds, WatchDone, WatchEnds, FetcherEnds, TickLocks, TickEnds
<1>2. \/ UNCHANGED status
      \/ status' = [status EXCEPT ![t] = "error"]
      \/ status' = [status EXCEPT ![t] = "done"]
  BY DEF HandlerStep, WatchStep, StartHandled, StartReports, PauseHandled, WatchBegins, WatchFails, WatchReports,
         WatchFinds, WatchDone, WatchEnds, FetcherEnds, TickLocks, TickEnds
<1>3. UNCHANGED errors
  BY DEF HandlerStep, WatchStep, StartHandled, StartReports, PauseHandled, WatchBegins, WatchFails, WatchReports,
         WatchFinds, WatchDone, WatchEnds, FetcherEnds, TickLocks, TickEnds, bounds
<1> QED
  BY <1>1, <1>2, <1>3 DEF TypeOK

\* What the clients call when nobody continues, and the steps of these calls.
LEMMA CallsWithout ==
  ASSUME NoContinue, QueueInList, NEW c \in Clients
  PROVE  /\ ApiCall(c) => \/ \E t \in Tasks : doCreate(c, t)
                          \/ \E ids \in Batches : Pause(c, ids) \/ Delete(c, ids)
                          \/ pauseAll(c) \/ deleteAll(c)
                          \/ \E n \in Limits : PutConfig(c, n)
         /\ ClientStep(c) => \/ MutStep(c) \/ CreateWatches(c) \/ DeleteRemoves(c) \/ doDelete(c)
                             \/ DeleteFails(c) \/ Return(c) \/ pauseAllBegins(c) \/ pauseAllReads(c)
<1>1. \A op : Calls(c, op) => op \in Ops
  BY DEF Calls
<1>2. \A ids : ~Continue(c, ids) /\ ~ContinueBatch(c, ids)
  BY <1>1 DEF Continue, ContinueBatch, NoContinue
<1>3. ~continueAll(c)
  BY <1>1 DEF continueAll, NoContinue
<1>4. ~ContinueCounts(c) /\ ~PreemptLooks(c) /\ ~PreemptSetsWait(c) /\ ~ContinueSplits(c)
  BY DEF QueueInList, ContinueCounts, PreemptLooks, Preempts, PreemptSetsWait, ContinueSplits
<1> QED
  BY <1>2, <1>3, <1>4 DEF ApiCall, ClientStep

LEMMA NoneAtLock ==
  ASSUME LockHeld, NEW th \in Threads, AtLock(th)
  PROVE  lock = th /\ \A u \in Threads : AtLock(u) => u = th
<1> QED
  BY ThreadFacts DEF LockHeld, AtLock

\* What begins a call, and what happens to the calls under way.
Ranges(c) == pauseAllBegins(c) \/ pauseAllReads(c)
Leaves(c) == CreateWatches(c) \/ DeleteFails(c) \/ Return(c)

LEMMA CallEffects ==
  ASSUME SInv, NEW c \in Clients
  PROVE  /\ Leaves(c) => call'[c].pc = "idle" /\ lock' = lock
         /\ Ranges(c) => /\ call'[c].pc = "pauseAll" /\ call[c].pc \in {"cleared", "pauseAll"}
                         /\ lock' = lock
         /\ DeleteRemoves(c) =>
              /\ call[c].pc \in {"deletePicked", "deleting"} /\ call'[c].todo = call[c].todo
              /\ lock \in {Nobody, c} /\ lock' \in {Nobody, c}
              /\ IF Len(call[c].scan) = 1 THEN call'[c].pc = "delete" /\ lock' = Nobody
                                          ELSE call'[c].pc = "deleting"
              /\ Head(call[c].scan) \in Tasks
         /\ doDelete(c) => /\ call'[c].pc = call[c].pc /\ call[c].pc \in {"delete", "deleteAll"}
                           /\ lock' = lock
         /\ Leaves(c) \/ Ranges(c) \/ DeleteRemoves(c) \/ doDelete(c) =>
              /\ \A u \in Threads : u # c => call'[u] = call[u]
              /\ UNCHANGED <<maxRunning, status, handlers, doneCh, watched>>
              /\ \A t \in Tasks : fetcher'[t] \in {fetcher[t], "idle"}
<1> USE DEF SInv
<1>1. c \in Threads /\ call[c] \in CallRecord /\ idle \in CallRecord /\ idle.pc = "idle"
  BY CallTypes, DoingTypes, EmptySeq, ThreadFacts
<1> DEFINE Others == /\ \A u \in Threads : u # c => call'[u] = call[u]
                     /\ UNCHANGED <<maxRunning, status, handlers, doneCh, watched>>
                     /\ \A t \in Tasks : fetcher'[t] \in {fetcher[t], "idle"}
<1>2. ASSUME Leaves(c) PROVE call'[c].pc = "idle" /\ lock' = lock /\ Others
  <2>1. call' = [call EXCEPT ![c] = idle] /\ UNCHANGED <<maxRunning, status, lock, handlers, doneCh, watched>>
    BY <1>2 DEF Leaves, CreateWatches, DeleteFails, Return, locks, fetching, watching
  <2>2. UNCHANGED fetcher \/ fetcher' = [fetcher EXCEPT ![target(c)] = closed(@)]
    BY <1>2 DEF Leaves, CreateWatches, DeleteFails, Return, fetching
  <2>3. \A t \in Tasks : fetcher'[t] \in {fetcher[t], "idle"}
    BY <2>2 DEF closed, TypeOK
  <2>4. call'[c].pc = "idle" /\ \A u \in Threads : u # c => call'[u] = call[u]
    BY <1>1, <2>1, CallSet
  <2> QED
    BY <2>1, <2>3, <2>4
<1>3. ASSUME Ranges(c)
      PROVE  call'[c].pc = "pauseAll" /\ call[c].pc \in {"cleared", "pauseAll"} /\ lock' = lock /\ Others
  <2>1. UNCHANGED <<maxRunning, status, lock, handlers, fetcher, doneCh, watched>>
    BY <1>3 DEF Ranges, pauseAllBegins, pauseAllReads, locks, fetching, watching
  <2>2. /\ call'[c].pc = "pauseAll" /\ call[c].pc \in {"cleared", "pauseAll"}
        /\ \A u \in Threads : u # c => call'[u] = call[u]
    <3>1. CASE pauseAllBegins(c)
      BY <1>1, <3>1 DEF pauseAllBegins, TypeOK, CallRecord
    <3>2. CASE pauseAllReads(c)
      BY <1>1, <3>2 DEF pauseAllReads, Walks, TypeOK, CallRecord
    <3> QED
      BY <1>3, <3>1, <3>2 DEF Ranges
  <2> QED
    BY <2>1, <2>2
<1>4. ASSUME DeleteRemoves(c)
      PROVE  /\ call[c].pc \in {"deletePicked", "deleting"} /\ call'[c].todo = call[c].todo
             /\ lock \in {Nobody, c} /\ lock' \in {Nobody, c}
             /\ IF Len(call[c].scan) = 1 THEN call'[c].pc = "delete" /\ lock' = Nobody
                                         ELSE call'[c].pc = "deleting"
             /\ Head(call[c].scan) \in Tasks
             /\ Others
  <2> DEFINE q == Tail(call[c].scan)
             goto == IF Len(call[c].scan) = 1 THEN "delete" ELSE "deleting"
             k == [call[c] EXCEPT !.pc = goto, !.scan = q]
  <2>1. call' = [call EXCEPT ![c] = k]
    BY <1>4 DEF DeleteRemoves
  <2>2. UNCHANGED <<maxRunning, status, handlers, fetcher, doneCh, watched>>
    BY <1>4 DEF DeleteRemoves, fetching, watching
  <2>3. /\ (call[c].pc = "deletePicked" /\ lock = Nobody) \/ call[c].pc = "deleting"
        /\ lock' = IF Len(call[c].scan) = 1 THEN Nobody ELSE c
    BY <1>4 DEF DeleteRemoves
  <2>4. call[c].scan # <<>> /\ (call[c].pc = "deleting" => lock = c)
    BY <1>1, <2>3 DEF InHand, LockHeld
  <2>5. q \in Seq(Tasks) /\ Head(call[c].scan) \in Tasks
    BY <1>1, <2>4, CallTypes, TailSet
  <2> HIDE DEF q
  <2>6. k \in CallRecord /\ k.pc = goto /\ k.todo = call[c].todo
    BY <1>1, <2>5 DEF CallRecord
  <2> HIDE DEF k
  <2>7. call'[c] = k /\ \A u \in Threads : u # c => call'[u] = call[u]
    BY <1>1, <2>1, <2>6, CallSet
  <2> QED
    BY <2>2, <2>3, <2>4, <2>5, <2>6, <2>7
<1>5. ASSUME doDelete(c)
      PROVE  /\ call'[c].pc = call[c].pc /\ call[c].pc \in {"delete", "deleteAll"} /\ lock' = lock
             /\ Others
  <2> DEFINE k == [call[c] EXCEPT !.todo = Tail(call[c].todo)]
  <2>1. /\ call' = [call EXCEPT ![c] = k] /\ UNCHANGED <<maxRunning, status, lock, handlers, doneCh, watched>>
        /\ call[c].pc \in {"delete", "deleteAll"} /\ call[c].todo # <<>>
        /\ fetcher' = [fetcher EXCEPT ![target(c)] = closed(@)]
    BY <1>1, <1>5 DEF doDelete, TypeOK, locks, watching
  <2>2. Tail(call[c].todo) \in Seq(Tasks)
    BY <1>1, <2>1, CallTypes, TailSet
  <2>3. k \in CallRecord /\ k.pc = call[c].pc
    BY <1>1, <2>2 DEF CallRecord
  <2> HIDE DEF k
  <2>4. \A t \in Tasks : fetcher'[t] \in {fetcher[t], "idle"}
    BY <2>1 DEF closed, TypeOK
  <2> QED
    BY <1>1, <2>1, <2>3, <2>4, CallSet
<1> HIDE DEF Others
<1>6. Leaves(c) \/ Ranges(c) \/ DeleteRemoves(c) \/ doDelete(c) => Others
  BY <1>2, <1>3, <1>4, <1>5
<1> QED
  BY <1>2, <1>3, <1>4, <1>5, <1>6 DEF Others

\* A call begins with the tasks found, and leaves the lists alone.
LEMMA BeginEffects ==
  ASSUME TypeOK, NEW c \in Clients, NEW ids, Pause(c, ids) \/ Delete(c, ids)
  PROVE  /\ call[c].pc = "idle" /\ lock = Nobody
         /\ \A u \in Threads : u # c => call'[u] = call[u]
         /\ UNCHANGED <<tasks, waitTasks, status, lock, maxRunning, notifies, handlers, fetching, watching,
                        errors>>
         /\ \/ /\ Pause(c, ids) /\ call'[c].pc = "pause" /\ call'[c].todo # <<>>
               /\ call'[c].todo = filtered(ids, {"pause", "error", "done"})
            \/ /\ Delete(c, ids) /\ call'[c].pc = "deletePicked" /\ call'[c].todo = filtered(ids, {})
               /\ call'[c].scan = filtered(ids, {}) /\ filtered(ids, {}) # <<>>
<1>1. CASE Pause(c, ids)
  <2> DEFINE found == filtered(ids, {"pause", "error", "done"})
  <2>1. /\ found # <<>> /\ Calls(c, "pause") /\ call' = [call EXCEPT ![c] = doing("pause", found)]
        /\ UNCHANGED <<tasks, waitTasks, status, lock>>
    BY <1>1 DEF Pause, lists
  <2>2. found \in Seq(Tasks)
    BY FilteredSet
  <2> HIDE DEF found
  <2>3. doing("pause", found) \in CallRecord /\ doing("pause", found).pc = "pause" /\ doing("pause", found).todo = found
    BY <2>2, DoingTypes
  <2>4. call'[c].pc = "pause" /\ call'[c].todo = found /\ \A u \in Threads : u # c => call'[u] = call[u]
    BY <2>1, <2>3, CallSet, ThreadFacts
  <2> QED
    BY <1>1, <2>1, <2>4 DEF Calls, found
<1>2. CASE Delete(c, ids)
  <2> DEFINE found == filtered(ids, {})
             d == doing("deletePicked", found)
             k == [d EXCEPT !.scan = found]
  <2>1. /\ Calls(c, "delete") /\ call' = [call EXCEPT ![c] = k] /\ found # <<>>
        /\ UNCHANGED <<tasks, waitTasks, status, lock>>
    BY <1>2 DEF Delete, lists
  <2>2. found \in Seq(Tasks)
    BY FilteredSet
  <2> HIDE DEF found
  <2>3. d \in CallRecord /\ d.pc = "deletePicked" /\ d.todo = found
    BY <2>2, DoingTypes
  <2> HIDE DEF d
  <2>4. k \in CallRecord /\ k.pc = "deletePicked" /\ k.todo = found /\ k.scan = found
    BY <2>2, <2>3 DEF CallRecord
  <2> HIDE DEF k
  <2>5. call'[c] = k /\ \A u \in Threads : u # c => call'[u] = call[u]
    BY <2>1, <2>4, CallSet, ThreadFacts
  <2> QED
    BY <1>2, <2>1, <2>4, <2>5 DEF Calls, found
<1> QED
  BY <1>1, <1>2

\* doCreate: the new task waits, or it is started under the lock.
LEMMA CreateEffects ==
  ASSUME SInv, NEW c \in Clients, NEW t \in Tasks, doCreate(c, t)
  PROVE  /\ call[c].pc = "idle" /\ lock = Nobody /\ status[t] = "none"
         /\ t \notin ToSet(tasks) /\ ToSet(tasks') = ToSet(tasks) \union {t}
         /\ \A u \in Threads : u # c => call'[u] = call[u]
         /\ UNCHANGED <<maxRunning, notifies, handlers, fetching, watching, errors>>
         /\ \A u \in Tasks : u # t => status'[u] = status[u]
         /\ call'[c].todo = <<t>>
         /\ \/ /\ noSlotLeft /\ status'[t] = "wait" /\ waitTasks' = Append(waitTasks, t) /\ lock' = lock
               /\ call'[c].pc = "watch"
            \/ /\ ~noSlotLeft /\ status'[t] = "ready" /\ waitTasks' = waitTasks /\ lock' = c
               /\ call'[c].pc = "create" /\ AtLock(c)' /\ target(c)' = t
<1> USE DEF SInv
<1>1. /\ call[c].pc = "idle" /\ lock = Nobody /\ status[t] = "none" /\ tasks' = Append(tasks, t)
      /\ UNCHANGED <<maxRunning, notifies, handlers, fetching, watching, errors>>
  BY DEF doCreate, Calls
<1>2. t \notin ToSet(tasks) /\ ToSet(tasks') = ToSet(tasks) \union {t}
  BY <1>1, AppendSet DEF TypeOK, ListedOnce
<1>3. <<t>> \in Seq(Tasks) /\ Head(<<t>>) = t
  BY Singleton
<1>4. CASE noSlotLeft
  <2>1. /\ status' = [status EXCEPT ![t] = "wait"] /\ waitTasks' = Append(waitTasks, t) /\ lock' = lock
        /\ call' = [call EXCEPT ![c] = doing("watch", <<t>>)]
    BY <1>4 DEF doCreate
  <2>2. /\ doing("watch", <<t>>) \in CallRecord
        /\ doing("watch", <<t>>).pc = "watch" /\ doing("watch", <<t>>).todo = <<t>>
    BY <1>3, DoingTypes
  <2>3. call'[c].pc = "watch" /\ call'[c].todo = <<t>> /\ \A u \in Threads : u # c => call'[u] = call[u]
    BY <2>1, <2>2, CallSet, ThreadFacts
  <2>4. status'[t] = "wait" /\ \A u \in Tasks : u # t => status'[u] = status[u]
    BY <2>1 DEF TypeOK
  <2> QED
    BY <1>1, <1>2, <1>4, <2>1, <2>3, <2>4
<1>5. CASE ~noSlotLeft
  <2>1. /\ status' = [status EXCEPT ![t] = "ready"] /\ waitTasks' = waitTasks /\ lock' = c
        /\ call' = [call EXCEPT ![c] = doing("create", <<t>>)]
    BY <1>5 DEF doCreate, newStatus
  <2>2. /\ doing("create", <<t>>) \in CallRecord
        /\ doing("create", <<t>>).pc = "create" /\ doing("create", <<t>>).todo = <<t>>
    BY DoingOne
  <2>3. call'[c].pc = "create" /\ call'[c].todo = <<t>> /\ \A u \in Threads : u # c => call'[u] = call[u]
    BY <2>1, <2>2, CallSet, ThreadFacts
  <2>4. status'[t] = "ready" /\ \A u \in Tasks : u # t => status'[u] = status[u]
    BY <2>1 DEF TypeOK
  <2>5. AtLock(c)' /\ target(c)' = t
    BY <1>3, <2>3 DEF AtLock, target
  <2> QED
    BY <1>1, <1>2, <1>5, <2>1, <2>3, <2>4, <2>5
<1> QED
  BY <1>4, <1>5

LEMMA NotifyEffects ==
  ASSUME SInv, notifyRunning
  PROVE  /\ notifies > 0 /\ lock = Nobody /\ notifies' = notifies - 1
         /\ UNCHANGED <<tasks, maxRunning, status, handlers, fetching, watching, errors>>
         /\ \/ (noSlotLeft \/ waitTasks = <<>>) /\ UNCHANGED <<waitTasks, lock, call>>
            \/ /\ ~noSlotLeft /\ waitTasks # <<>> /\ waitTasks' = Tail(waitTasks) /\ lock' = Notifier
               /\ ToSet(waitTasks) = ToSet(waitTasks') \union {Head(waitTasks)}
               /\ \A u \in Threads : u # Notifier => call'[u] = call[u]
               /\ call'[Notifier].pc = "run" /\ AtLock(Notifier)' /\ target(Notifier)' = Head(waitTasks)
               /\ Head(waitTasks) \in Tasks
<1> USE DEF SInv
<1>1. CASE noSlotLeft \/ waitTasks = <<>>
  BY <1>1 DEF notifyRunning, bounds
<1>2. CASE ~(noSlotLeft \/ waitTasks = <<>>)
  <2> DEFINE w == Head(waitTasks)
  <2>1. /\ waitTasks # <<>> /\ waitTasks' = Tail(waitTasks) /\ lock' = Notifier
        /\ call' = [call EXCEPT ![Notifier] = doing("run", <<w>>)]
    BY <1>2 DEF notifyRunning
  <2>2. w \in Tasks /\ ToSet(waitTasks) = ToSet(Tail(waitTasks)) \union {w}
    BY <2>1, TailSet DEF TypeOK
  <2> HIDE DEF w
  <2>3. <<w>> \in Seq(Tasks) /\ Head(<<w>>) = w
    BY <2>2, Singleton
  <2>4. doing("run", <<w>>) \in CallRecord /\ doing("run", <<w>>).pc = "run" /\ doing("run", <<w>>).todo = <<w>>
    BY <2>2, DoingOne
  <2>5. /\ call'[Notifier].pc = "run" /\ call'[Notifier].todo = <<w>>
        /\ \A u \in Threads : u # Notifier => call'[u] = call[u]
    BY <2>1, <2>4, CallSet, ThreadFacts
  <2>6. AtLock(Notifier)' /\ target(Notifier)' = w
    BY <2>3, <2>5 DEF AtLock, target
  <2> QED
    BY <1>2, <2>1, <2>2, <2>5, <2>6 DEF notifyRunning, w, bounds
<1> QED
  BY <1>1, <1>2

LEMMA AllEffects ==
  ASSUME TypeOK, NEW c \in Clients, pauseAll(c) \/ deleteAll(c)
  PROVE  /\ call[c].pc = "idle" /\ lock = Nobody /\ lock' = lock
         /\ \A u \in Threads : u # c => call'[u] = call[u]
         /\ waitTasks' = <<>> /\ (tasks' = tasks \/ tasks' = <<>>)
         /\ UNCHANGED <<maxRunning, status, notifies, handlers, fetching, watching, errors>>
         /\ \/ pauseAll(c) /\ call'[c].pc = "cleared"
            \/ deleteAll(c) /\ call'[c].pc = "deleteAll"
<1>1. /\ doing("cleared", <<>>) \in CallRecord /\ doing("cleared", <<>>).pc = "cleared"
      /\ doing("deleteAll", tasks) \in CallRecord /\ doing("deleteAll", tasks).pc = "deleteAll"
  BY EmptySeq, DoingTypes DEF TypeOK
<1>2. CASE pauseAll(c)
  <2>1. call'[c].pc = "cleared" /\ \A u \in Threads : u # c => call'[u] = call[u]
    BY <1>1, <1>2, CallSet, ThreadFacts DEF pauseAll
  <2> QED
    BY <1>2, <2>1 DEF pauseAll, Calls
<1>3. CASE deleteAll(c)
  <2>1. call'[c].pc = "deleteAll" /\ \A u \in Threads : u # c => call'[u] = call[u]
    BY <1>1, <1>3, CallSet, ThreadFacts DEF deleteAll
  <2> QED
    BY <1>3, <2>1 DEF deleteAll, Calls
<1> QED
  BY <1>2, <1>3

----------------------------------------------------------------------------
(* Without Continue: the queue is part of the list *)

\* The thread that moves is not at the lock afterwards, and starts nothing else.
LEMMA QueueStep ==
  ASSUME QueueInList, NEW th \in Threads, \A u \in Threads : u # th => call'[u] = call[u],
         call'[th].pc \notin {"picked", "preempt", "preempting", "setWait", "start", "create", "run"},
         Distinct(waitTasks'), ToSet(waitTasks') \subseteq ToSet(tasks'),
         UNCHANGED tasks \/ \A u \in Threads : ~AtLock(u)
  PROVE  QueueInList'
<1>1. \A u \in Threads : AtLock(u)' => u # th /\ AtLock(u) /\ target(u)' = target(u)
  BY DEF AtLock, target
<1> QED
  BY <1>1, ThreadFacts DEF QueueInList

LEMMA QueueMut ==
  ASSUME SInv, QueueInList, NEW th \in Threads, MutStep(th)
  PROVE  QueueInList'
<1>1. /\ UNCHANGED <<tasks, waitTasks>> /\ \A u \in Threads : u # th => call'[u] = call[u]
      /\ UNCHANGED call \/ PauseOver(th) \/ StartOver(th)
  BY MutEffects
<1>2. CASE UNCHANGED call
  BY <1>1, <1>2 DEF QueueInList, AtLock, target
<1>3. CASE PauseOver(th) \/ StartOver(th)
  <2>1. call'[th].pc \in {"pause", "pauseAll", "watch", "idle"}
    BY <1>3 DEF PauseOver, StartOver
  <2> QED
    BY <1>1, <2>1, QueueStep DEF QueueInList
<1> QED
  BY <1>1, <1>2, <1>3

LEMMA QueueApi ==
  ASSUME NoContinue, SInv, QueueInList, NEW c \in Clients, ApiCall(c)
  PROVE  QueueInList'
<1> USE DEF SInv
<1>0. c \in Threads /\ Distinct(waitTasks) /\ ToSet(waitTasks) \subseteq ToSet(tasks)
  BY ThreadFacts DEF QueueInList
<1>1. ASSUME NEW t \in Tasks, doCreate(c, t) PROVE QueueInList'
  <2>1. /\ lock = Nobody /\ t \notin ToSet(tasks) /\ ToSet(tasks') = ToSet(tasks) \union {t}
        /\ \A u \in Threads : u # c => call'[u] = call[u]
        /\ \/ waitTasks' = Append(waitTasks, t) /\ call'[c].pc = "watch"
           \/ waitTasks' = waitTasks /\ call'[c].pc = "create" /\ target(c)' = t
    BY <1>1, CreateEffects
  <2>2. \A u \in Threads : ~AtLock(u)
    BY <2>1, NoneAtLock, ThreadFacts
  <2>3. Distinct(waitTasks') /\ ToSet(waitTasks') \subseteq ToSet(tasks')
    <3>1. waitTasks \in Seq(Tasks) /\ t \notin ToSet(waitTasks)
      BY <1>0, <2>1 DEF TypeOK
    <3>2. /\ ToSet(Append(waitTasks, t)) = ToSet(waitTasks) \union {t}
          /\ Distinct(Append(waitTasks, t))
      BY <1>0, <3>1, AppendSet
    <3> QED
      BY <1>0, <2>1, <3>2
  <2>4. \A u \in Threads : AtLock(u)' => u = c
    BY <2>1, <2>2 DEF AtLock
  <2>5. AtLock(c)' => target(c)' \in ToSet(tasks')
    BY <2>1 DEF AtLock
  <2>6. \A d \in Clients : call'[d].pc \notin {"picked", "preempt", "preempting", "setWait", "start"}
    BY <2>1, ThreadFacts DEF QueueInList
  <2> QED
    BY <2>3, <2>4, <2>5, <2>6 DEF QueueInList
<1>2. ASSUME NEW ids, Pause(c, ids) \/ Delete(c, ids) PROVE QueueInList'
  <2>1. /\ \A u \in Threads : u # c => call'[u] = call[u]
        /\ UNCHANGED <<tasks, waitTasks>> /\ call'[c].pc \in {"pause", "deletePicked"}
    BY <1>2, BeginEffects
  <2> QED
    BY <1>0, <2>1, QueueStep
<1>3. CASE pauseAll(c) \/ deleteAll(c)
  <2>1. /\ lock = Nobody /\ \A u \in Threads : u # c => call'[u] = call[u]
        /\ waitTasks' = <<>> /\ call'[c].pc \in {"cleared", "deleteAll"}
    BY <1>3, AllEffects
  <2>2. \A u \in Threads : ~AtLock(u)
    BY <2>1, NoneAtLock, ThreadFacts
  <2>3. Distinct(waitTasks') /\ ToSet(waitTasks') \subseteq ToSet(tasks')
    BY <2>1, EmptySet DEF Distinct
  <2> QED
    BY <1>0, <2>1, <2>2, <2>3, QueueStep
<1>4. ASSUME NEW n, PutConfig(c, n) PROVE QueueInList'
  BY <1>4 DEF PutConfig, lists, QueueInList, AtLock, target
<1> QED
  BY <1>1, <1>2, <1>3, <1>4, CallsWithout

LEMMA QueueClient ==
  ASSUME NoContinue, SInv, QueueInList, NEW c \in Clients, ClientStep(c)
  PROVE  QueueInList'
<1> USE DEF SInv
<1>0. c \in Threads /\ Distinct(waitTasks) /\ ToSet(waitTasks) \subseteq ToSet(tasks)
  BY ThreadFacts DEF QueueInList
<1>1. CASE MutStep(c)
  BY <1>0, <1>1, QueueMut
<1>2. CASE Leaves(c) \/ Ranges(c) \/ doDelete(c)
  <2>1. /\ \A u \in Threads : u # c => call'[u] = call[u]
        /\ call'[c].pc \in {"idle", "pauseAll", "delete", "deleteAll"}
    BY <1>2, CallEffects
  <2>2. UNCHANGED <<tasks, waitTasks>>
    BY <1>2 DEF Leaves, Ranges, CreateWatches, pauseAllBegins, pauseAllReads, doDelete, DeleteFails, Return, lists
  <2> QED
    BY <1>0, <2>1, <2>2, QueueStep
<1>3. CASE DeleteRemoves(c)
  <2> DEFINE t == Head(call[c].scan)
  <2>1. tasks' = without(tasks, <<t>>) /\ waitTasks' = without(waitTasks, <<t>>)
    BY <1>3 DEF DeleteRemoves, queueWithout
  <2>2. /\ call[c].pc \in {"deletePicked", "deleting"} /\ lock \in {Nobody, c} /\ t \in Tasks
        /\ call'[c].pc \in {"delete", "deleting"} /\ \A u \in Threads : u # c => call'[u] = call[u]
    BY <1>3, CallEffects
  <2> HIDE DEF t
  <2>3. <<t>> \in Seq(Tasks)
    BY <2>2
  <2>4. ToSet(tasks') = ToSet(tasks) \ ToSet(<<t>>)
    BY <2>1, <2>3, WithoutSet DEF TypeOK, ListedOnce
  <2>5. Distinct(waitTasks') /\ ToSet(waitTasks') = ToSet(waitTasks) \ ToSet(<<t>>)
    BY <1>0, <2>1, <2>3, WithoutSet DEF TypeOK
  <2>6. \A u \in Threads : ~AtLock(u)
    <3>1. \A u \in Threads : AtLock(u) => u = c
      BY <2>2, NoneAtLock, ThreadFacts
    <3> QED
      BY <2>2, <3>1 DEF AtLock
  <2> QED
    BY <1>0, <2>2, <2>4, <2>5, <2>6, QueueStep
<1> QED
  BY <1>1, <1>2, <1>3, CallsWithout DEF Leaves, Ranges

LEMMA QueueNotify ==
  ASSUME SInv, QueueInList, notifyRunning
  PROVE  QueueInList'
<1> USE DEF SInv
<1>0. Distinct(waitTasks) /\ ToSet(waitTasks) \subseteq ToSet(tasks)
  BY DEF QueueInList
<1>1. lock = Nobody /\ UNCHANGED tasks
  BY NotifyEffects
<1>2. CASE UNCHANGED <<waitTasks, lock, call>>
  BY <1>1, <1>2 DEF QueueInList, AtLock, target
<1>3. CASE /\ waitTasks # <<>> /\ waitTasks' = Tail(waitTasks)
           /\ ToSet(waitTasks) = ToSet(waitTasks') \union {Head(waitTasks)}
           /\ \A u \in Threads : u # Notifier => call'[u] = call[u]
           /\ target(Notifier)' = Head(waitTasks)
  <2>1. Distinct(waitTasks')
    BY <1>0, <1>3, TailSet DEF TypeOK
  <2>2. \A u \in Threads : ~AtLock(u)
    BY <1>1, NoneAtLock, ThreadFacts
  <2>3. \A u \in Threads : AtLock(u)' => u = Notifier
    BY <1>3, <2>2 DEF AtLock
  <2>4. \A d \in Clients : call'[d] = call[d]
    BY <1>3, ThreadFacts
  <2> QED
    BY <1>0, <1>1, <1>3, <2>1, <2>3, <2>4 DEF QueueInList
<1> QED
  BY <1>2, <1>3, NotifyEffects

LEMMA InitQueue == Init => QueueInList
<1> SUFFICES ASSUME Init PROVE QueueInList
  OBVIOUS
<1>1. idle.pc = "idle"
  BY DEF idle
<1>2. \A th \in Threads : call[th].pc = "idle"
  BY <1>1 DEF Init
<1>3. waitTasks = <<>>
  BY DEF Init
<1> QED
  BY <1>2, <1>3, EmptySet, ThreadFacts DEF QueueInList, Distinct, AtLock

LEMMA NextQueue ==
  ASSUME NoContinue, SInv, QueueInList, [Next]_vars
  PROVE  QueueInList'
<1>1. CASE UNCHANGED vars
  BY <1>1 DEF vars, lists, QueueInList, AtLock, target
<1>2. ASSUME NEW c \in Clients, ApiCall(c) \/ ClientStep(c) PROVE QueueInList'
  BY <1>2, QueueApi, QueueClient
<1>3. CASE notifyRunning \/ MutStep(Notifier)
  BY <1>3, QueueNotify, QueueMut, ThreadFacts
<1>4. ASSUME NEW t \in Tasks, HandlerStep(t) \/ WatchStep(t) \/ FetcherEnds(t) \/ TickLocks(t) \/ TickEnds(t)
      PROVE  QueueInList'
  <2>1. UNCHANGED <<tasks, waitTasks, call>>
    BY <1>4, AsideEffects DEF SInv
  <2> QED
    BY <2>1 DEF QueueInList, AtLock, target
<1> QED
  BY <1>1, <1>2, <1>3, <1>4 DEF Next, Progress

\* Who sets a task running holds d.lock, and the task is in the list.
LEMMA StartsAtLock ==
  ASSUME NoContinue, SInv, QueueInList, [Next]_vars, NEW t \in Tasks, Starts(t)
  PROVE  \E th \in Threads : AtLock(th) /\ lock = th /\ target(th) = t
<1> USE DEF SInv
<1>1. status[t] # "running" /\ status'[t] = "running"
  BY DEF Starts
<1>2. ASSUME NEW th \in Threads, MutStep(th) PROVE AtLock(th) /\ lock = th /\ target(th) = t
  <2>1. target(th) \in Tasks /\ (UNCHANGED status \/ PauseOver(th) \/ StartOver(th))
    BY <1>2, MutEffects
  <2> QED
    BY <1>1, <2>1 DEF PauseOver, StartOver, TypeOK
<1>3. ASSUME NEW c \in Clients, ApiCall(c) PROVE FALSE
  <2>1. ASSUME NEW u \in Tasks, doCreate(c, u) PROVE FALSE
    BY <1>1, <2>1, CreateEffects
  <2>2. ASSUME NEW ids, Pause(c, ids) \/ Delete(c, ids) PROVE FALSE
    BY <1>1, <2>2, BeginEffects
  <2>3. ASSUME pauseAll(c) \/ deleteAll(c) PROVE FALSE
    BY <1>1, <2>3, AllEffects
  <2>4. ASSUME NEW n, PutConfig(c, n) PROVE FALSE
    BY <1>1, <2>4 DEF PutConfig
  <2> QED
    BY <1>3, <2>1, <2>2, <2>3, <2>4, CallsWithout
<1>4. ASSUME NEW c \in Clients, ClientStep(c) PROVE MutStep(c)
  <2>1. ~Leaves(c) /\ ~Ranges(c) /\ ~DeleteRemoves(c) /\ ~doDelete(c)
    BY <1>1, CallEffects
  <2> QED
    BY <1>4, <2>1, CallsWithout DEF Leaves, Ranges
<1>5. ~notifyRunning
  BY <1>1, NotifyEffects
<1>6. ASSUME NEW u \in Tasks, HandlerStep(u) \/ WatchStep(u) \/ FetcherEnds(u) \/ TickLocks(u) \/ TickEnds(u)
      PROVE  FALSE
  BY <1>1, <1>6, AsideEffects
<1>7. ~UNCHANGED vars
  BY <1>1 DEF vars
<1> QED
  BY <1>2, <1>3, <1>4, <1>5, <1>6, <1>7, ThreadFacts DEF Next, Progress

\* If no client calls Continue, a task that was deleted is never set running: the only
\* starts are those of doCreate and notifyRunning, under d.lock, of tasks of the list.
THEOREM DeletedStaysStopped ==
  ASSUME NoContinue
  PROVE  Spec => DeletedNeverStarts
<1>1. SInv /\ QueueInList /\ [Next]_vars => (SInv /\ QueueInList)'
  BY NextSInv, NextQueue
<1>2. SInv /\ QueueInList /\ [Next]_vars => [\A t \in Tasks : Starts(t) => t \in ToSet(tasks)]_vars
  <2> SUFFICES ASSUME SInv, QueueInList, [Next]_vars, NEW t \in Tasks, Starts(t)
               PROVE  t \in ToSet(tasks)
    OBVIOUS
  <2> QED
    BY StartsAtLock DEF QueueInList
<1> QED
  BY <1>1, <1>2, InitSInv, InitQueue, PTL DEF Spec, DeletedNeverStarts

----------------------------------------------------------------------------
(* Without Continue and PutConfig: the limit *)

\* Fewer tasks run, and who takes d.lock found a slot.
LEMMA LimitStep ==
  ASSUME TypeOK, LimitKept, UNCHANGED maxRunning,
         \A u \in ToSet(tasks') : status'[u] = "running" => u \in Running,
         \A th \in Threads : AtLock(th)' => AtLock(th) \/ Cardinality(Running) # maxRunning
  PROVE  LimitKept'
<1>1. IsFiniteSet(Running) /\ Cardinality(Running) \in Nat /\ maxRunning \in Nat
  BY CountTypes
<1>2. Running' \subseteq Running
  BY DEF Running
<1>3. Cardinality(Running') \in Nat /\ Cardinality(Running') <= Cardinality(Running)
  BY <1>1, <1>2, FS_Subset, FS_CardinalityType
<1> QED
  BY <1>1, <1>3 DEF LimitKept

LEMMA LimitMut ==
  ASSUME SInv, QueueInList, LimitKept, NEW th \in Threads, MutStep(th)
  PROVE  LimitKept'
<1> USE DEF SInv
<1>1. /\ UNCHANGED <<tasks, maxRunning>> /\ target(th) \in Tasks /\ ToSet(tasks) \subseteq Tasks
      /\ UNCHANGED <<call, lock, status>> \/ PauseOver(th) \/ StartOver(th)
  BY MutEffects, SetOfSeq DEF TypeOK
<1>0. \A u \in Threads : u # th => (AtLock(u)' <=> AtLock(u))
  BY MutEffects DEF AtLock
<1>2. CASE UNCHANGED <<call, lock, status>>
  BY <1>1, <1>2, LimitStep DEF Running, AtLock
<1>3. CASE PauseOver(th)
  <2>1. /\ ~AtLock(th)' /\ \A u \in Tasks : status'[u] = "running" => status[u] = "running"
    BY <1>1, <1>3 DEF PauseOver, TypeOK, AtLock
  <2> QED
    BY <1>0, <1>1, <2>1, LimitStep DEF Running
<1>4. CASE StartOver(th)
  <2>1. AtLock(th) /\ \A u \in Threads : ~AtLock(u)'
    <3>1. AtLock(th) /\ ~AtLock(th)'
      BY <1>4 DEF StartOver, AtLock
    <3> QED
      BY <1>0, <3>1, NoneAtLock
  <2>2. \A u \in Tasks : u # target(th) => status'[u] = status[u]
    BY <1>1, <1>4 DEF StartOver, TypeOK
  <2>3. Running' \subseteq Running \union {target(th)}
    BY <1>1, <2>2 DEF Running
  <2>4. IsFiniteSet(Running) /\ Cardinality(Running) \in Nat /\ maxRunning \in Nat
    BY CountTypes
  <2>5. /\ IsFiniteSet(Running \union {target(th)})
        /\ Cardinality(Running \union {target(th)}) <= Cardinality(Running) + 1
        /\ Cardinality(Running \union {target(th)}) \in Nat
    <3> DEFINE R == Running \union {target(th)}
    <3>1. IsFiniteSet(R) /\ (Cardinality(R) = Cardinality(Running) \/ Cardinality(R) = Cardinality(Running) + 1)
      BY <2>4, FS_AddElement
    <3>2. Cardinality(R) \in Nat
      BY <3>1, FS_CardinalityType
    <3> QED
      BY <2>4, <3>1, <3>2
  <2>6. /\ Cardinality(Running') <= Cardinality(Running \union {target(th)})
        /\ Cardinality(Running') \in Nat
    BY <2>3, <2>5, FS_Subset, FS_CardinalityType
  <2> QED
    BY <1>1, <2>1, <2>4, <2>5, <2>6 DEF LimitKept
<1> QED
  BY <1>1, <1>2, <1>3, <1>4

LEMMA NextLimit ==
  ASSUME NoContinue, "config" \notin Ops, SInv, QueueInList, LimitKept, [Next]_vars
  PROVE  LimitKept'
<1> USE DEF SInv
<1>0. ToSet(tasks) \subseteq Tasks /\ Cardinality(Running) \in Nat /\ maxRunning \in Nat
  BY SetOfSeq, CountTypes DEF TypeOK
<1>1. CASE UNCHANGED vars
  BY <1>1, LimitStep DEF vars, lists, Running, AtLock
<1>2. ASSUME NEW c \in Clients, ApiCall(c) PROVE LimitKept'
  <2>1. ASSUME NEW t \in Tasks, doCreate(c, t) PROVE LimitKept'
    <3>1. /\ lock = Nobody /\ ToSet(tasks') = ToSet(tasks) \union {t} /\ UNCHANGED maxRunning
          /\ status'[t] # "running" /\ \A u \in Tasks : u # t => status'[u] = status[u]
          /\ call'[c].pc = "watch" \/ ~noSlotLeft
          /\ \A u \in Threads : u # c => call'[u] = call[u]
      BY <2>1, CreateEffects
    <3>2. \A u \in Threads : AtLock(u)' => AtLock(u) \/ Cardinality(Running) # maxRunning
      BY <1>0, <3>1 DEF noSlotLeft, remainRunningCount, AtLock
    <3> QED
      BY <1>0, <3>1, <3>2, LimitStep DEF Running
  <2>2. ASSUME NEW ids, Pause(c, ids) \/ Delete(c, ids) PROVE LimitKept'
    <3>1. /\ UNCHANGED <<tasks, status, maxRunning>> /\ \A u \in Threads : u # c => call'[u] = call[u]
          /\ call'[c].pc \in {"pause", "deletePicked"}
      BY <2>2, BeginEffects
    <3>2. \A u \in Threads : AtLock(u)' => AtLock(u)
      BY <3>1 DEF AtLock
    <3> QED
      BY <3>1, <3>2, LimitStep DEF Running
  <2>3. CASE pauseAll(c) \/ deleteAll(c)
    <3>1. /\ tasks' = tasks \/ tasks' = <<>>
          /\ UNCHANGED <<status, maxRunning>> /\ \A u \in Threads : u # c => call'[u] = call[u]
          /\ call'[c].pc \in {"cleared", "deleteAll"}
      BY <2>3, AllEffects
    <3>2. \A u \in Threads : AtLock(u)' => AtLock(u)
      BY <3>1 DEF AtLock
    <3> QED
      BY <3>1, <3>2, EmptySet, LimitStep DEF Running
  <2>4. \A n \in Limits : ~PutConfig(c, n)
    BY DEF PutConfig
  <2> QED
    BY <1>2, <2>1, <2>2, <2>3, <2>4, CallsWithout
<1>3. ASSUME NEW c \in Clients, ClientStep(c) PROVE LimitKept'
  <2>1. CASE MutStep(c)
    BY <2>1, LimitMut, ThreadFacts
  <2>2. CASE Leaves(c) \/ Ranges(c) \/ DeleteRemoves(c) \/ doDelete(c)
    <3>1. /\ UNCHANGED <<maxRunning, status>> /\ \A u \in Threads : u # c => call'[u] = call[u]
          /\ call'[c].pc \notin {"create", "run"}
      BY <2>2, CallEffects
    <3>2. ToSet(tasks') \subseteq ToSet(tasks)
      <4>1. CASE Leaves(c) \/ Ranges(c) \/ doDelete(c)
        BY <4>1 DEF Leaves, Ranges, CreateWatches, pauseAllBegins, pauseAllReads, doDelete, DeleteFails, Return, lists
      <4>2. CASE DeleteRemoves(c)
        <5> DEFINE f == <<Head(call[c].scan)>>
        <5>1. Head(call[c].scan) \in Tasks
          BY <4>2, CallEffects
        <5>2. f \in Seq(Tasks)
          BY <5>1
        <5>3. tasks' = without(tasks, f)
          BY <4>2 DEF DeleteRemoves
        <5> HIDE DEF f
        <5>4. tasks \in Seq(Tasks)
          BY DEF TypeOK
        <5> QED
          BY <5>2, <5>3, <5>4, WithoutSet
      <4> QED
        BY <2>2, <4>1, <4>2
    <3>3. \A u \in Threads : AtLock(u)' => AtLock(u)
      BY <3>1 DEF AtLock
    <3> QED
      BY <3>1, <3>2, <3>3, LimitStep DEF Running
  <2> QED
    BY <1>3, <2>1, <2>2, CallsWithout DEF Leaves, Ranges
<1>4. CASE notifyRunning
  <2>1. UNCHANGED <<tasks, status, maxRunning>> /\ (UNCHANGED call \/ ~noSlotLeft)
    BY <1>4, NotifyEffects
  <2>2. \A u \in Threads : AtLock(u)' => AtLock(u) \/ Cardinality(Running) # maxRunning
    BY <1>0, <2>1 DEF noSlotLeft, remainRunningCount, AtLock
  <2> QED
    BY <2>1, <2>2, LimitStep DEF Running
<1>5. CASE MutStep(Notifier)
  BY <1>5, LimitMut, ThreadFacts
<1>6. ASSUME NEW t \in Tasks, HandlerStep(t) \/ WatchStep(t) \/ FetcherEnds(t) \/ TickLocks(t) \/ TickEnds(t)
      PROVE  LimitKept'
  <2>1. /\ UNCHANGED <<tasks, maxRunning, call>>
        /\ \A u \in Tasks : status'[u] = "running" => status[u] = "running"
    BY <1>6, AsideEffects
  <2> QED
    BY <1>0, <2>1, LimitStep DEF Running, AtLock
<1> QED
  BY <1>1, <1>2, <1>3, <1>4, <1>5, <1>6 DEF Next, Progress

LEMMA InitLimit == Init => LimitKept
<1> SUFFICES ASSUME Init PROVE LimitKept
  OBVIOUS
<1>1. Running = {} /\ maxRunning \in Nat /\ \A th \in Threads : ~AtLock(th)
  <2>1. \A t \in Tasks : status[t] # "running"
    BY DEF Init
  <2>2. ToSet(tasks) \subseteq Tasks
    BY InitSInv, SetOfSeq DEF SInv, TypeOK
  <2>3. idle.pc = "idle"
    BY DEF idle
  <2> QED
    BY <2>1, <2>2, <2>3, SchedulerConstants DEF Init, Running, SchedulerConstants, AtLock
<1> QED
  BY <1>1, FS_EmptySet DEF LimitKept

\* If no client calls Continue or changes the configuration, a task is set running only
\* while fewer than MaxRunning tasks run: the slot that doCreate and notifyRunning saw
\* free under d.lock is still free when doStart sets the status.
THEOREM LimitIsKept ==
  ASSUME NoContinue, "config" \notin Ops
  PROVE  Spec => StartsWithinLimit
<1> DEFINE Inv == SInv /\ QueueInList /\ LimitKept
<1>1. Init => Inv
  BY InitSInv, InitQueue, InitLimit
<1>2. Inv /\ [Next]_vars => Inv'
  BY NextSInv, NextQueue, NextLimit
<1>3. Inv /\ [Next]_vars => [\A t \in Tasks : Starts(t) => Cardinality(Running) < maxRunning]_vars
  <2> SUFFICES ASSUME Inv, [Next]_vars, NEW t \in Tasks, Starts(t)
               PROVE  Cardinality(Running) < maxRunning
    OBVIOUS
  <2> QED
    BY StartsAtLock, ThreadFacts DEF LimitKept
<1> HIDE DEF Inv
<1> QED
  BY <1>1, <1>2, <1>3, PTL DEF Spec, StartsWithinLimit

----------------------------------------------------------------------------
(* One task in a filter *)

LEMMA FilteredOne ==
  ASSUME SInv, Batch = 1, NEW ids \in Batches, NEW not
  PROVE  /\ Len(filtered(ids, not)) <= 1
         /\ \E x \in Tasks : ids = {x} /\ ToSet(filtered(ids, not)) \subseteq {x}
<1> USE DEF SInv
<1> DEFINE I == {i \in DOMAIN tasks : tasks[i] \in ids /\ status[tasks[i]] \notin not}
<1>1. ids \subseteq Tasks /\ ids # {} /\ Cardinality(ids) <= 1 /\ IsFiniteSet(ids)
  BY FS_Subset, SchedulerConstants DEF Batches, SchedulerConstants
<1>2. \E x : ids = {x}
  <2>1. Cardinality(ids) \in Nat /\ Cardinality(ids) # 0
    BY <1>1, FS_EmptySet, FS_CardinalityType
  <2>2. Cardinality(ids) = 1
    BY <1>1, <2>1
  <2> QED
    BY <1>1, <2>2, FS_Singleton
<1>3. PICK x \in Tasks : ids = {x}
  BY <1>1, <1>2
<1>4. \A i, k \in I : i = k
  BY <1>3 DEF ListedOnce, Distinct
<1>5. I = {} \/ \E i : I = {i}
  BY <1>4
<1>6. Cardinality(I) <= 1
  <2> HIDE DEF I
  <2>1. CASE I = {}
    BY <2>1, FS_EmptySet
  <2>2. ASSUME NEW i, I = {i} PROVE Cardinality(I) <= 1
    <3>1. Cardinality({i}) = 1
      BY FS_Singleton
    <3> QED
      BY <2>2, <3>1
  <2> QED
    BY <1>5, <2>1, <2>2
<1>7. I \subseteq DOMAIN tasks /\ tasks \in Seq(Tasks)
  BY DEF TypeOK
<1>8. Len(filtered(ids, not)) = Cardinality(I)
  BY <1>7, EntriesSet DEF filtered
<1>9. ToSet(filtered(ids, not)) \subseteq {x}
  BY <1>3, FilteredSet
<1> QED
  BY <1>3, <1>6, <1>8, <1>9

LEMMA OneStep ==
  ASSUME OneInFilter, NEW th \in Threads, \A u \in Threads : u # th => call'[u] = call[u],
         \/ th = Notifier
         \/ call'[th].pc \notin {"cleared", "pauseAll", "deleting", "pause", "deletePicked"}
         \/ call'[th].pc = "pause" /\ Len(call'[th].todo) <= 1
         \/ call'[th].pc = "deletePicked" /\ Len(call'[th].todo) <= 1 /\ Len(call'[th].scan) = 1
  PROVE  OneInFilter'
<1> QED
  BY ThreadFacts DEF OneInFilter

LEMMA OneMut ==
  ASSUME SInv, QueueInList, OneInFilter, NEW th \in Threads, MutStep(th)
  PROVE  OneInFilter'
<1> USE DEF SInv
<1>1. /\ \A u \in Threads : u # th => call'[u] = call[u]
      /\ UNCHANGED call \/ PauseOver(th) \/ StartOver(th)
  BY MutEffects
<1>2. CASE PauseOver(th)
  <2>1. /\ th \in Clients /\ call'[th].pc = "pause" /\ call'[th].todo = Tail(call[th].todo)
        /\ Len(call[th].todo) <= 1 /\ call[th].todo # <<>>
    BY <1>2 DEF PauseOver, OneInFilter
  <2>2. Len(call'[th].todo) <= 1
    BY <2>1, CallTypes, TailSet
  <2> QED
    BY <1>1, <2>1, <2>2, OneStep
<1>3. CASE UNCHANGED call
  BY <1>3 DEF OneInFilter
<1>4. CASE StartOver(th)
  BY <1>1, <1>4, OneStep DEF StartOver
<1> QED
  BY <1>1, <1>2, <1>3, <1>4

LEMMA NextOne ==
  ASSUME NoContinue, "pauseAll" \notin Ops, Batch = 1, SInv, QueueInList, OneInFilter, [Next]_vars
  PROVE  OneInFilter'
<1> USE DEF SInv
<1>1. CASE UNCHANGED vars
  BY <1>1 DEF vars, OneInFilter
<1>2. ASSUME NEW c \in Clients, ApiCall(c) PROVE OneInFilter'
  <2>1. ASSUME NEW t \in Tasks, doCreate(c, t) PROVE OneInFilter'
    BY <2>1, CreateEffects, OneStep, ThreadFacts
  <2>2. ASSUME NEW ids \in Batches, Pause(c, ids) \/ Delete(c, ids) PROVE OneInFilter'
    <3>1. \A u \in Threads : u # c => call'[u] = call[u]
      BY <2>2, BeginEffects
    <3>2. \/ call'[c].pc = "pause" /\ call'[c].todo = filtered(ids, {"pause", "error", "done"})
          \/ /\ call'[c].pc = "deletePicked" /\ call'[c].todo = filtered(ids, {})
             /\ call'[c].scan = filtered(ids, {}) /\ filtered(ids, {}) # <<>>
      BY <2>2, BeginEffects
    <3>3. Len(filtered(ids, {"pause", "error", "done"})) <= 1 /\ Len(filtered(ids, {})) <= 1
      BY FilteredOne
    <3>5. filtered(ids, {}) \in Seq(Tasks)
      BY FilteredSet
    <3>4. filtered(ids, {}) # <<>> => Len(filtered(ids, {})) = 1
      <4> DEFINE f == filtered(ids, {})
      <4>1. f \in Seq(Tasks) /\ Len(f) <= 1
        BY <3>3, <3>5
      <4> HIDE DEF f
      <4>2. ASSUME f # <<>> PROVE Len(f) = 1
        <5>1. Len(f) \in Nat /\ Len(f) > 0
          BY <4>1, <4>2, TailSet
        <5>2. \A n \in Nat : n <= 1 /\ n > 0 => n = 1
          OBVIOUS
        <5> QED
          BY <4>1, <5>1, <5>2, Zenon
      <4> QED
        BY <4>2 DEF f
    <3> QED
      BY <3>1, <3>2, <3>3, <3>4, OneStep, ThreadFacts
  <2>3. ~pauseAll(c)
    BY DEF pauseAll, Calls
  <2>4. CASE deleteAll(c)
    <3>1. call'[c].pc = "deleteAll" /\ \A u \in Threads : u # c => call'[u] = call[u]
      BY <2>3, <2>4, AllEffects
    <3> QED
      BY <3>1, OneStep, ThreadFacts
  <2>5. ASSUME NEW n \in Limits, PutConfig(c, n) PROVE OneInFilter'
    BY <2>5 DEF PutConfig, OneInFilter
  <2> QED
    BY <1>2, <2>1, <2>2, <2>3, <2>4, <2>5, CallsWithout
<1>3. ASSUME NEW c \in Clients, ClientStep(c) PROVE OneInFilter'
  <2>1. CASE MutStep(c)
    BY <2>1, OneMut, ThreadFacts
  <2>2. ~Ranges(c)
    BY CallEffects DEF OneInFilter
  <2>3. CASE Leaves(c) \/ doDelete(c) \/ DeleteRemoves(c)
    <3>1. /\ \A u \in Threads : u # c => call'[u] = call[u]
          /\ call'[c].pc \in {"idle", "delete", "deleteAll"}
      <4>1. CASE Leaves(c) \/ doDelete(c)
        BY <4>1, CallEffects
      <4>2. CASE DeleteRemoves(c)
        <5>1. call[c].pc # "deleting" /\ (call[c].pc = "deletePicked" => Len(call[c].scan) = 1)
          BY DEF OneInFilter
        <5> QED
          BY <4>2, <5>1, CallEffects
      <4> QED
        BY <2>3, <4>1, <4>2
    <3> QED
      BY <3>1, OneStep, ThreadFacts
  <2> QED
    BY <1>3, <2>1, <2>2, <2>3, CallsWithout DEF Leaves, Ranges
<1>4. CASE notifyRunning
  <2>1. UNCHANGED call \/ \A u \in Threads : u # Notifier => call'[u] = call[u]
    BY <1>4, NotifyEffects
  <2> QED
    BY <2>1, OneStep, ThreadFacts DEF OneInFilter
<1>5. CASE MutStep(Notifier)
  BY <1>5, OneMut, ThreadFacts
<1>6. ASSUME NEW t \in Tasks, HandlerStep(t) \/ WatchStep(t) \/ FetcherEnds(t) \/ TickLocks(t) \/ TickEnds(t)
      PROVE  OneInFilter'
  BY <1>6, AsideEffects DEF OneInFilter
<1> QED
  BY <1>1, <1>2, <1>3, <1>4, <1>5, <1>6 DEF Next, Progress

----------------------------------------------------------------------------
(* A task whose turn is to come *)

Fresh(t) ==
  /\ starts[t] = 0 /\ failing[t] = 0 /\ doneCh[t] = "empty"
  /\ fetcher[t] # "active" /\ watched[t] \in {"none", "wait"}

LEMMA BegunStep ==
  ASSUME NotBegun,
         \A t \in Tasks : Unstarted(t)' => Unstarted(t) /\ status'[t] \in {status[t], "pause"},
         \A th \in Threads : AtLock(th)' => target(th)' \notin ToSet(waitTasks'),
         \A t \in Tasks : status'[t] = "none" => status[t] = "none",
         \A t \in Tasks : (status'[t] = "none" \/ Unstarted(t)') /\ Fresh(t) => Fresh(t)'
  PROVE  NotBegun'
<1>1. ASSUME NEW t \in Tasks, Unstarted(t)' PROVE status'[t] \in {"wait", "ready", "pause"}
  BY <1>1 DEF NotBegun
<1>2. ASSUME NEW t \in Tasks, status'[t] = "none" \/ Unstarted(t)' PROVE Fresh(t)'
  <2>1. Fresh(t)
    BY <1>2 DEF NotBegun, Fresh
  <2> QED
    BY <1>2, <2>1
<1> QED
  BY <1>1, <1>2 DEF NotBegun, Fresh

\* One thread moves and is not at the lock afterwards; the queue does not grow.
LEMMA UnstartedStep ==
  ASSUME NotBegun, NEW th \in Threads, \A u \in Threads : u # th => call'[u] = call[u],
         call'[th].pc \notin {"create", "run"}, ToSet(waitTasks') \subseteq ToSet(waitTasks)
  PROVE  /\ \A t \in Tasks : Unstarted(t)' => Unstarted(t)
         /\ \A u \in Threads : AtLock(u)' => u # th /\ AtLock(u) /\ target(u)' \notin ToSet(waitTasks')
<1>1. \A u \in Threads : AtLock(u)' => u # th /\ AtLock(u) /\ target(u)' = target(u)
  BY DEF AtLock, target
<1>2. ASSUME NEW t \in Tasks, Unstarted(t)' PROVE Unstarted(t)
  <2>1. t \in ToSet(waitTasks') \/ \E u \in Threads : AtLock(u)' /\ target(u)' = t
    BY <1>2 DEF Unstarted
  <2> QED
    BY <1>1, <2>1 DEF Unstarted
<1> QED
  BY <1>1, <1>2 DEF NotBegun

\* The calls and the queue stay.
LEMMA UnstartedSame ==
  ASSUME NotBegun, UNCHANGED <<call, waitTasks>>
  PROVE  /\ \A t \in Tasks : Unstarted(t)' <=> Unstarted(t)
         /\ \A u \in Threads : AtLock(u)' => target(u)' \notin ToSet(waitTasks')
<1> QED
  BY DEF NotBegun, Unstarted, AtLock, target

LEMMA BegunMut ==
  ASSUME SInv, QueueInList, NotBegun, NEW th \in Threads, MutStep(th)
  PROVE  NotBegun'
<1> USE DEF SInv
<1>0. PICK t \in Tasks : t = target(th)
  BY MutEffects
<1>1. /\ UNCHANGED <<waitTasks, failing, doneCh, watched>> /\ \A u \in Threads : u # th => call'[u] = call[u]
      /\ \A u \in Tasks : fetcher'[u] \in {fetcher[u], "idle"}
      /\ UNCHANGED <<call, lock, status, starts>> \/ PauseOver(th) \/ StartOver(th)
  BY MutEffects
<1>2. CASE UNCHANGED <<call, lock, status, starts>>
  BY <1>1, <1>2, UnstartedSame, BegunStep DEF Fresh
<1>3. CASE PauseOver(th)
  <2>1. call'[th].pc \notin {"create", "run"} /\ UNCHANGED starts
    BY <1>3 DEF PauseOver
  <2>2. \A u \in Tasks : status'[u] \in {status[u], "pause"}
    BY <1>0, <1>3 DEF PauseOver, TypeOK
  <2>3. \A u \in Tasks : Fresh(u) => Fresh(u)'
    BY <1>1, <2>1 DEF Fresh
  <2>4. /\ \A u \in Tasks : Unstarted(u)' => Unstarted(u)
        /\ \A u \in Threads : AtLock(u)' => target(u)' \notin ToSet(waitTasks')
    BY <1>1, <2>1, UnstartedStep
  <2> QED
    BY <2>2, <2>3, <2>4, BegunStep
<1>4. CASE StartOver(th)
  <2>1. call'[th].pc \notin {"create", "run"} /\ AtLock(th) /\ lock = th
    BY <1>4 DEF StartOver
  <2>2. /\ \A u \in Tasks : Unstarted(u)' => Unstarted(u)
        /\ \A u \in Threads : AtLock(u)' => u # th /\ AtLock(u) /\ target(u)' \notin ToSet(waitTasks')
    BY <1>1, <2>1, UnstartedStep
  <2>3. \A u \in Threads : ~AtLock(u)'
    BY <2>1, <2>2, NoneAtLock
  <2>4. t \notin ToSet(waitTasks')
    BY <1>0, <1>1, <2>1 DEF NotBegun
  <2>5. ~Unstarted(t)'
    BY <2>3, <2>4 DEF Unstarted
  <2>6. /\ \A u \in Tasks : u # t => status'[u] = status[u] /\ starts'[u] = starts[u]
        /\ status'[t] = "none" => status[t] = "none" /\ starts'[t] = starts[t]
    BY <1>0, <1>4 DEF StartOver, TypeOK
  <2>7. \A u \in Tasks : (status'[u] = "none" \/ Unstarted(u)') /\ Fresh(u) => Fresh(u)'
    BY <1>1, <2>5, <2>6 DEF Fresh
  <2>8. \A u \in Tasks : Unstarted(u)' => Unstarted(u) /\ status'[u] \in {status[u], "pause"}
    BY <2>2, <2>5, <2>6
  <2>9. \A u \in Tasks : status'[u] = "none" => status[u] = "none"
    BY <2>6
  <2> QED
    BY <2>2, <2>7, <2>8, <2>9, BegunStep
<1> QED
  BY <1>1, <1>2, <1>3, <1>4

\* A goroutine of one task, which has begun, or which it leaves fresh.
LEMMA BegunAside ==
  ASSUME NotBegun, UNCHANGED <<call, waitTasks>>, NEW t \in Tasks,
         \A u \in Tasks : u # t => /\ status'[u] = status[u] /\ starts'[u] = starts[u] /\ failing'[u] = failing[u]
                                   /\ doneCh'[u] = doneCh[u] /\ fetcher'[u] = fetcher[u] /\ watched'[u] = watched[u],
         status'[t] = "none" => status[t] = "none",
         ~Fresh(t) \/ (status'[t] = status[t] /\ Fresh(t)')
  PROVE  NotBegun'
<1>1. /\ \A u \in Tasks : Unstarted(u)' <=> Unstarted(u)
      /\ \A u \in Threads : AtLock(u)' => target(u)' \notin ToSet(waitTasks')
  BY UnstartedSame
<1>2. \A u \in Tasks : u # t => (Fresh(u)' <=> Fresh(u))
  BY DEF Fresh
<1>3. Unstarted(t) => Fresh(t)
  BY DEF NotBegun, Fresh
<1>4. \A u \in Tasks : Unstarted(u)' => Unstarted(u) /\ status'[u] \in {status[u], "pause"}
  BY <1>1, <1>3
<1>5. \A u \in Tasks : (status'[u] = "none" \/ Unstarted(u)') /\ Fresh(u) => Fresh(u)'
  BY <1>2
<1> QED
  BY <1>1, <1>4, <1>5, BegunStep

LEMMA BegunCreate ==
  ASSUME SInv, QueueInList, NotBegun, NEW c \in Clients, NEW t \in Tasks, doCreate(c, t)
  PROVE  NotBegun'
<1> USE DEF SInv
<1>1. /\ lock = Nobody /\ status[t] = "none" /\ t \notin ToSet(tasks)
      /\ \A u \in Threads : u # c => call'[u] = call[u]
      /\ UNCHANGED <<handlers, fetching, watching>>
      /\ \A u \in Tasks : u # t => status'[u] = status[u]
      /\ \/ status'[t] = "wait" /\ waitTasks' = Append(waitTasks, t) /\ call'[c].pc = "watch"
         \/ status'[t] = "ready" /\ waitTasks' = waitTasks /\ AtLock(c)' /\ target(c)' = t
  BY CreateEffects
<1>2. \A u \in Threads : ~AtLock(u)
  BY <1>1, NoneAtLock, ThreadFacts
<1>3. waitTasks \in Seq(Tasks) /\ t \notin ToSet(waitTasks)
  BY <1>1 DEF QueueInList, TypeOK
<1>4. ToSet(waitTasks') \subseteq ToSet(waitTasks) \union {t}
  <2>1. ToSet(Append(waitTasks, t)) = ToSet(waitTasks) \union {t}
    BY <1>3, AppendSet
  <2> QED
    BY <1>1, <2>1
<1>5. \A u \in Threads : AtLock(u)' => u = c /\ target(u)' = t /\ waitTasks' = waitTasks
  BY <1>1, <1>2, ThreadFacts DEF AtLock
<1>6. \A u \in Tasks : Unstarted(u)' => u = t \/ u \in ToSet(waitTasks)
  BY <1>4, <1>5 DEF Unstarted
<1>7. \A u \in Tasks : Fresh(u)' <=> Fresh(u)
  BY <1>1 DEF Fresh, handlers, fetching, watching
<1>8. Fresh(t) /\ status'[t] \in {"wait", "ready"}
  BY <1>1 DEF NotBegun, Fresh
<1>9. ASSUME NEW u \in Tasks, Unstarted(u)' PROVE status'[u] \in {"wait", "ready", "pause"}
  <2>1. u # t => Unstarted(u) /\ status'[u] = status[u]
    BY <1>1, <1>6, <1>9 DEF Unstarted
  <2> QED
    BY <1>8, <2>1 DEF NotBegun
<1>10. ASSUME NEW u \in Tasks, status'[u] = "none" \/ Unstarted(u)' PROVE Fresh(u)'
  <2>1. u # t => status[u] = "none" \/ Unstarted(u)
    BY <1>1, <1>6, <1>10 DEF Unstarted
  <2>2. u # t => Fresh(u)
    BY <2>1 DEF NotBegun, Fresh
  <2> QED
    BY <1>7, <1>8, <2>2
<1>11. \A u \in Threads : AtLock(u)' => target(u)' \notin ToSet(waitTasks')
  BY <1>3, <1>5
<1> QED
  BY <1>9, <1>10, <1>11 DEF NotBegun, Fresh

\* A step of a call that is not about to start a task.
LEMMA BegunCall ==
  ASSUME SInv, NotBegun, NEW c \in Clients, \A u \in Threads : u # c => call'[u] = call[u],
         call'[c].pc \notin {"create", "run"}, ToSet(waitTasks') \subseteq ToSet(waitTasks),
         UNCHANGED <<status, handlers, doneCh, watched>>,
         \A u \in Tasks : fetcher'[u] \in {fetcher[u], "idle"}
  PROVE  NotBegun'
<1>1. /\ \A t \in Tasks : Unstarted(t)' => Unstarted(t)
      /\ \A u \in Threads : AtLock(u)' => u # c /\ AtLock(u) /\ target(u)' \notin ToSet(waitTasks')
  BY UnstartedStep, ThreadFacts
<1>2. \A u \in Tasks : Fresh(u) => Fresh(u)'
  BY DEF Fresh, handlers
<1> QED
  BY <1>1, <1>2, BegunStep

LEMMA BegunTask ==
  ASSUME SInv, NotBegun, NEW t \in Tasks,
         HandlerStep(t) \/ WatchStep(t) \/ FetcherEnds(t) \/ TickLocks(t) \/ TickEnds(t)
  PROVE  NotBegun'
<1> USE DEF SInv
<1>1. /\ UNCHANGED <<waitTasks, call>>
      /\ \A u \in Tasks : u # t => status'[u] = status[u]
      /\ status'[t] = status[t] \/ status'[t] \in {"error", "done"}
  BY AsideEffects
<1>2. \A u \in Tasks : u # t => starts'[u] = starts[u] /\ failing'[u] = failing[u]
  BY DEF HandlerStep, WatchStep, StartHandled, StartReports, PauseHandled, WatchBegins, WatchFails, WatchReports,
         WatchFinds, WatchDone, WatchEnds, FetcherEnds, TickLocks, TickEnds, TypeOK, handlers
<1>3. \A u \in Tasks : u # t => doneCh'[u] = doneCh[u] /\ fetcher'[u] = fetcher[u]
  BY DEF HandlerStep, WatchStep, StartHandled, StartReports, PauseHandled, WatchBegins, WatchFails, WatchReports,
         WatchFinds, WatchDone, WatchEnds, FetcherEnds, TickLocks, TickEnds, TypeOK, fetching
<1>4. \A u \in Tasks : u # t => watched'[u] = watched[u]
  BY DEF HandlerStep, WatchStep, StartHandled, StartReports, PauseHandled, WatchBegins, WatchFails, WatchReports,
         WatchFinds, WatchDone, WatchEnds, FetcherEnds, TickLocks, TickEnds, TypeOK, watching
<1>5. CASE \/ StartHandled(t) \/ StartReports(t) \/ FetcherEnds(t) \/ WatchFails(t) \/ WatchReports(t)
           \/ WatchFinds(t) \/ WatchDone(t) \/ WatchEnds(t)
  <2>1. ~Fresh(t)
    BY <1>5 DEF StartHandled, StartReports, FetcherEnds, WatchFails, WatchReports, WatchFinds, WatchDone, WatchEnds,
                Fresh, TypeOK
  <2> QED
    BY <1>1, <1>2, <1>3, <1>4, <2>1, BegunAside
<1>6. CASE PauseHandled(t) \/ WatchBegins(t) \/ TickLocks(t) \/ TickEnds(t)
  <2>1. /\ status'[t] = status[t] /\ starts'[t] = starts[t] /\ failing'[t] = failing[t] /\ doneCh'[t] = doneCh[t]
        /\ fetcher'[t] \in {fetcher[t], "idle"} /\ watched'[t] \in {watched[t], "wait"}
    BY <1>6 DEF PauseHandled, closed, WatchBegins, TickLocks, TickEnds, TypeOK, handlers, fetching, watching
  <2>2. ~Fresh(t) \/ (status'[t] = status[t] /\ Fresh(t)')
    BY <2>1 DEF Fresh
  <2> QED
    BY <1>1, <1>2, <1>3, <1>4, <2>2, BegunAside
<1> QED
  BY <1>5, <1>6 DEF HandlerStep, WatchStep

LEMMA NextBegun ==
  ASSUME NoContinue, SInv, QueueInList, NotBegun, [Next]_vars
  PROVE  NotBegun'
<1> USE DEF SInv
<1>1. CASE UNCHANGED vars
  BY <1>1, UnstartedSame, BegunStep DEF vars, lists, handlers, fetching, watching, Fresh
<1>2. ASSUME NEW c \in Clients, ApiCall(c) PROVE NotBegun'
  <2>1. ASSUME NEW t \in Tasks, doCreate(c, t) PROVE NotBegun'
    BY <2>1, BegunCreate
  <2>2. ASSUME NEW ids, Pause(c, ids) \/ Delete(c, ids) PROVE NotBegun'
    <3>1. /\ \A u \in Threads : u # c => call'[u] = call[u]
          /\ call'[c].pc \in {"pause", "deletePicked"}
          /\ UNCHANGED <<waitTasks, status, handlers, fetching, watching>>
      BY <2>2, BeginEffects
    <3> QED
      BY <3>1, BegunCall DEF fetching, watching
  <2>3. CASE pauseAll(c) \/ deleteAll(c)
    <3>1. /\ \A u \in Threads : u # c => call'[u] = call[u]
          /\ call'[c].pc \in {"cleared", "deleteAll"}
          /\ waitTasks' = <<>> /\ UNCHANGED <<status, handlers, fetching, watching>>
      BY <2>3, AllEffects
    <3> QED
      BY <3>1, EmptySet, BegunCall DEF fetching, watching
  <2>4. ASSUME NEW n, PutConfig(c, n) PROVE NotBegun'
    BY <2>4, UnstartedSame, BegunStep DEF PutConfig, lists, handlers, fetching, watching, Fresh
  <2> QED
    BY <1>2, <2>1, <2>2, <2>3, <2>4, CallsWithout
<1>3. ASSUME NEW c \in Clients, ClientStep(c) PROVE NotBegun'
  <2>1. CASE MutStep(c)
    BY <2>1, BegunMut, ThreadFacts
  <2>2. CASE Leaves(c) \/ Ranges(c) \/ DeleteRemoves(c) \/ doDelete(c)
    <3>1. /\ \A u \in Threads : u # c => call'[u] = call[u]
          /\ UNCHANGED <<status, handlers, doneCh, watched>>
          /\ \A u \in Tasks : fetcher'[u] \in {fetcher[u], "idle"}
      BY <2>2, CallEffects
    <3>2. call'[c].pc \in {"idle", "pauseAll", "delete", "deleting", "deleteAll"}
      BY <2>2, CallEffects
    <3>3. ToSet(waitTasks') \subseteq ToSet(waitTasks)
      <4>1. CASE Leaves(c) \/ Ranges(c) \/ doDelete(c)
        BY <4>1 DEF Leaves, Ranges, CreateWatches, pauseAllBegins, pauseAllReads, doDelete, DeleteFails, Return, lists
      <4>2. CASE DeleteRemoves(c)
        <5> DEFINE f == <<Head(call[c].scan)>>
        <5>1. Head(call[c].scan) \in Tasks
          BY <4>2, CallEffects
        <5>2. f \in Seq(Tasks)
          BY <5>1
        <5>3. waitTasks' = without(waitTasks, f)
          BY <4>2 DEF DeleteRemoves, queueWithout
        <5> HIDE DEF f
        <5>4. waitTasks \in Seq(Tasks)
          BY DEF TypeOK
        <5> QED
          BY <5>2, <5>3, <5>4, WithoutSet
      <4> QED
        BY <2>2, <4>1, <4>2
    <3> QED
      BY <3>1, <3>2, <3>3, BegunCall
  <2> QED
    BY <1>3, <2>1, <2>2, CallsWithout DEF Leaves, Ranges
<1>4. CASE notifyRunning
  <2>1. lock = Nobody /\ UNCHANGED <<status, handlers, fetching, watching>>
    BY <1>4, NotifyEffects
  <2>2. CASE UNCHANGED <<waitTasks, lock, call>>
    BY <2>1, <2>2, UnstartedSame, BegunStep DEF handlers, fetching, watching, Fresh
  <2>3. CASE /\ waitTasks # <<>> /\ waitTasks' = Tail(waitTasks)
             /\ ToSet(waitTasks) = ToSet(waitTasks') \union {Head(waitTasks)}
             /\ \A u \in Threads : u # Notifier => call'[u] = call[u]
             /\ target(Notifier)' = Head(waitTasks)
    <3>1. \A u \in Threads : AtLock(u)' => u = Notifier
      BY <2>1, <2>3, NoneAtLock, ThreadFacts DEF AtLock
    <3>2. Head(waitTasks) \notin ToSet(waitTasks')
      BY <2>3, TailSet DEF QueueInList, TypeOK
    <3>3. \A u \in Tasks : Unstarted(u)' => Unstarted(u)
      BY <2>3, <3>1 DEF Unstarted
    <3>4. \A u \in Threads : AtLock(u)' => target(u)' \notin ToSet(waitTasks')
      BY <2>3, <3>1, <3>2
    <3> QED
      BY <2>1, <3>3, <3>4, BegunStep DEF handlers, fetching, watching, Fresh
  <2> QED
    BY <1>4, <2>2, <2>3, NotifyEffects
<1>5. CASE MutStep(Notifier)
  BY <1>5, BegunMut, ThreadFacts
<1>6. ASSUME NEW t \in Tasks, HandlerStep(t) \/ WatchStep(t) \/ FetcherEnds(t) \/ TickLocks(t) \/ TickEnds(t)
      PROVE  NotBegun'
  BY <1>6, BegunTask
<1> QED
  BY <1>1, <1>2, <1>3, <1>4, <1>5, <1>6 DEF Next, Progress

LEMMA InitBegun == Init => NotBegun
<1> SUFFICES ASSUME Init PROVE NotBegun
  OBVIOUS
<1>1. idle.pc = "idle"
  BY DEF idle
<1>2. \A th \in Threads : ~AtLock(th)
  BY <1>1 DEF Init, AtLock
<1>3. \A t \in Tasks : ~Unstarted(t)
  BY <1>2, EmptySet DEF Init, Unstarted
<1> QED
  BY <1>2, <1>3 DEF Init, NotBegun

----------------------------------------------------------------------------
(* The slots that are free, and who is to offer them *)

\* One more element, or one less.
LEMMA SubCard ==
  ASSUME NEW S, NEW T, IsFiniteSet(T)
  PROVE  /\ Cardinality(T) \in Nat
         /\ S \subseteq T => IsFiniteSet(S) /\ Cardinality(S) \in Nat /\ Cardinality(S) <= Cardinality(T)
         /\ \A x : S \subseteq T \union {x} => Cardinality(S) <= Cardinality(T) + 1
         /\ \A x : x \notin S /\ S \union {x} \subseteq T => Cardinality(S) + 1 <= Cardinality(T)
<1>1. Cardinality(T) \in Nat
  BY FS_CardinalityType
<1>2. ASSUME S \subseteq T PROVE IsFiniteSet(S) /\ Cardinality(S) \in Nat /\ Cardinality(S) <= Cardinality(T)
  BY <1>2, FS_Subset, FS_CardinalityType
<1>3. ASSUME NEW x, S \subseteq T \union {x} PROVE Cardinality(S) <= Cardinality(T) + 1
  <2>1. /\ IsFiniteSet(T \union {x}) /\ Cardinality(T \union {x}) \in Nat
        /\ Cardinality(T \union {x}) <= Cardinality(T) + 1
    BY <1>1, FS_AddElement, FS_CardinalityType
  <2>2. Cardinality(S) <= Cardinality(T \union {x}) /\ Cardinality(S) \in Nat
    BY <1>3, <2>1, FS_Subset, FS_CardinalityType
  <2> QED
    BY <1>1, <2>1, <2>2
<1>4. ASSUME NEW x, x \notin S, S \union {x} \subseteq T PROVE Cardinality(S) + 1 <= Cardinality(T)
  <2>1. S \subseteq T
    BY <1>4
  <2>2. IsFiniteSet(S) /\ Cardinality(S) \in Nat
    BY <1>2, <2>1
  <2>3. Cardinality(S \union {x}) = Cardinality(S) + 1
    BY <1>4, <2>2, FS_AddElement
  <2>4. Cardinality(S \union {x}) <= Cardinality(T)
    BY <1>4, FS_Subset
  <2> QED
    BY <2>3, <2>4
<1> QED
  BY <1>1, <1>2, <1>3, <1>4

\* The tasks that have a slot or owe one, and all that a slot can be with.
Busy == Running \union FreedByError
Given == notifies + Cardinality(FreedByCall) + Cardinality(Busy) + (IF lock = Nobody THEN 0 ELSE 1)

Countable ==
  /\ IsFiniteSet(Busy) /\ Cardinality(Busy) \in Nat
  /\ IsFiniteSet(FreedByCall) /\ Cardinality(FreedByCall) \in Nat
  /\ notifies \in Nat /\ maxRunning \in Nat
  /\ SlotsCounted <=> (errors = 0 /\ waitTasks # <<>> => maxRunning <= Given)

LEMMA GivenTypes == TypeOK => Countable
<1> SUFFICES ASSUME TypeOK PROVE Countable
  OBVIOUS
<1>1. IsFiniteSet(Running) /\ Cardinality(Running) \in Nat /\ maxRunning \in Nat
  BY CountTypes
<1>2. IsFiniteSet(FreedByError) /\ Cardinality(FreedByError) \in Nat
  BY FS_Subset, FS_CardinalityType, SchedulerConstants DEF FreedByError, SchedulerConstants
<1>3. IsFiniteSet(FreedByCall) /\ Cardinality(FreedByCall) \in Nat
  BY FS_Subset, FS_CardinalityType, SchedulerConstants DEF FreedByCall, SchedulerConstants
<1>4. Running \intersect FreedByError = {}
  BY DEF Running, FreedByError
<1>5. Cardinality(Running \intersect FreedByError) = 0
  BY <1>4, FS_EmptySet
<1>6. /\ IsFiniteSet(Running \union FreedByError)
      /\ Cardinality(Running \union FreedByError)
           = Cardinality(Running) + Cardinality(FreedByError) - Cardinality(Running \intersect FreedByError)
  BY <1>1, <1>2, FS_Union
<1>7. notifies \in Nat
  BY DEF TypeOK
<1> QED
  BY <1>1, <1>2, <1>3, <1>5, <1>6, <1>7, SMTT(40) DEF Countable, SlotsCounted, Given, Busy, remainRunningCount

\* A step that keeps as many slots with somebody, while tasks wait.
LEMMA CountedStep ==
  ASSUME TypeOK, TypeOK', SlotsCounted, UNCHANGED <<maxRunning, errors>>,
         waitTasks' # <<>> => waitTasks # <<>>, Given' >= Given
  PROVE  SlotsCounted'
<1>1. Countable /\ Countable'
  BY GivenTypes, PTL
<1>2. Given \in Nat /\ Given' \in Nat
  <2>1. /\ notifies \in Nat /\ Cardinality(FreedByCall) \in Nat /\ Cardinality(Busy) \in Nat
        /\ notifies' \in Nat /\ Cardinality(FreedByCall') \in Nat /\ Cardinality(Busy') \in Nat
    BY <1>1 DEF Countable
  <2>2. Given \in Nat
    BY <2>1, SMTT(40) DEF Given
  <2>3. Given' = notifies' + Cardinality(FreedByCall') + Cardinality(Busy') + (IF lock' = Nobody THEN 0 ELSE 1)
    BY DEF Given
  <2> QED
    BY <2>1, <2>2, <2>3, SMTT(40)
<1>3. SlotsCounted <=> (errors = 0 /\ waitTasks # <<>> => maxRunning <= Given)
  BY <1>1 DEF Countable
<1>4. SlotsCounted' <=> (errors' = 0 /\ waitTasks' # <<>> => maxRunning' <= Given')
  BY <1>1 DEF Countable
<1>5. maxRunning \in Nat
  BY <1>1 DEF Countable
<1> QED
  BY <1>2, <1>3, <1>4, <1>5

\* A goroutine of one task frees no slot, or frees it and offers it.
LEMMA CountedAside ==
  ASSUME TypeOK, TypeOK', SlotsCounted, UNCHANGED <<maxRunning, waitTasks, call, lock, errors>>, NEW t \in Tasks,
         \/ Busy \subseteq Busy' /\ notifies' = notifies
         \/ Busy \subseteq Busy' \union {t} /\ notifies' = notifies + 1
  PROVE  SlotsCounted'
<1>1. Countable /\ Countable'
  BY GivenTypes, PTL
<1>2. FreedByCall' = FreedByCall
  BY DEF FreedByCall
<1>3. /\ Busy \subseteq Busy' => Cardinality(Busy) <= Cardinality(Busy')
      /\ Busy \subseteq Busy' \union {t} => Cardinality(Busy) <= Cardinality(Busy') + 1
  BY <1>1, SubCard DEF Countable
<1>4. Given' >= Given
  BY <1>1, <1>2, <1>3, SMTT(40) DEF Countable, Given
<1> QED
  BY <1>4, CountedStep

LEMMA CountedTask ==
  ASSUME SInv, TypeOK', SlotsCounted, NEW t \in Tasks,
         HandlerStep(t) \/ WatchStep(t) \/ FetcherEnds(t) \/ TickLocks(t) \/ TickEnds(t)
  PROVE  SlotsCounted'
<1> USE DEF SInv
<1>1. /\ UNCHANGED <<tasks, maxRunning, waitTasks, call, lock, errors>>
      /\ \A u \in Tasks : u # t => status'[u] = status[u]
      /\ ToSet(tasks) \subseteq Tasks
  BY AsideEffects, SetOfSeq DEF TypeOK
<1>2. CASE \/ PauseHandled(t) \/ FetcherEnds(t) \/ TickLocks(t) \/ TickEnds(t) \/ WatchBegins(t) \/ WatchFinds(t)
           \/ WatchEnds(t)
  <2>1. /\ UNCHANGED <<status, failing, notifies>>
        /\ \A u \in Tasks : watched[u] = "erring" => watched'[u] = "erring"
    <3>1. CASE PauseHandled(t) \/ FetcherEnds(t) \/ TickLocks(t) \/ TickEnds(t)
      BY <3>1 DEF PauseHandled, FetcherEnds, TickLocks, TickEnds, handlers, watching
    <3>2. CASE WatchBegins(t)
      BY <3>2 DEF WatchBegins, waitsFor, TypeOK, handlers
    <3>3. CASE WatchFinds(t) \/ WatchEnds(t)
      BY <3>3 DEF WatchFinds, WatchEnds, TypeOK, handlers
    <3> QED
      BY <1>2, <3>1, <3>2, <3>3
  <2>2. Busy \subseteq Busy'
    BY <1>1, <2>1 DEF Busy, Running, FreedByError
  <2> QED
    BY <1>1, <2>1, <2>2, CountedAside
<1>3. CASE StartHandled(t)
  <2>1. /\ UNCHANGED <<watched, notifies>>
        /\ UNCHANGED <<status, failing>> \/ (status'[t] = "error" /\ failing' = [failing EXCEPT ![t] = @ + 1])
    BY <1>3 DEF StartHandled, TypeOK, watching
  <2>2. /\ \A u \in Tasks : failing[u] > 0 => failing'[u] > 0
        /\ status'[t] = status[t] \/ (status'[t] = "error" /\ failing'[t] > 0)
    <3>1. CASE UNCHANGED <<status, failing>>
      BY <3>1
    <3>2. CASE status'[t] = "error" /\ failing' = [failing EXCEPT ![t] = @ + 1]
      <4>1. failing \in [Tasks -> Nat]
        BY DEF TypeOK
      <4>2. failing'[t] = failing[t] + 1 /\ \A u \in Tasks : u # t => failing'[u] = failing[u]
        BY <3>2, <4>1
      <4>3. failing[t] \in Nat
        BY <4>1
      <4> QED
        BY <3>2, <4>2, <4>3
    <3> QED
      BY <2>1, <3>1, <3>2
  <2>3. Busy \subseteq Busy'
    BY <1>1, <2>1, <2>2 DEF Busy, Running, FreedByError
  <2> QED
    BY <1>1, <2>1, <2>3, CountedAside
<1>4. CASE StartReports(t) \/ WatchReports(t)
  <2>1. /\ UNCHANGED status /\ notifies' = IF status[t] = "error" THEN notifies + 1 ELSE notifies
        /\ \A u \in Tasks : u # t => failing'[u] = failing[u] /\ watched'[u] = watched[u]
    BY <1>4 DEF StartReports, WatchReports, notifiesAfterError, TypeOK, handlers, watching
  <2>2. Busy \subseteq Busy' \union {t} /\ (status[t] # "error" => Busy \subseteq Busy')
    BY <1>1, <2>1 DEF Busy, Running, FreedByError
  <2> QED
    BY <1>1, <2>1, <2>2, CountedAside
<1>5. CASE WatchFails(t)
  <2>1. /\ UNCHANGED <<failing, notifies>> /\ status'[t] = "error" /\ watched'[t] = "erring"
        /\ \A u \in Tasks : u # t => watched'[u] = watched[u]
    BY <1>5 DEF WatchFails, TypeOK, handlers
  <2>2. Busy \subseteq Busy'
    BY <1>1, <2>1 DEF Busy, Running, FreedByError
  <2> QED
    BY <1>1, <2>1, <2>2, CountedAside
<1>6. CASE WatchDone(t)
  <2>1. /\ UNCHANGED failing /\ notifies' = notifies + 1
        /\ \A u \in Tasks : u # t => watched'[u] = watched[u]
    BY <1>6 DEF WatchDone, TypeOK, handlers
  <2>2. Busy \subseteq Busy' \union {t}
    BY <1>1, <2>1 DEF Busy, Running, FreedByError
  <2> QED
    BY <1>1, <2>1, <2>2, CountedAside
<1> QED
  BY <1>2, <1>3, <1>4, <1>5, <1>6 DEF HandlerStep, WatchStep

LEMMA CountedMut ==
  ASSUME SInv, TypeOK', QueueInList, NotBegun, OneInFilter, SlotsCounted, NEW th \in Threads, MutStep(th)
  PROVE  SlotsCounted'
<1> USE DEF SInv
<1>0. PICK t \in Tasks : t = target(th)
  BY MutEffects
<1>1. /\ UNCHANGED <<tasks, waitTasks, maxRunning, notifies, failing, watched>> /\ ToSet(tasks) \subseteq Tasks
      /\ \A u \in Threads : u # th => call'[u] = call[u]
      /\ UNCHANGED <<call, lock, status, starts, errors>> \/ PauseOver(th) \/ StartOver(th)
  <2>1. ToSet(tasks) \subseteq Tasks
    BY SetOfSeq DEF TypeOK
  <2> QED
    BY <2>1, MutEffects
<1>2. Countable /\ Countable'
  BY GivenTypes, PTL
<1>3. CASE UNCHANGED <<call, lock, status, starts, errors>>
  <2>1. Busy' = Busy
    BY <1>1, <1>3 DEF Busy, Running, FreedByError
  <2> QED
    BY <1>1, <1>3, <2>1, CountedAside
<1>4. CASE PauseOver(th)
  <2>1. /\ th \in Clients /\ call[th].pc = "pause" /\ call[th].todo # <<>> /\ Len(call[th].todo) <= 1
        /\ call'[th].pc = "pause" /\ call'[th].todo = Tail(call[th].todo) /\ UNCHANGED <<lock, errors>>
    BY <1>4 DEF PauseOver, OneInFilter
  <2>2. call'[th].todo = <<>>
    <3>1. /\ Tail(call[th].todo) \in Seq(Tasks) /\ Len(Tail(call[th].todo)) = Len(call[th].todo) - 1
          /\ Len(call[th].todo) \in Nat /\ Len(call[th].todo) > 0
      BY <2>1, CallTypes, TailSet
    <3> QED
      BY <2>1, <3>1, EmptySeq
  <2>3. FreedByCall \union {th} \subseteq FreedByCall' /\ th \notin FreedByCall
    BY <1>1, <2>1, <2>2, ThreadFacts DEF FreedByCall
  <2>4. \A u \in Tasks : u # t => status'[u] = status[u]
    BY <1>0, <1>4 DEF PauseOver, TypeOK
  <2>5. Busy \subseteq Busy' \union {t}
    BY <1>1, <2>4 DEF Busy, Running, FreedByError
  <2>6. /\ Cardinality(FreedByCall) + 1 <= Cardinality(FreedByCall')
        /\ Cardinality(Busy) <= Cardinality(Busy') + 1
    BY <1>2, <2>3, <2>5, SubCard DEF Countable
  <2>7. Given' >= Given
    BY <1>1, <1>2, <2>1, <2>6, SMTT(40) DEF Countable, Given
  <2> QED
    BY <1>1, <2>1, <2>7, CountedStep
<1>6. CASE errors' # 0
  BY <1>6 DEF SlotsCounted
<1>5. CASE StartOver(th) /\ errors' = 0
  <2>1. /\ call[th].pc \in {"create", "run"} /\ call'[th].pc \in {"watch", "idle"}
        /\ lock # Nobody /\ lock' = Nobody
    BY <1>5, ThreadFacts DEF StartOver, AtLock
  <2>2. status[t] \in {"wait", "ready", "pause"} /\ t \in ToSet(tasks)
    BY <1>0, <1>5 DEF StartOver, NotBegun, Unstarted, QueueInList
  <2>3. /\ status'[t] = "running" /\ \A u \in Tasks : u # t => status'[u] = status[u]
        /\ UNCHANGED errors
    BY <1>0, <1>5, <2>2 DEF StartOver, TypeOK
  <2>4. Busy \union {t} \subseteq Busy' /\ t \notin Busy
    BY <1>1, <2>2, <2>3 DEF Busy, Running, FreedByError
  <2>5. FreedByCall' = FreedByCall
    BY <1>1, <2>1, ThreadFacts DEF FreedByCall
  <2>6. Cardinality(Busy) + 1 <= Cardinality(Busy')
    BY <1>2, <2>4, SubCard DEF Countable
  <2>7. Given' >= Given
    BY <1>1, <1>2, <2>1, <2>5, <2>6 DEF Countable, Given
  <2> QED
    BY <1>1, <2>3, <2>7, CountedStep
<1> QED
  BY <1>1, <1>3, <1>4, <1>5, <1>6

\* A step of a call that is not about to start a task: it frees no slot, or one
\* that its client is to offer.
LEMMA CountedCall ==
  ASSUME TypeOK, TypeOK', SlotsCounted, NEW c \in Clients, UNCHANGED <<maxRunning, lock, errors>>,
         waitTasks' # <<>> => waitTasks # <<>>, \A u \in Threads : u # c => call'[u] = call[u],
         NEW x,
         \/ c \notin FreedByCall /\ Busy \subseteq Busy' /\ notifies' = notifies
         \/ /\ c \notin FreedByCall /\ c \in FreedByCall'
            /\ Busy \subseteq Busy' \union {x} /\ notifies' = notifies
         \/ c \in FreedByCall' /\ Busy \subseteq Busy' /\ notifies' = notifies
         \/ Busy \subseteq Busy' /\ notifies' = notifies + 1
  PROVE  SlotsCounted'
<1>1. Countable /\ Countable'
  BY GivenTypes, PTL
<1>2. \A d \in Clients : d # c => (d \in FreedByCall' <=> d \in FreedByCall)
  BY ThreadFacts DEF FreedByCall
<1>3. FreedByCall \subseteq Clients /\ FreedByCall' \subseteq Clients
  BY DEF FreedByCall
<1>4. FreedByCall \subseteq FreedByCall' \union {c}
  BY <1>2, <1>3
<1>5. c \notin FreedByCall \/ c \in FreedByCall' => FreedByCall \subseteq FreedByCall'
  BY <1>2, <1>3
<1>6. c \notin FreedByCall /\ c \in FreedByCall' => FreedByCall \union {c} \subseteq FreedByCall'
  BY <1>2, <1>3
<1>7. /\ Cardinality(FreedByCall) <= Cardinality(FreedByCall') + 1
      /\ c \notin FreedByCall \/ c \in FreedByCall' => Cardinality(FreedByCall) <= Cardinality(FreedByCall')
      /\ c \notin FreedByCall /\ c \in FreedByCall' => Cardinality(FreedByCall) + 1 <= Cardinality(FreedByCall')
  BY <1>1, <1>4, <1>5, <1>6, SubCard DEF Countable
<1>8. /\ Busy \subseteq Busy' => Cardinality(Busy) <= Cardinality(Busy')
      /\ Busy \subseteq Busy' \union {x} => Cardinality(Busy) <= Cardinality(Busy') + 1
  BY <1>1, SubCard DEF Countable
<1>9. Given' >= Given
  <2>1. /\ notifies \in Nat /\ Cardinality(FreedByCall) \in Nat /\ Cardinality(Busy) \in Nat
        /\ notifies' \in Nat /\ Cardinality(FreedByCall') \in Nat /\ Cardinality(Busy') \in Nat
    BY <1>1 DEF Countable
  <2>2. notifies' + Cardinality(FreedByCall') + Cardinality(Busy') >= notifies + Cardinality(FreedByCall) + Cardinality(Busy)
    <3>1. CASE c \notin FreedByCall /\ Busy \subseteq Busy' /\ notifies' = notifies
      BY <1>7, <1>8, <2>1, <3>1, SMTT(40)
    <3>2. CASE /\ c \notin FreedByCall /\ c \in FreedByCall'
               /\ Busy \subseteq Busy' \union {x} /\ notifies' = notifies
      BY <1>7, <1>8, <2>1, <3>2, SMTT(40)
    <3>3. CASE c \in FreedByCall' /\ Busy \subseteq Busy' /\ notifies' = notifies
      BY <1>7, <1>8, <2>1, <3>3, SMTT(40)
    <3>4. CASE Busy \subseteq Busy' /\ notifies' = notifies + 1
      BY <1>7, <1>8, <2>1, <3>4, SMTT(40)
    <3> QED
      BY <3>1, <3>2, <3>3, <3>4
  <2>3. Given = notifies + Cardinality(FreedByCall) + Cardinality(Busy) + (IF lock = Nobody THEN 0 ELSE 1)
    BY DEF Given
  <2>4. Given' = notifies' + Cardinality(FreedByCall') + Cardinality(Busy') + (IF lock = Nobody THEN 0 ELSE 1)
    BY DEF Given
  <2> QED
    BY <2>1, <2>2, <2>3, <2>4, SMTT(40)
<1> QED
  BY <1>9, CountedStep

LEMMA CountedCreate ==
  ASSUME SInv, TypeOK', QueueInList, SlotsCounted, NEW c \in Clients, NEW t \in Tasks, doCreate(c, t)
  PROVE  SlotsCounted'
<1> USE DEF SInv
<1>1. /\ call[c].pc = "idle" /\ lock = Nobody /\ status[t] = "none"
      /\ ToSet(tasks') = ToSet(tasks) \union {t} /\ ToSet(tasks) \subseteq Tasks
      /\ \A u \in Threads : u # c => call'[u] = call[u]
      /\ UNCHANGED <<maxRunning, notifies, failing, watched, errors>>
      /\ \A u \in Tasks : u # t => status'[u] = status[u]
      /\ status'[t] \in {"wait", "ready"} /\ call'[c].pc \in {"watch", "create"}
      /\ noSlotLeft \/ (waitTasks' = waitTasks /\ lock' = c)
  <2>1. ToSet(tasks) \subseteq Tasks
    BY SetOfSeq DEF TypeOK
  <2> QED
    BY <2>1, CreateEffects DEF handlers, watching
<1>2. Countable /\ Countable'
  BY GivenTypes, PTL
<1>3. FreedByCall' = FreedByCall
  BY <1>1, ThreadFacts DEF FreedByCall
<1>4. Running' = Running /\ Busy' = Busy
  BY <1>1 DEF Busy, Running, FreedByError
<1>5. CASE noSlotLeft
  <2>1. Cardinality(Running) \in Nat /\ maxRunning \in Nat
    BY CountTypes
  <2>2. Cardinality(Running) = maxRunning
    BY <1>5, <2>1 DEF noSlotLeft, remainRunningCount
  <2>3. IsFiniteSet(Busy') /\ Running' \subseteq Busy'
    BY <1>2 DEF Countable, Busy
  <2>4. Cardinality(Running') <= Cardinality(Busy')
    BY <2>3, SubCard
  <2>5. maxRunning' <= Cardinality(Busy')
    BY <1>1, <1>4, <2>2, <2>4
  <2>6. /\ notifies' \in Nat /\ Cardinality(FreedByCall') \in Nat /\ Cardinality(Busy') \in Nat
        /\ maxRunning' \in Nat
    BY <1>2 DEF Countable
  <2>7. Given' = notifies' + Cardinality(FreedByCall') + Cardinality(Busy') + (IF lock' = Nobody THEN 0 ELSE 1)
    BY DEF Given
  <2>8. maxRunning' <= Given'
    BY <2>5, <2>6, <2>7
  <2> QED
    BY <1>2, <2>8 DEF Countable
<1>6. CASE ~noSlotLeft
  <2>1. waitTasks' = waitTasks /\ lock' # Nobody
    BY <1>1, <1>6, ThreadFacts
  <2>2. Given' >= Given
    BY <1>1, <1>2, <1>3, <1>4, <2>1 DEF Countable, Given
  <2> QED
    BY <1>1, <2>1, <2>2, CountedStep
<1> QED
  BY <1>5, <1>6

LEMMA CountedApi ==
  ASSUME NoContinue, "config" \notin Ops, "pauseAll" \notin Ops,
         SInv, TypeOK', QueueInList, SlotsCounted, NEW c \in Clients, ApiCall(c)
  PROVE  SlotsCounted'
<1> USE DEF SInv
<1>1. ASSUME NEW t \in Tasks, doCreate(c, t) PROVE SlotsCounted'
  BY <1>1, CountedCreate
<1>2. ASSUME NEW ids \in Batches, Pause(c, ids) \/ Delete(c, ids) PROVE SlotsCounted'
  <2>1. /\ call[c].pc = "idle" /\ \A u \in Threads : u # c => call'[u] = call[u]
        /\ UNCHANGED <<tasks, waitTasks, status, lock, maxRunning, notifies, failing, watched, errors>>
    BY <1>2, BeginEffects DEF handlers, watching
  <2>2. Busy' = Busy /\ c \notin FreedByCall
    BY <2>1 DEF Busy, Running, FreedByError, FreedByCall
  <2> QED
    BY <2>1, <2>2, CountedCall
<1>3. ~pauseAll(c)
  BY DEF pauseAll, Calls
<1>4. CASE deleteAll(c)
  BY <1>4 DEF deleteAll, SlotsCounted
<1>5. \A n \in Limits : ~PutConfig(c, n)
  BY DEF PutConfig
<1> QED
  BY <1>1, <1>2, <1>3, <1>4, <1>5, CallsWithout

LEMMA CountedClient ==
  ASSUME NoContinue, SInv, TypeOK', QueueInList, NotBegun, OneInFilter, SlotsCounted,
         NEW c \in Clients, ClientStep(c)
  PROVE  SlotsCounted'
<1> USE DEF SInv
<1>0. /\ c \in Threads /\ ToSet(tasks) \subseteq Tasks
      /\ CreateWatches(c) \/ Return(c) \/ DeleteRemoves(c) \/ doDelete(c) =>
           \A u \in Threads : u # c => call'[u] = call[u]
      /\ ~Ranges(c)
  <2>1. ToSet(tasks) \subseteq Tasks
    BY SetOfSeq DEF TypeOK
  <2>2. ~Ranges(c)
    BY CallEffects DEF OneInFilter
  <2>3. Leaves(c) \/ DeleteRemoves(c) \/ doDelete(c) => \A u \in Threads : u # c => call'[u] = call[u]
    BY CallEffects
  <2> QED
    BY <2>1, <2>2, <2>3, ThreadFacts DEF Leaves
<1>1. CASE MutStep(c)
  BY <1>0, <1>1, CountedMut
<1>2. CASE CreateWatches(c)
  <2>1. /\ call[c].pc = "watch"
        /\ UNCHANGED <<tasks, waitTasks, status, lock, maxRunning, notifies, failing, watched, errors>>
    BY <1>2 DEF CreateWatches, lists, locks, handlers, bounds
  <2>2. Busy' = Busy /\ c \notin FreedByCall
    BY <2>1 DEF Busy, Running, FreedByError, FreedByCall
  <2> QED
    BY <1>0, <1>2, <2>1, <2>2, CountedCall
<1>3. CASE doDelete(c)
  <2>1. /\ call[c].pc \in {"delete", "deleteAll"} /\ call'[c].pc = call[c].pc
        /\ UNCHANGED <<tasks, waitTasks, status, lock, maxRunning, notifies, failing, watched, errors>>
    BY <1>3, CallEffects DEF doDelete, lists, locks, handlers, watching, bounds
  <2>2. Busy' = Busy /\ (c \notin FreedByCall \/ c \in FreedByCall')
    BY <2>1 DEF Busy, Running, FreedByError, FreedByCall
  <2> QED
    BY <1>0, <1>3, <2>1, <2>2, CountedCall
<1>4. CASE Return(c)
  <2>1. /\ call[c].pc \in {"pause", "pauseAll", "start", "delete", "deleteAll"}
        /\ UNCHANGED <<tasks, waitTasks, status, lock, maxRunning, failing, watched, errors>>
        /\ notifies' = IF call[c].pc \in {"pause", "delete"} THEN notifies + 1 ELSE notifies
    BY <1>4 DEF Return, offersSlot, lists, locks, handlers, watching, bounds
  <2>2. Busy' = Busy /\ (call[c].pc \notin {"pause", "delete"} => c \notin FreedByCall)
    BY <2>1 DEF Busy, Running, FreedByError, FreedByCall
  <2> QED
    BY <1>0, <1>4, <2>1, <2>2, CountedCall
<1>5. CASE DeleteRemoves(c)
  <2> DEFINE x == Head(call[c].scan)
             f == <<x>>
  <2>1. /\ tasks' = without(tasks, f) /\ waitTasks' = without(waitTasks, f)
        /\ UNCHANGED <<status, maxRunning, notifies, failing, watched, errors>>
        /\ (call[c].pc = "deletePicked" /\ lock = Nobody) \/ call[c].pc = "deleting"
        /\ Len(call[c].scan) = 1 => lock' = Nobody
    BY <1>5 DEF DeleteRemoves, queueWithout, handlers, watching, bounds
  <2>2. call[c].pc = "deletePicked" /\ Len(call[c].scan) = 1 /\ UNCHANGED lock
    BY <2>1 DEF OneInFilter
  <2>3. call'[c].pc = "delete" /\ x \in Tasks
    BY <1>5, <2>2, CallEffects
  <2>4. c \notin FreedByCall /\ c \in FreedByCall'
    BY <2>2, <2>3 DEF FreedByCall
  <2> HIDE DEF x
  <2>5. f \in Seq(Tasks) /\ ToSet(f) = {x}
    BY <2>3, Singleton
  <2> HIDE DEF f
  <2>6. /\ tasks \in Seq(Tasks) /\ Distinct(tasks)
        /\ waitTasks \in Seq(Tasks) /\ waitTasks' \in Seq(Tasks)
    BY DEF TypeOK, ListedOnce
  <2>7. ToSet(tasks') = ToSet(tasks) \ {x} /\ ToSet(waitTasks') \subseteq ToSet(waitTasks)
    BY <2>1, <2>5, <2>6, WithoutSet
  <2>8. Busy \subseteq Busy' \union {x}
    BY <1>0, <2>1, <2>7 DEF Busy, Running, FreedByError
  <2>9. waitTasks' # <<>> => waitTasks # <<>>
    <3>1. waitTasks' # <<>> => Head(waitTasks') \in ToSet(waitTasks')
      BY <2>6, TailSet
    <3> QED
      BY <2>7, <3>1, EmptySet
  <2> QED
    BY <1>0, <1>5, <2>1, <2>2, <2>4, <2>8, <2>9, CountedCall
<1>6. CASE DeleteFails(c)
  <2>1. errors' # 0
    BY <1>6 DEF DeleteFails, TypeOK
  <2> QED
    BY <2>1 DEF SlotsCounted
<1> QED
  BY <1>0, <1>1, <1>2, <1>3, <1>4, <1>5, <1>6, CallsWithout DEF Ranges

LEMMA CountedNotify ==
  ASSUME SInv, TypeOK', SlotsCounted, notifyRunning
  PROVE  SlotsCounted'
<1> USE DEF SInv
<1>1. /\ notifies > 0 /\ lock = Nobody /\ notifies' = notifies - 1
      /\ UNCHANGED <<tasks, maxRunning, status, failing, watched, errors>>
  BY NotifyEffects DEF handlers, watching
<1>2. Countable /\ Countable'
  BY GivenTypes, PTL
<1>3. Busy' = Busy /\ Running' = Running
  BY <1>1 DEF Busy, Running, FreedByError
<1>4. CASE noSlotLeft /\ UNCHANGED <<waitTasks, lock, call>>
  <2>1. Cardinality(Running) \in Nat /\ maxRunning \in Nat
    BY CountTypes
  <2>2. Cardinality(Running) = maxRunning
    BY <1>4, <2>1 DEF noSlotLeft, remainRunningCount
  <2>3. IsFiniteSet(Busy) /\ Running \subseteq Busy
    BY <1>2 DEF Countable, Busy
  <2>4. Cardinality(Running) <= Cardinality(Busy)
    BY <2>3, SubCard
  <2>5. maxRunning' <= Cardinality(Busy')
    BY <1>1, <1>3, <2>2, <2>4
  <2>6. /\ notifies' \in Nat /\ Cardinality(FreedByCall') \in Nat /\ Cardinality(Busy') \in Nat
        /\ maxRunning' \in Nat
    BY <1>2 DEF Countable
  <2>7. Given' = notifies' + Cardinality(FreedByCall') + Cardinality(Busy') + (IF lock' = Nobody THEN 0 ELSE 1)
    BY DEF Given
  <2>8. maxRunning' <= Given'
    BY <2>5, <2>6, <2>7
  <2> QED
    BY <1>2, <2>8 DEF Countable
<1>5. CASE waitTasks = <<>> /\ UNCHANGED <<waitTasks, lock, call>>
  BY <1>5 DEF SlotsCounted
<1>6. CASE /\ waitTasks # <<>> /\ lock' = Notifier
           /\ \A u \in Threads : u # Notifier => call'[u] = call[u]
  <2>1. FreedByCall' = FreedByCall
    BY <1>6, ThreadFacts DEF FreedByCall
  <2>2. lock' # Nobody
    BY <1>6, ThreadFacts
  <2>3. Given' >= Given
    BY <1>1, <1>2, <1>3, <2>1, <2>2 DEF Countable, Given
  <2> QED
    BY <1>1, <1>6, <2>3, CountedStep
<1> QED
  BY <1>4, <1>5, <1>6, NotifyEffects

LEMMA NextCounted ==
  ASSUME NoContinue, "config" \notin Ops, "pauseAll" \notin Ops,
         SInv, QueueInList, NotBegun, OneInFilter, SlotsCounted, [Next]_vars
  PROVE  SlotsCounted'
<1>0. TypeOK'
  BY NextSInv DEF SInv
<1>1. CASE UNCHANGED vars
  BY <1>1 DEF vars, lists, locks, handlers, watching, bounds, SlotsCounted, remainRunningCount, Running,
              FreedByCall, FreedByError
<1>2. ASSUME NEW c \in Clients, ApiCall(c) PROVE SlotsCounted'
  BY <1>0, <1>2, CountedApi
<1>3. ASSUME NEW c \in Clients, ClientStep(c) PROVE SlotsCounted'
  BY <1>0, <1>3, CountedClient
<1>4. CASE notifyRunning
  BY <1>0, <1>4, CountedNotify
<1>5. CASE MutStep(Notifier)
  BY <1>0, <1>5, CountedMut, ThreadFacts
<1>6. ASSUME NEW t \in Tasks, HandlerStep(t) \/ WatchStep(t) \/ FetcherEnds(t) \/ TickLocks(t) \/ TickEnds(t)
      PROVE  SlotsCounted'
  BY <1>0, <1>6, CountedTask
<1> QED
  BY <1>1, <1>2, <1>3, <1>4, <1>5, <1>6 DEF Next, Progress

\* A free slot while tasks wait, and nobody in d.lock: some of those it is with are to tell.
LEMMA CountedNoticed ==
  ASSUME TypeOK, SlotsCounted
  PROVE  SlotNoticed
<1> SUFFICES ASSUME errors = 0, lock = Nobody, remainRunningCount > 0, waitTasks # <<>>, ~(notifies > 0),
                    FreedByCall = {}, FreedByError = {}
             PROVE  FALSE
  BY DEF SlotNoticed, FreedByCall, FreedByError
<1>1. remainRunningCount \in Int /\ notifies \in Nat
  BY CountTypes DEF TypeOK
<1>2. Cardinality(FreedByCall) = 0 /\ Cardinality(FreedByError) = 0
  BY FS_EmptySet
<1>3. remainRunningCount <= notifies + 0 + 0 + 0
  BY <1>2 DEF SlotsCounted
<1> QED
  BY <1>1, <1>3

\* If the clients create, pause and delete single tasks, a free slot is never forgotten
\* while a task waits: a notifyRunning is on its way, or a Pause, a Delete or an error
\* is about to start one.
THEOREM FreeSlotIsNoticed ==
  ASSUME NoContinue, "config" \notin Ops, "pauseAll" \notin Ops, Batch = 1
  PROVE  Spec => []SlotNoticed
<1> DEFINE Inv == SInv /\ QueueInList /\ NotBegun /\ OneInFilter /\ SlotsCounted
<1>1. Init => Inv
  <2>1. Init => OneInFilter
    BY ThreadFacts DEF Init, OneInFilter, idle
  <2>2. Init => SlotsCounted
    BY DEF Init, SlotsCounted
  <2> QED
    BY <2>1, <2>2, InitSInv, InitQueue, InitBegun
<1>2. Inv /\ [Next]_vars => Inv'
  BY NextSInv, NextQueue, NextBegun, NextOne, NextCounted
<1>3. Inv => SlotNoticed
  BY CountedNoticed DEF SInv
<1> HIDE DEF Inv
<1> QED
  BY <1>1, <1>2, <1>3, PTL DEF Spec

=============================================================================
