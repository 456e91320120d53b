---------------------------- MODULE ExtractSpec ----------------------------
(***************************************************************************)
(* What the extraction queue promises to the downloader: jobs run one at a *)
(* time, in the order they were accepted, and each one is released exactly *)
(* once, after it ran or because it was dropped.  ExtractQueue, which      *)
(* models pkg/download/extract_queue.go, implements it.                    *)
(***************************************************************************)
EXTENDS Naturals, Sequences, SequencesExt

CONSTANT Jobs

VARIABLES
  queue,     \* accepted and not begun, oldest first
  current,   \* the job being run, as a set of at most one
  ran,       \* released after running
  dropped    \* released without running

absVars == <<queue, current, ran, dropped>>

Fresh(j) == j \notin ToSet(queue) \union current \union ran \union dropped

Init == queue = <<>> /\ current = {} /\ ran = {} /\ dropped = {}

Accept(j) ==
  /\ Fresh(j)
  /\ queue' = Append(queue, j)
  /\ UNCHANGED <<current, ran, dropped>>

Refuse(j) ==
  /\ Fresh(j)
  /\ dropped' = dropped \union {j}
  /\ UNCHANGED <<queue, current, ran>>

Begin ==
  /\ current = {} /\ queue # <<>>
  /\ current' = {Head(queue)}
  /\ queue' = Tail(queue)
  /\ UNCHANGED <<ran, dropped>>

End(j) ==
  /\ current = {j}
  /\ current' = {}
  /\ ran' = ran \union {j}
  /\ UNCHANGED <<queue, dropped>>

Withdraw(i) ==
  /\ queue' = RemoveAt(queue, i)
  /\ dropped' = dropped \union {queue[i]}
  /\ UNCHANGED <<current, ran>>

\* The queue is shut down between two jobs.
DropAll ==
  /\ current = {}
  /\ dropped' = dropped \union ToSet(queue)
  /\ queue' = <<>>
  /\ UNCHANGED <<current, ran>>

Next ==
  \/ \E j \in Jobs : Accept(j) \/ Refuse(j) \/ End(j)
  \/ \E i \in 1..Len(queue) : Withdraw(i)
  \/ Begin \/ DropAll

Spec == Init /\ [][Next]_absVars

=============================================================================
