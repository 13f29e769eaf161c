--------------------------- MODULE SlotSemaphore ---------------------------
(***************************************************************************)
(* What the job store promises of its concurrency cap, with no word of how: *)
(* a semaphore whose holders are jobs.  A job waits in arrival order, holds *)
(* a slot once, and gives it back only when none of its processes is left;  *)
(* a slot is granted only under the limit and never kept from a waiting job *)
(* while the limit allows one more.                                         *)
(***************************************************************************)
EXTENDS Integers, Sequences, FiniteSets

CONSTANTS Jobs, Limits

VARIABLES
  waiting,    \* the jobs that wait, in arrival order
  holding,    \* the jobs that hold a slot
  running,    \* the jobs with a live process
  done,       \* the jobs that will hold no slot any more
  limit

vars == <<waiting, holding, running, done, limit>>

Seen == {waiting[i] : i \in DOMAIN waiting} \cup holding \cup done
First(n) == {waiting[i] : i \in 1 .. n}

Init ==
  /\ waiting = <<>> /\ holding = {} /\ running = {} /\ done = {}
  /\ limit \in Limits

(* With the holders base and the limit c, the longest prefix of the waiting *)
(* jobs that fits is served; a job of failed starts nothing and is done.    *)
Serve(base, ended, c) ==
  \E n \in 0 .. Len(waiting) : \E failed \in SUBSET First(n) :
    /\ \A i \in 0 .. n - 1 : Cardinality(base \cup (First(i) \ failed)) < c
    /\ n = Len(waiting) \/ Cardinality(base \cup (First(n) \ failed)) >= c
    /\ waiting' = SubSeq(waiting, n + 1, Len(waiting))
    /\ holding' = base \cup (First(n) \ failed)
    /\ done' = done \cup ended \cup failed
    /\ \E started \in SUBSET (First(n) \ failed) : running' = running \cup started

Arrive(j) ==
  /\ j \notin Seen
  /\ waiting # <<>> \/ Cardinality(holding) >= limit
  /\ waiting' = Append(waiting, j)
  /\ UNCHANGED <<holding, running, done, limit>>

Enter(j) ==
  /\ j \notin Seen
  /\ waiting = <<>> /\ Cardinality(holding) < limit
  /\ holding' = holding \cup {j}
  /\ running' \in {running, running \cup {j}}
  /\ UNCHANGED <<waiting, done, limit>>

Refuse(j) ==
  /\ j \notin Seen
  /\ done' = done \cup {j}
  /\ UNCHANGED <<waiting, holding, running, limit>>

Leave(j) ==
  /\ j \in holding \ running
  /\ Serve(holding \ {j}, {j}, limit)
  /\ limit' = limit

Cancel(i) ==
  /\ waiting' = SubSeq(waiting, 1, i - 1) \o SubSeq(waiting, i + 1, Len(waiting))
  /\ done' = done \cup {waiting[i]}
  /\ UNCHANGED <<holding, running, limit>>

CancelAll ==
  /\ waiting' = <<>>
  /\ done' = done \cup First(Len(waiting))
  /\ UNCHANGED <<holding, running, limit>>

Stop(j) ==
  /\ running' = running \ {j}
  /\ UNCHANGED <<waiting, holding, done, limit>>

SetLimit(c) ==
  /\ limit' = c
  /\ Serve(holding, {}, c)

Next ==
  \/ \E j \in Jobs : Arrive(j) \/ Enter(j) \/ Refuse(j) \/ Leave(j) \/ Stop(j)
  \/ \E i \in 1 .. Len(waiting) : Cancel(i)
  \/ CancelAll
  \/ \E c \in Limits : SetLimit(c)

Spec == Init /\ [][Next]_vars
=============================================================================
