------------------------------ MODULE JobSlots ------------------------------
(***************************************************************************)
(* The concurrency slots of ghantika's job store, and every asynchronous    *)
(* path that takes one or gives one back: run(), the FIFO queue, kill(),    *)
(* the deadline, the reap at leader exit, the automatic retry of a          *)
(* stranded slot, the TTL purge and the shutdown (POSIX).                   *)
(*                                                                          *)
(* Node runs one callback at a time and drains the promise continuations    *)
(* that have nothing left to wait for before the next callback, so an       *)
(* action is the code from one event to the next real wait.  A suspended    *)
(* call is phase[j][k]: the call of kind k about job j, and what it awaits. *)
(***************************************************************************)
EXTENDS Integers, Sequences, FiniteSets

CONSTANTS
  Jobs,                    \* job ids, each used by at most one run()
  KillCalls,               \* concurrent kill() or tasks/cancel requests per job
  Caps,                    \* values an operator gives maxConcurrentJobs
  MaxQueueDepth,
  MaxStrandedSlotAttempts,
  SpawnOutcomes,           \* what a run() or a spawn may come to
  CustomSignals,           \* the kinds of signal kill() may be asked to send
  DeadlineJobs,            \* jobs run with a deadline
  ForkingJobs,             \* jobs whose leader may leave a descendant behind
  PurgeableJobs,           \* jobs a client reads after the task TTL
  MayShutDown              \* whether the server may be told to stop

ASSUME JobsAssumption == IsFiniteSet(Jobs)
ASSUME CapsAssumption == Caps \subseteq Nat
ASSUME BoundsAssumption == MaxQueueDepth \in Nat
                           /\ MaxStrandedSlotAttempts \in Nat \ {0}
ASSUME SpawnAssumption ==
         SpawnOutcomes \subseteq {"preflight", "throws", "doomed", "spawns"}
ASSUME KillAssumption ==
         KillCalls \cap {"exit", "retry", "deadline", "shutdown"} = {}

VARIABLES
  state,            \* JobRecord.state; "none" before run(), "purged" after deleteJob
  killConfirmed,    \* JobRecord.kill_confirmed, "unset" for undefined
  deadlineTimer,    \* jobs whose deadline timer is armed
  children,         \* jobs with a tracked child handle
  leader,           \* the leader process; "doomed": an 'error' event is to come
  orphan,           \* whether a descendant is alive in the leader's process group
  exitSeen,         \* jobs whose 'exit' event was delivered
  queue,            \* the FIFO of jobs waiting for a slot
  queuePosition,    \* JobRecord.queue_position, 0 for undefined
  activeSlots,
  cap,              \* concurrencyConfig.maxConcurrentJobs
  slotReserved, slotReleased,
  strandedSlots, attempts, retryTimer,
  awaitingRelease,  \* jobs whose exit handler's releaseSlot awaits its reap
  reapAttempted, reapEntered,
  phase,
  shuttingDown,
  lostSlots         \* history: slots still counted whose record was purged

recordVars == <<state, killConfirmed, deadlineTimer>>
procVars   == <<children, leader, orphan>>
queueVars  == <<queue, queuePosition>>
slotVars   == <<activeSlots, slotReserved, slotReleased, lostSlots>>
strandVars == <<strandedSlots, attempts, retryTimer>>
reapVars   == <<reapAttempted, reapEntered>>
storeVars  == <<recordVars, procVars, queueVars, slotVars, strandVars>>
restVars   == <<exitSeen, awaitingRelease, cap, shuttingDown>>
vars       == <<storeVars, reapVars, restVars, phase>>

Kinds    == {"exit", "retry", "deadline", "shutdown"} \cup KillCalls
Phases   == {"idle", "identity", "snapshot", "confirm", "sent", "missed",
             "reaper", "existence"}
Live     == {"starting", "running"}
Terminal == {"exited", "killed", "failed"}

HasRecord(j)  == state[j] \in Live \cup Terminal
GroupAlive(j) == leader[j] = "alive" \/ orphan[j]
Signallable(j) == GroupAlive(j) \/ (leader[j] = "dead" /\ j \notin exitSeen)
Held          == slotReserved \ slotReleased
Front(q, n)   == {q[i] : i \in 1 .. n}

Init ==
  /\ state = [j \in Jobs |-> "none"]
  /\ killConfirmed = [j \in Jobs |-> "unset"]
  /\ leader = [j \in Jobs |-> "none"]
  /\ orphan = [j \in Jobs |-> FALSE]
  /\ queuePosition = [j \in Jobs |-> 0]
  /\ attempts = [j \in Jobs |-> 0]
  /\ phase = [j \in Jobs |-> [k \in Kinds |-> "idle"]]
  /\ queue = <<>>
  /\ activeSlots = 0
  /\ cap \in Caps
  /\ shuttingDown = FALSE
  /\ deadlineTimer = {} /\ children = {} /\ exitSeen = {}
  /\ slotReserved = {} /\ slotReleased = {} /\ lostSlots = {}
  /\ strandedSlots = {} /\ retryTimer = {} /\ awaitingRelease = {}
  /\ reapAttempted = {} /\ reapEntered = {}

-----------------------------------------------------------------------------
(* Writes to one job's record, no-ops once it is gone or terminal.  A       *)
(* record that turns terminal drops its deadline timer.                     *)

SetKillConfirmation(j, v) ==
  [killConfirmed EXCEPT ![j] = IF HasRecord(j) THEN v ELSE @]

(* Fault: the last terminal transition wins instead of the first.           *)
MarkedLast(j, s) == [state EXCEPT ![j] = IF HasRecord(j) THEN s ELSE @]

Marked(j, s) == [state EXCEPT ![j] = IF @ \in Live THEN s ELSE @]

Records(st, kc) ==
  /\ state' = st
  /\ killConfirmed' = kc
  /\ deadlineTimer' = {j \in deadlineTimer : st[j] \in Live}

-----------------------------------------------------------------------------
(* The queue.  drainQueue dequeues until the cap or the end of the queue    *)
(* stops it; a dequeued job whose spawn throws gives its slot back before   *)
(* the next one is considered.                                              *)

(* Fault: one call dequeues at most one job.                                *)
DrainStopsAfterOne(n, active, c, throwing) ==
  n = IF queue # <<>> /\ active < c THEN 1 ELSE 0

DrainStops(n, active, c, throwing) ==
  /\ \A i \in 0 .. n - 1 : active + Cardinality(Front(queue, i) \ throwing) < c
  /\ \/ n = Len(queue)
     \/ active + Cardinality(Front(queue, n) \ throwing) >= c

(* Fault: the jobs left in the queue keep the position they had.            *)
RenumberedNot(gone, rest) ==
  [j \in Jobs |-> IF j \in gone THEN 0 ELSE queuePosition[j]]

Renumbered(gone, rest) ==
  [j \in Jobs |-> IF \E i \in DOMAIN rest : rest[i] = j
                  THEN CHOOSE i \in DOMAIN rest : rest[i] = j
                  ELSE IF j \in gone THEN 0 ELSE queuePosition[j]]

LeaderAfter(outcome) == CASE outcome = "spawns" -> "alive"
                          [] outcome = "doomed" -> "doomed"
                          [] OTHER -> "none"

(* beginSpawn for every job of started, and the records st, kc it leaves: a *)
(* child, an 'error' event to come, or a failure thrown by spawn() itself.  *)
BeginSpawn(started, outcome, st, kc) ==
  LET spawned == {j \in started : outcome[j] = "spawns"}
      failed  == {j \in started : outcome[j] = "throws"}
  IN  /\ leader' = [j \in Jobs |-> IF j \in started THEN LeaderAfter(outcome[j])
                                   ELSE leader[j]]
      /\ children' = children \cup spawned
      /\ deadlineTimer' = {j \in deadlineTimer : st[j] \in Live}
                          \cup (spawned \cap DeadlineJobs)
      /\ state' = [j \in Jobs |-> IF j \in failed THEN "failed" ELSE st[j]]
      /\ killConfirmed' = [j \in Jobs |-> IF j \in failed THEN "yes" ELSE kc[j]]
      /\ orphan' = orphan

(* st, kc, released, active, c: the store as drainQueue's caller left it.   *)
DrainQueue(st, kc, released, active, c) ==
  \E outcome \in [Front(queue, Len(queue)) -> SpawnOutcomes \ {"preflight"}],
     n \in 0 .. Len(queue) :
    LET throwing == {j \in DOMAIN outcome : outcome[j] = "throws"}
        started  == Front(queue, n)
    IN  /\ DrainStops(n, active, c, throwing)
        /\ queue' = SubSeq(queue, n + 1, Len(queue))
        /\ queuePosition' = Renumbered(started, queue')
        /\ activeSlots' = active + Cardinality(started \ throwing)
        /\ slotReserved' = slotReserved \cup started
        /\ slotReleased' = released \cup (started \cap throwing)
        /\ BeginSpawn(started, outcome, st, kc)

-----------------------------------------------------------------------------
(* releaseSlot, and what follows an unconfirmed reap.                       *)

(* The two guards releaseSlot opens with.                                   *)
MayRelease(j) == j \in slotReserved /\ j \notin slotReleased

(* Every path below leaves the records as st, kc.                           *)
KeepSlots(st, kc) ==
  Records(st, kc) /\ UNCHANGED <<procVars, queueVars, slotVars, strandVars>>

FreeSlot(j, st, kc) ==
  /\ strandedSlots' = strandedSlots \ {j}
  /\ retryTimer' = retryTimer \ {j}
  /\ UNCHANGED <<attempts, lostSlots>>
  /\ DrainQueue(st, kc, slotReleased \cup {j},
                IF activeSlots > 0 THEN activeSlots - 1 ELSE 0, cap)

MarkSlotStranded(j, st, kc) ==
  /\ Records(st, kc)
  /\ IF j \in strandedSlots
       THEN UNCHANGED strandVars
       ELSE /\ strandedSlots' = strandedSlots \cup {j}
            /\ attempts' = [attempts EXCEPT ![j] = 1]
            /\ retryTimer' = IF 1 < MaxStrandedSlotAttempts
                             THEN retryTimer \cup {j} ELSE retryTimer
  /\ UNCHANGED <<procVars, queueVars, slotVars>>

(* Fault: an unconfirmed reap frees the slot like a confirmed one.          *)
CommitReleaseOpen(j, decision, st, kc) ==
  IF j \in slotReleased THEN KeepSlots(st, kc) ELSE FreeSlot(j, st, kc)

(* Fault: an unconfirmed release is dropped, with no retry to follow.       *)
CommitReleaseForgotten(j, decision, st, kc) ==
  IF j \notin slotReleased /\ decision = "yes"
  THEN FreeSlot(j, st, kc) ELSE KeepSlots(st, kc)

(* releaseSlot after its await: the duplicate guard again, then the decision. *)
CommitRelease(j, decision, st, kc) ==
  CASE j \in slotReleased -> KeepSlots(st, kc)
    [] j \notin slotReleased /\ decision = "yes" -> FreeSlot(j, st, kc)
    [] OTHER -> MarkSlotStranded(j, st, kc)

RetryAgain(j) == attempts[j] < MaxStrandedSlotAttempts

(* What each caller of reapProcessGroupOnce does with its decision.         *)
ReapDecided(j, k, decision, st, kc) ==
  CASE k = "exit" -> IF j \in awaitingRelease
                     THEN CommitRelease(j, decision, st, kc) ELSE KeepSlots(st, kc)
    [] k = "retry" /\ decision = "no" ->
         /\ Records(st, kc)
         /\ retryTimer' = IF RetryAgain(j) THEN retryTimer \cup {j} ELSE retryTimer
         /\ UNCHANGED <<procVars, queueVars, slotVars, strandedSlots, attempts>>
    [] k # "exit" /\ k # "shutdown" /\ decision = "yes" ->
         IF MayRelease(j) THEN FreeSlot(j, st, kc) ELSE KeepSlots(st, kc)
    [] OTHER -> KeepSlots(st, kc)

-----------------------------------------------------------------------------
(* reapProcessGroupOnce.                                                    *)

(* Fault: only a written kill_confirmed makes a later reap a retry.         *)
IsRetryByConfirmation(j) == HasRecord(j) /\ killConfirmed[j] # "unset"

IsRetry(j) == j \in reapEntered \/ (HasRecord(j) /\ killConfirmed[j] # "unset")

NoChild(j) == j \notin reapAttempted /\ j \notin children

(* What the call comes to before any await: a decision, or which oracle it  *)
(* awaits, the one that may signal or the one that only looks.              *)
ReapPhase(j) ==
  CASE j \in reapAttempted -> IF HasRecord(j) /\ killConfirmed[j] = "yes"
                              THEN "yes" ELSE "no"
    [] NoChild(j) -> "yes"
    [] OTHER -> IF IsRetry(j) THEN "existence" ELSE "reaper"

Pending(p) == p \in {"reaper", "existence"}

(* kill_confirmed after the synchronous part, for the jobs js.              *)
ConfirmedAtOnce(js) ==
  [j \in Jobs |-> IF j \in js /\ NoChild(j) /\ HasRecord(j) THEN "yes"
                  ELSE killConfirmed[j]]

EnterReaps(js) ==
  /\ reapEntered' = reapEntered \cup {j \in js : ReapPhase(j) = "reaper"}
  /\ reapAttempted' = reapAttempted

(* Fault: the group is reported gone without looking at its descendants.    *)
MayConfirmLeaderOnly(j, confirmed) == confirmed => leader[j] # "alive"

(* The oracle says "empty" only of an empty group; it may fail closed, and  *)
(* a reaper that throws counts as unconfirmed.                              *)
MayConfirm(j, confirmed) == confirmed => ~GroupAlive(j)

ReapSettles(j, k) ==
  /\ Pending(phase[j][k])
  /\ phase' = [phase EXCEPT ![j][k] = "idle"]
  /\ awaitingRelease' = IF k = "exit" THEN awaitingRelease \ {j} ELSE awaitingRelease
  /\ \E confirmed \in BOOLEAN :
       LET landed == confirmed /\ HasRecord(j)
       IN  /\ MayConfirm(j, confirmed)
           /\ reapAttempted' = IF landed THEN reapAttempted \cup {j} ELSE reapAttempted
           /\ ReapDecided(j, k, IF landed THEN "yes" ELSE "no", state,
                          SetKillConfirmation(j, IF confirmed THEN "yes" ELSE "no"))
  /\ UNCHANGED <<reapEntered, exitSeen, cap, shuttingDown>>

-----------------------------------------------------------------------------
(* run().                                                                   *)

(* Fault: the cap is compared with <= instead of <.                         *)
AdmitsOverCap(c) == ~shuttingDown /\ c > 0 /\ queue = <<>> /\ activeSlots <= c

Admits(c) == ~shuttingDown /\ c > 0 /\ queue = <<>> /\ activeSlots < c

(* Fault: a run() that arrives during the shutdown is queued.               *)
QueuesInShutdown(c) == c > 0 /\ activeSlots >= c /\ Len(queue) < MaxQueueDepth

Queues(c) == /\ ~shuttingDown /\ c > 0
             /\ queue # <<>> \/ activeSlots >= c
             /\ Len(queue) < MaxQueueDepth

(* A cwd, executable or policy failure: a terminal record and no slot.      *)
RunPreflightFails(j) ==
  /\ state[j] = "none" /\ "preflight" \in SpawnOutcomes
  /\ Records([state EXCEPT ![j] = "failed"], [killConfirmed EXCEPT ![j] = "yes"])
  /\ UNCHANGED <<procVars, queueVars, slotVars, strandVars, reapVars, restVars, phase>>

RunAdmitted(j) ==
  /\ state[j] = "none" /\ Admits(cap)
  /\ \E outcome \in [{j} -> SpawnOutcomes \ {"preflight"}] :
       /\ BeginSpawn({j}, outcome, [state EXCEPT ![j] = "starting"], killConfirmed)
       /\ slotReserved' = slotReserved \cup {j}
       /\ IF outcome[j] = "throws"
            THEN slotReleased' = slotReleased \cup {j} /\ activeSlots' = activeSlots
            ELSE slotReleased' = slotReleased /\ activeSlots' = activeSlots + 1
  /\ UNCHANGED <<queueVars, lostSlots, strandVars, reapVars, restVars, phase>>

RunQueued(j) ==
  /\ state[j] = "none" /\ Queues(cap)
  /\ Records([state EXCEPT ![j] = "starting"], killConfirmed)
  /\ queue' = Append(queue, j)
  /\ queuePosition' = [queuePosition EXCEPT ![j] = Len(queue')]
  /\ UNCHANGED <<procVars, slotVars, strandVars, reapVars, restVars, phase>>

SetConcurrencyConfig(c) ==
  /\ c # cap
  /\ cap' = c
  /\ DrainQueue(state, killConfirmed, slotReleased, activeSlots, c)
  /\ UNCHANGED <<lostSlots, strandVars, reapVars, exitSeen, awaitingRelease,
                 shuttingDown, phase>>

-----------------------------------------------------------------------------
(* The child: its events, and what the system does to its process group.    *)

OnSpawn(j) ==
  /\ state[j] = "starting" /\ leader[j] \in {"alive", "dead"}
  /\ Records([state EXCEPT ![j] = "running"], killConfirmed)
  /\ UNCHANGED <<procVars, queueVars, slotVars, strandVars, reapVars, restVars, phase>>

(* The 'error' event comes once: before it the record is still live.        *)
OnError(j) ==
  /\ leader[j] = "doomed" /\ state[j] \in Live
  /\ LET st == Marked(j, "failed")
         kc == SetKillConfirmation(j, "yes")
     IN  IF MayRelease(j) THEN FreeSlot(j, st, kc) ELSE KeepSlots(st, kc)
  /\ UNCHANGED <<reapVars, restVars, phase>>

LeaderDies(j) ==
  /\ leader[j] = "alive"
  /\ leader' = [leader EXCEPT ![j] = "dead"]
  /\ UNCHANGED <<recordVars, children, orphan, queueVars, slotVars, strandVars,
                 reapVars, restVars, phase>>

OrphanStarts(j) ==
  /\ leader[j] = "alive" /\ j \in ForkingJobs /\ ~orphan[j]
  /\ orphan' = [orphan EXCEPT ![j] = TRUE]
  /\ UNCHANGED <<recordVars, children, leader, queueVars, slotVars, strandVars,
                 reapVars, restVars, phase>>

OrphanDies(j) ==
  /\ orphan[j]
  /\ orphan' = [orphan EXCEPT ![j] = FALSE]
  /\ UNCHANGED <<recordVars, children, leader, queueVars, slotVars, strandVars,
                 reapVars, restVars, phase>>

(* 'exit': the terminal-mark gate (which marks the record at once if both   *)
(* streams have ended), the eager reap, and a releaseSlot suspended on it.  *)
OnExit(j) ==
  /\ leader[j] = "dead" /\ j \notin exitSeen /\ state[j] # "starting"
  /\ exitSeen' = exitSeen \cup {j}
  /\ \E st \in {state, Marked(j, "exited"), Marked(j, "killed")} :
       LET p == ReapPhase(j)
           kc == ConfirmedAtOnce({j})
       IN  IF Pending(p) \/ ~MayRelease(j)
           THEN KeepSlots(st, kc) ELSE CommitRelease(j, p, st, kc)
  /\ EnterReaps({j})
  /\ IF Pending(ReapPhase(j))
       THEN /\ phase' = [phase EXCEPT ![j]["exit"] = ReapPhase(j)]
            /\ awaitingRelease' = IF MayRelease(j) THEN awaitingRelease \cup {j}
                                  ELSE awaitingRelease
       ELSE UNCHANGED <<phase, awaitingRelease>>
  /\ UNCHANGED <<cap, shuttingDown>>

(* The gate fires later: a last stream end, or a quiet pass after the reap. *)
GateFires(j) ==
  /\ j \in exitSeen /\ state[j] \in Live
  /\ \E s \in {"exited", "killed"} : Records(Marked(j, s), killConfirmed)
  /\ UNCHANGED <<procVars, queueVars, slotVars, strandVars, reapVars, restVars, phase>>

-----------------------------------------------------------------------------
(* retryStrandedSlot: the timer, and what is decided without an await.      *)

RetryTimerFires(j) ==
  /\ j \in retryTimer \cap strandedSlots
  /\ EnterReaps({j})
  /\ LET p     == ReapPhase(j)
         kc    == ConfirmedAtOnce({j})
         tried == attempts[j] + 1
     IN  /\ phase' = [phase EXCEPT ![j]["retry"] = IF Pending(p) THEN p ELSE "idle"]
         /\ IF p = "yes" /\ MayRelease(j)
              THEN FreeSlot(j, state, kc)
              ELSE /\ Records(state, kc)
                   /\ attempts' = [attempts EXCEPT ![j] = tried]
                   /\ retryTimer' = IF p = "no" /\ tried < MaxStrandedSlotAttempts
                                    THEN retryTimer ELSE retryTimer \ {j}
                   /\ UNCHANGED <<procVars, queueVars, slotVars, strandedSlots>>
  /\ UNCHANGED restVars

(* Armed by a retry during whose reap the slot was freed or the job purged. *)
StaleRetryFires(j) ==
  /\ j \in retryTimer \ strandedSlots
  /\ retryTimer' = retryTimer \ {j}
  /\ UNCHANGED <<recordVars, procVars, queueVars, slotVars, strandedSlots, attempts,
                 reapVars, restVars, phase>>

-----------------------------------------------------------------------------
(* kill() on a terminal record, and on a queued one.                        *)

KillTerminal(j, k) ==
  /\ k \in KillCalls /\ phase[j][k] = "idle" /\ state[j] \in Terminal
  /\ EnterReaps({j})
  /\ LET p  == ReapPhase(j)
         kc == ConfirmedAtOnce({j})
     IN  /\ phase' = [phase EXCEPT ![j][k] = IF Pending(p) THEN p ELSE "idle"]
         /\ IF p = "yes" /\ MayRelease(j)
              THEN FreeSlot(j, state, kc) ELSE KeepSlots(state, kc)
  /\ UNCHANGED restVars

IsQueued(j) == queuePosition[j] # 0

KillQueued(j) ==
  /\ state[j] \in Live /\ IsQueued(j)
  /\ \E i \in DOMAIN queue :
       /\ queue[i] = j
       /\ queue' = SubSeq(queue, 1, i - 1) \o SubSeq(queue, i + 1, Len(queue))
  /\ queuePosition' = Renumbered({j}, queue')
  /\ Records(Marked(j, "killed"), SetKillConfirmation(j, "yes"))
  /\ UNCHANGED <<procVars, slotVars, strandVars, reapVars, restVars, phase>>

-----------------------------------------------------------------------------
(* Signalling a live job: kill(), the deadline and the shutdown share the   *)
(* identity gate and killProcessGroupPosix.                                 *)

KillLive(j, k) ==
  /\ k \in KillCalls /\ phase[j][k] = "idle"
  /\ state[j] \in Live /\ ~IsQueued(j) /\ j \in children
  /\ phase' = [phase EXCEPT ![j][k] = "identity"]
  /\ UNCHANGED <<storeVars, reapVars, restVars>>

DeadlineFires(j) ==
  /\ j \in deadlineTimer
  /\ deadlineTimer' = deadlineTimer \ {j}
  /\ phase' = [phase EXCEPT ![j]["deadline"] = "identity"]
  /\ UNCHANGED <<state, killConfirmed, procVars, queueVars, slotVars, strandVars,
                 reapVars, restVars>>

(* The pid names no process, or not the one that was spawned.               *)
GateStops(j, k) ==
  /\ phase[j][k] = "identity" /\ leader[j] # "alive"
  /\ phase' = [phase EXCEPT ![j][k] = "idle"]
  /\ UNCHANGED <<storeVars, reapVars, restVars>>

(* Only the shutdown marks the reap as attempted before it signals.         *)
MarksAttempt(k) == k = "shutdown"

(* Proceed with the group still there: its identity is read before SIGTERM. *)
GateProceeds(j, k) ==
  /\ phase[j][k] = "identity" /\ Signallable(j)
  /\ phase' = [phase EXCEPT ![j][k] = "snapshot"]
  /\ reapAttempted' = IF MarksAttempt(k) THEN reapAttempted \cup {j} ELSE reapAttempted
  /\ UNCHANGED <<storeVars, reapEntered, restVars>>

KillMark(j, k) == Marked(j, IF k = "deadline" THEN "failed" ELSE "killed")

(* SIGTERM: delivered (an unreaped leader still takes it); or the group is  *)
(* already gone; or the system refuses, which ends the call.                *)
SendTerm(j, k) ==
  /\ phase[j][k] = "snapshot"
  /\ \/ /\ Signallable(j)
        /\ Records(KillMark(j, k), killConfirmed)
        /\ phase' = [phase EXCEPT ![j][k] = "confirm"]
     \/ /\ ~GroupAlive(j)
        /\ phase' = [phase EXCEPT ![j][k] = "confirm"]
        /\ UNCHANGED recordVars
     \/ /\ phase' = [phase EXCEPT ![j][k] = "idle"]
        /\ UNCHANGED recordVars
  /\ UNCHANGED <<procVars, queueVars, slotVars, strandVars, reapVars, restVars>>

(* Whether the call, its outcome known, has spent the one cleanup reap.     *)
SpendsAttempt(j, k, confirmed) ==
  MarksAttempt(k) \/ (k \in KillCalls /\ confirmed /\ HasRecord(j))

RecordOutcome(j, k, confirmed) ==
  /\ Records(state, SetKillConfirmation(j, IF confirmed THEN "yes" ELSE "no"))
  /\ reapAttempted' = IF SpendsAttempt(j, k, confirmed) THEN reapAttempted \cup {j}
                      ELSE reapAttempted

(* Proceed, and the group turns out to be empty: nothing is signalled.      *)
GateFindsGroupGone(j, k) ==
  /\ phase[j][k] = "identity" /\ ~GroupAlive(j)
  /\ phase' = [phase EXCEPT ![j][k] = "idle"]
  /\ RecordOutcome(j, k, TRUE)
  /\ UNCHANGED <<procVars, queueVars, slotVars, strandVars, reapEntered, restVars>>

(* The grace wait, the SIGKILL if it comes to that, the confirmation; a     *)
(* SIGKILL the system refuses ends the call with nothing written.           *)
KillConfirms(j, k) ==
  /\ phase[j][k] = "confirm"
  /\ phase' = [phase EXCEPT ![j][k] = "idle"]
  /\ \/ \E confirmed \in BOOLEAN : MayConfirm(j, confirmed) /\ RecordOutcome(j, k, confirmed)
     \/ UNCHANGED <<recordVars, reapAttempted>>
  /\ UNCHANGED <<procVars, queueVars, slotVars, strandVars, reapEntered, restVars>>

(* A signal of the caller's choice, sent once; SIGKILL marks the attempt    *)
(* before it is sent.  The system may refuse it, which ends the call.       *)
KillSends(j, k, signal) ==
  /\ k \in KillCalls /\ phase[j][k] = "identity"
  /\ reapAttempted' = IF signal = "SIGKILL" THEN reapAttempted \cup {j} ELSE reapAttempted
  /\ \E next \in {"sent", "missed", "idle"} :
       /\ next = "sent" => Signallable(j)
       /\ next = "missed" => ~GroupAlive(j)
       /\ phase' = [phase EXCEPT ![j][k] = next]
  /\ UNCHANGED <<storeVars, reapEntered, restVars>>

KillSentConfirms(j, k) ==
  /\ phase[j][k] \in {"sent", "missed"}
  /\ phase' = [phase EXCEPT ![j][k] = "idle"]
  /\ \/ UNCHANGED recordVars
     \/ /\ MayConfirm(j, TRUE)
        /\ Records(IF phase[j][k] = "sent" THEN Marked(j, "killed") ELSE state,
                   SetKillConfirmation(j, "yes"))
  /\ UNCHANGED <<procVars, queueVars, slotVars, strandVars, reapVars, restVars>>

-----------------------------------------------------------------------------
(* tasks/get on an expired record, and the shutdown.                        *)

Expired(j) == j \in PurgeableJobs /\ state[j] \in Terminal /\ j \notin strandedSlots

(* Fault: deleteJob forgets that the slot was released, not who reserved it. *)
UnreservedNot(j) == slotReserved

Unreserved(j) == slotReserved \ {j}

(* deleteJob: every trace of the job except activeSlots and reapAttempted.  *)
Purge(j) ==
  /\ Expired(j)
  /\ Records([state EXCEPT ![j] = "purged"], [killConfirmed EXCEPT ![j] = "unset"])
  /\ children' = children \ {j}
  /\ slotReleased' = slotReleased \ {j}
  /\ slotReserved' = Unreserved(j)
  /\ lostSlots' = lostSlots \cup ({j} \cap Held)
  /\ strandedSlots' = strandedSlots \ {j}
  /\ retryTimer' = retryTimer \ {j}
  /\ reapEntered' = reapEntered \ {j}
  /\ UNCHANGED <<leader, orphan, queueVars, activeSlots, attempts, reapAttempted,
                 restVars, phase>>

(* beginShutdown and drainQueueOnShutdown, then, for every job that has a   *)
(* child, the first step of its reap by the state its record has now.       *)
BeginShutdown ==
  /\ MayShutDown /\ ~shuttingDown
  /\ shuttingDown' = TRUE
  /\ queue' = <<>>
  /\ LET queued == Front(queue, Len(queue))
         ended  == {j \in children : state[j] \in Terminal}
     IN  /\ queuePosition' = Renumbered(queued, queue')
         /\ Records([j \in Jobs |-> IF j \in queued THEN "killed" ELSE state[j]],
                    [j \in Jobs |-> IF j \in queued THEN "yes" ELSE killConfirmed[j]])
         /\ EnterReaps(ended)
         /\ phase' = [j \in Jobs |->
              IF j \in children /\ (j \in ended => Pending(ReapPhase(j)))
              THEN [phase[j] EXCEPT !["shutdown"] =
                      IF j \in ended THEN ReapPhase(j) ELSE "identity"]
              ELSE phase[j]]
  /\ UNCHANGED <<procVars, slotVars, strandVars, exitSeen, awaitingRelease, cap>>

-----------------------------------------------------------------------------

Call(j, k) ==
  \/ ReapSettles(j, k) \/ KillTerminal(j, k) \/ KillLive(j, k)
  \/ GateStops(j, k) \/ GateProceeds(j, k) \/ GateFindsGroupGone(j, k)
  \/ SendTerm(j, k) \/ KillConfirms(j, k) \/ KillSentConfirms(j, k)
  \/ \E signal \in CustomSignals : KillSends(j, k, signal)

Job(j) ==
  \/ RunPreflightFails(j) \/ RunAdmitted(j) \/ RunQueued(j)
  \/ OnSpawn(j) \/ OnError(j) \/ OnExit(j) \/ GateFires(j)
  \/ LeaderDies(j) \/ OrphanStarts(j) \/ OrphanDies(j)
  \/ RetryTimerFires(j) \/ StaleRetryFires(j) \/ KillQueued(j) \/ DeadlineFires(j) \/ Purge(j)

Next ==
  \/ \E j \in Jobs : Job(j) \/ \E k \in Kinds : Call(j, k)
  \/ \E c \in Caps : SetConcurrencyConfig(c)
  \/ BeginShutdown

Spec == Init /\ [][Next]_vars

(* Timers fire and the bounded waits of a reap end; nothing is assumed of   *)
(* the processes, the clients or the outcome of a reap.                     *)
Fairness ==
  \A j \in Jobs : /\ WF_vars(ReapSettles(j, "exit"))
                 /\ WF_vars(ReapSettles(j, "retry"))
                 /\ WF_vars(RetryTimerFires(j))

FairSpec == Spec /\ Fairness

-----------------------------------------------------------------------------
(* The variables hold values of their types; in particular a stranded slot  *)
(* gets no more reap cycles than MAX_STRANDED_SLOT_ATTEMPTS.                *)
TypeOK ==
  /\ state \in [Jobs -> Live \cup Terminal \cup {"none", "purged"}]
  /\ killConfirmed \in [Jobs -> {"unset", "yes", "no"}]
  /\ deadlineTimer \subseteq Jobs /\ children \subseteq Jobs /\ exitSeen \subseteq Jobs
  /\ leader \in [Jobs -> {"none", "doomed", "alive", "dead"}]
  /\ orphan \in [Jobs -> BOOLEAN]
  /\ queue \in Seq(Jobs)
  /\ queuePosition \in [Jobs -> Nat]
  /\ activeSlots \in Nat /\ cap \in Caps
  /\ slotReserved \subseteq Jobs /\ slotReleased \subseteq Jobs /\ lostSlots \subseteq Jobs
  /\ strandedSlots \subseteq Jobs /\ retryTimer \subseteq Jobs
  /\ attempts \in [Jobs -> 0 .. MaxStrandedSlotAttempts]
  /\ awaitingRelease \subseteq Jobs
  /\ reapAttempted \subseteq Jobs /\ reapEntered \subseteq Jobs
  /\ phase \in [Jobs -> [Kinds -> Phases]]
  /\ shuttingDown \in BOOLEAN

(* activeSlots, a counter every path adjusts by hand, always equals the     *)
(* number of slots taken and not given back: no release is counted twice,   *)
(* none is charged to a job that never held a slot, whatever the order of   *)
(* the exit reap, the retry, kill() and the purge.                          *)
SlotAccounting == activeSlots = Cardinality(Held) + Cardinality(lostSlots)

(* A job with a live process still counts against the cap: no reap, kill,   *)
(* retry or purge frees a slot some process is still using.                 *)
LiveGroupsHoldSlots == \A j \in Jobs : GroupAlive(j) => j \in Held \cup lostSlots

(* No job waits while the cap has room: every path that frees or adds       *)
(* capacity drains the queue as far as it goes, spawns that throw included. *)
WorkConserving == queue # <<>> => activeSlots >= cap

(* queue_position, by which kill() tells a queued job from a started one,   *)
(* is the job's place in the queue, and set exactly while it waits.         *)
QueueSound ==
  \A j \in Jobs :
    /\ queuePosition[j] # 0 <=> (state[j] = "starting" /\ leader[j] = "none")
    /\ queuePosition[j] # 0 => /\ queuePosition[j] \in DOMAIN queue
                               /\ queue[queuePosition[j]] = j
                               /\ j \notin slotReserved

(* kill_confirmed: true is never said of a group with a live member, however *)
(* the reap, kill(), the deadline and the shutdown interleave their writes. *)
ConfirmedMeansGone == \A j \in Jobs : killConfirmed[j] = "yes" => ~GroupAlive(j)

(* Two callers that reach reapProcessGroupOnce at the same time never both  *)
(* take the branch that may signal.                                         *)
OneSignallingReap ==
  \A j \in Jobs : Cardinality({k \in Kinds : phase[j][k] = "reaper"}) <= 1

(* Once the leader's exit has been delivered its pgid may be recycled: only *)
(* the exit handler itself may still start a reap that signals.             *)
NoLateSignal ==
  [][\A j \in Jobs, k \in Kinds :
       phase[j][k] # "reaper" /\ phase'[j][k] = "reaper" => j \notin exitSeen]_vars

(* A slot is granted only under the cap in force, also after the cap was    *)
(* lowered below what is active.                                            *)
GrantsWithinCap == [][activeSlots' > activeSlots => activeSlots' <= cap']_vars

(* The first terminal state a record reaches is the one it keeps, whichever *)
(* of exit, kill(), deadline, shutdown and spawn error comes second.        *)
TerminalIsFinal ==
  [][\A j \in Jobs : state[j] \in Terminal => state'[j] \in {state[j], "purged"}]_vars

(* Once the shutdown has begun no slot it frees, and no run(), starts a     *)
(* process that the shutdown's reap has not seen.                           *)
NoStartInShutdown ==
  [][shuttingDown => \A j \in Jobs : leader'[j] = "alive" => leader[j] = "alive"]_vars

(* After the leader's exit a slot never stays held in silence: it is freed, *)
(* or it ends as the disclosed residual, stranded with no retry to come.    *)
Residual(j) == j \in strandedSlots /\ j \notin retryTimer /\ phase[j]["retry"] = "idle"
SlotSettles ==
  \A j \in Jobs : j \in exitSeen /\ j \in Held ~> j \notin Held \/ Residual(j)

(* deleteJob's doc: the TTL purge "can never be the thing that silently     *)
(* strands a slot forever".                                                 *)
PurgeNeverStrandsASlot == lostSlots = {}

(* retryStrandedSlot's doc: the retry "really does re-consult the reaper    *)
(* rather than hitting the already-attempted short-circuit".                *)
RetryReconsults ==
  \A j \in retryTimer : j \in reapAttempted => killConfirmed[j] = "yes"

(* The store is a semaphore with a FIFO of waiting jobs: the reaps, retries, *)
(* kills and purges of this module are steps of SlotSemaphore or stutters.  *)
Semaphore ==
  INSTANCE SlotSemaphore WITH
    Limits  <- Caps,
    waiting <- queue,
    holding <- Held \cup lostSlots,
    running <- {j \in Jobs : GroupAlive(j)},
    done    <- {j \in Jobs : /\ state[j] # "none" /\ queuePosition[j] = 0
                            /\ j \notin Held \cup lostSlots},
    limit   <- cap

ImplementsSemaphore == Semaphore!Spec

=============================================================================
