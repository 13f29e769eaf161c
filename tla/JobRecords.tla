----------------------------- MODULE JobRecords -----------------------------
(***************************************************************************)
(* The records of the job store over time: what marks them, what their      *)
(* output is kept for, when a task expires, and what status, list and the   *)
(* tasks adapter tell of them.  JobSlots has the slots and the reaps behind *)
(* the steps this module takes whenever they may come; a clock that is set  *)
(* back is left out.                                                        *)
(***************************************************************************)
EXTENDS Integers, FiniteSets, Functions

CONSTANTS
  MaxJobs,           \* bound: a job is the number of its creation, its seq
  MaxTime,           \* bound of the clock
  MaxChunks,         \* bound of the chunks a job prints
  Detailed,          \* bound: the jobs whose identity settles and signal is updated
  RETENTION_MS,
  MAX_RETAINED_JOBS,
  TASK_TTL_MS

ASSUME BoundsAssumption == {MaxJobs, MaxTime, MaxChunks} \subseteq Nat
ASSUME RetentionAssumption == {RETENTION_MS, MAX_RETAINED_JOBS, TASK_TTL_MS} \subseteq Nat

VARIABLES
  clock,
  jobs,              \* from the jobs with a record to their records
  created,           \* how many were made
  chunks,            \* bytesEverReceived
  child,             \* the tracked children: "no", "untold", "told" of an identity
  childrenExited,            \* whose leader's exit was seen
  reapPending,
  strandedSlots,
  retentionEvicted,
  unguarded          \* history: reclaimed before their release began

recVars == <<jobs, created, chunks, child, childrenExited, reapPending, strandedSlots, retentionEvicted, unguarded>>
jobsVars == <<clock, recVars>>

Ids  == 1 .. MaxJobs
Null == "none"

JobRecord ==
  [state : {"starting", "running", "exited", "killed", "failed"},
   started_at : Nat, last_updated_at : Nat, ended_at : Nat \cup {-1},
   exit_code : {Null, "a code"}, signal : {Null, "SIGTERM", "SIGKILL", "queue-cancelled"},
   diagnostic : {Null, "a reason"}, seq : Nat,
   identity_capture : {Null, "pending", "captured", "unavailable"}]

isTerminalJobState(s) == s \in {"exited", "killed", "failed"}

Ended(j) == isTerminalJobState(jobs[j].state)

JobsInit ==
  /\ clock = 0 /\ jobs = <<>> /\ created = 0
  /\ chunks = [j \in Ids |-> 0] /\ child = [j \in Ids |-> "no"]
  /\ childrenExited = {} /\ reapPending = {} /\ strandedSlots = {}
  /\ retentionEvicted = {} /\ unguarded = {}

-----------------------------------------------------------------------------
(* Retention.                                                               *)

HoldsOutput(j) == chunks[j] > 0

(* Fault: a cleanup whose outcome is not known yet protects nothing.        *)
ReclaimableAtOnce ==
  {j \in DOMAIN jobs : Ended(j) /\ HoldsOutput(j) /\ j \notin strandedSlots \cup retentionEvicted}

Reclaimable ==
  {j \in DOMAIN jobs : /\ Ended(j) /\ HoldsOutput(j)
                       /\ j \notin strandedSlots \cup reapPending \cup retentionEvicted}

Overdue(j) == clock - jobs[j].ended_at >= RETENTION_MS

(* Ids are random, and order those that ended together: rank is any order.  *)
(* Fault: the overflow is taken from the wrong end.                         *)
YoungestFirst(rank, i, k) ==
  \/ jobs[i].ended_at > jobs[k].ended_at
  \/ jobs[i].ended_at = jobs[k].ended_at /\ rank[i] < rank[k]

byAge(rank, i, k) ==
  \/ jobs[i].ended_at < jobs[k].ended_at
  \/ jobs[i].ended_at = jobs[k].ended_at /\ rank[i] < rank[k]

(* The overdue, and of the others the first by age beyond the limit.        *)
decideRetentionEvictions(rank) ==
  LET survivors == {j \in Reclaimable : ~Overdue(j)}
      overflow  == Cardinality(survivors) - MAX_RETAINED_JOBS
      before(j) == {i \in survivors : byAge(rank, i, j)}
  IN  {j \in Reclaimable : Overdue(j) \/ Cardinality(before(j)) < overflow}

SweepRetention ==
  \E evicted \in {decideRetentionEvictions(rank) : rank \in Injection(Ids, Ids)} :
    /\ retentionEvicted' = retentionEvicted \cup evicted
    /\ unguarded' = unguarded \cup (evicted \ childrenExited)

NoSweep == UNCHANGED <<retentionEvicted, unguarded>>

-----------------------------------------------------------------------------
(* The records.                                                             *)

Fresh(state, ended, reason) ==
  [state |-> state, started_at |-> clock, last_updated_at |-> clock, ended_at |-> ended,
   exit_code |-> Null, signal |-> Null, diagnostic |-> reason, seq |-> created + 1,
   identity_capture |-> Null]

With(j, record) == [k \in DOMAIN jobs \cup {j} |-> IF k = j THEN record ELSE jobs[k]]

Adds(record) ==
  /\ created < MaxJobs
  /\ created' = created + 1
  /\ jobs' = With(created + 1, record)
  /\ SweepRetention
  /\ UNCHANGED <<clock, chunks, child, childrenExited, reapPending, strandedSlots>>

CreateJob == Adds(Fresh("starting", -1, Null))

(* Whatever the reason is, a spawn error or a denial by the policy.         *)
CreateFailedJob == Adds(Fresh("failed", clock, "a reason"))

(* Fault: a mark replaces the one before it.                                *)
MarkedOver(j, state, code, signal, reason) ==
  [jobs EXCEPT ![j] = [@ EXCEPT !.state = state, !.ended_at = clock, !.last_updated_at = clock,
                                !.exit_code = code, !.signal = signal, !.diagnostic = reason]]

(* A record takes the first of its terminal marks.                          *)
Marked(j, state, code, signal, reason) ==
  IF Ended(j) THEN jobs
  ELSE [jobs EXCEPT ![j] = [@ EXCEPT !.state = state, !.ended_at = clock, !.last_updated_at = clock,
                                     !.exit_code = code, !.signal = signal, !.diagnostic = reason]]

(* beginSpawn: the child is tracked and the capture of its identity begins. *)
SpawnChild(j) ==
  /\ jobs[j].state = "starting" /\ child[j] = "no"
  /\ child' = [child EXCEPT ![j] = "untold"]
  /\ jobs' = [jobs EXCEPT ![j].identity_capture = "pending"]
  /\ UNCHANGED <<clock, created, chunks, childrenExited, reapPending, strandedSlots>> /\ NoSweep

CaptureSettles(j, identified) ==
  /\ j \in Detailed /\ jobs[j].identity_capture = "pending"
  /\ child' = [child EXCEPT ![j] = IF identified THEN "told" ELSE @]
  /\ jobs' = [jobs EXCEPT ![j].identity_capture = IF identified THEN "captured" ELSE "unavailable"]
  /\ UNCHANGED <<clock, created, chunks, childrenExited, reapPending, strandedSlots>> /\ NoSweep

OnSpawn(j) ==
  /\ child[j] # "no" /\ jobs[j].state = "starting"
  /\ jobs' = [jobs EXCEPT ![j].state = "running"]
  /\ UNCHANGED <<clock, created, chunks, child, childrenExited, reapPending, strandedSlots>> /\ NoSweep

(* A spawn that fails has no child and no process.                          *)
OnError(j) ==
  /\ child[j] = "no" /\ jobs[j].state = "starting"
  /\ jobs' = Marked(j, "failed", Null, Null, "a reason")
  /\ UNCHANGED <<clock, created, chunks, child, childrenExited, reapPending, strandedSlots>> /\ NoSweep

(* A kill of a job that is still queued, or the drain of the queue at a     *)
(* shutdown, whose word for it is another.                                  *)
KilledInQueue(j) ==
  /\ child[j] = "no" /\ jobs[j].state = "starting"
  /\ jobs' = Marked(j, "killed", Null, "queue-cancelled", Null)
  /\ UNCHANGED <<clock, created, chunks, child, childrenExited, reapPending, strandedSlots>> /\ NoSweep

(* appendOutput, of a chunk that ends a line or not.  What comes after the  *)
(* output was reclaimed is counted and not kept.                            *)
AppendOutput(j, line) ==
  /\ child[j] # "no" /\ chunks[j] < MaxChunks
  /\ chunks' = [chunks EXCEPT ![j] = @ + 1]
  /\ jobs' = IF line /\ j \notin retentionEvicted
             THEN [jobs EXCEPT ![j].last_updated_at = clock] ELSE jobs
  /\ UNCHANGED <<clock, created, child, childrenExited, reapPending, strandedSlots>> /\ NoSweep

(* A kill's signal, or a deadline's, was delivered.                         *)
Signaled(j, state, signal, reason) ==
  /\ child[j] # "no" /\ j \notin childrenExited
  /\ jobs' = Marked(j, state, Null, signal, reason)
  /\ UNCHANGED <<clock, created, chunks, child, childrenExited, reapPending, strandedSlots>> /\ NoSweep

KillSignaled(j) ==
  \/ Signaled(j, "killed", "SIGTERM", Null)
  \/ Signaled(j, "failed", Null, "a reason")

UpdateKillSignal(j) ==
  /\ j \in Detailed /\ jobs[j].state = "killed" /\ jobs[j].signal = "SIGTERM"
  /\ jobs' = [jobs EXCEPT ![j].signal = "SIGKILL"]
  /\ UNCHANGED <<clock, created, chunks, child, childrenExited, reapPending, strandedSlots>> /\ NoSweep

(* The leader's exit: releaseSlot begins to wait for what the reap decides. *)
OnChildExit(j) ==
  /\ child[j] # "no" /\ j \notin childrenExited
  /\ childrenExited' = childrenExited \cup {j} /\ reapPending' = reapPending \cup {j}
  /\ UNCHANGED <<clock, jobs, created, chunks, child, strandedSlots>> /\ NoSweep

GateFires(j) ==
  /\ j \in childrenExited /\ ~Ended(j)
  /\ \/ jobs' = Marked(j, "exited", "a code", Null, Null)
     \/ jobs' = Marked(j, "killed", Null, "SIGTERM", Null)
  /\ UNCHANGED <<clock, created, chunks, child, childrenExited, reapPending, strandedSlots>> /\ NoSweep

ReapDecides(j, confirmed) ==
  /\ j \in reapPending
  /\ reapPending' = reapPending \ {j}
  /\ strandedSlots' = IF confirmed THEN strandedSlots ELSE strandedSlots \cup {j}
  /\ UNCHANGED <<clock, jobs, created, chunks, child, childrenExited>> /\ NoSweep

(* A later release that is confirmed.                                       *)
Released(j) ==
  /\ j \in strandedSlots /\ strandedSlots' = strandedSlots \ {j}
  /\ UNCHANGED <<clock, jobs, created, chunks, child, childrenExited, reapPending>> /\ NoSweep

(* A sweep that finds no candidate changes nothing.                         *)
RetentionTimer ==
  /\ Reclaimable # {} /\ SweepRetention
  /\ UNCHANGED <<clock, jobs, created, chunks, child, childrenExited, reapPending, strandedSlots>>

-----------------------------------------------------------------------------
(* What is told of a record.                                                *)

isExpiredTerminalRecord(j) ==
  Ended(j) /\ j \notin strandedSlots /\ clock - jobs[j].ended_at >= TASK_TTL_MS

(* tasks/get of an expired record: the job is forgotten.                    *)
DeleteJob(j) ==
  /\ isExpiredTerminalRecord(j)
  /\ jobs' = [k \in DOMAIN jobs \ {j} |-> jobs[k]]
  /\ chunks' = [chunks EXCEPT ![j] = 0] /\ child' = [child EXCEPT ![j] = "no"]
  /\ reapPending' = reapPending \ {j} /\ strandedSlots' = strandedSlots \ {j}
  /\ retentionEvicted' = retentionEvicted \ {j} /\ unguarded' = unguarded \ {j}
  /\ UNCHANGED <<clock, created, childrenExited>>

mapJobStateToTaskStatus(s) ==
  CASE s \in {"starting", "running"} -> "working"
    [] s = "exited" -> "completed"
    [] s = "failed" -> "failed"
    [] s = "killed" -> "cancelled"

ttlMsFor(status) == IF status = "working" THEN -1 ELSE TASK_TTL_MS

buildGhantikaResultExtras(j) == [exitCode |-> jobs[j].exit_code, output |-> chunks[j]]

(* A completed and a failed task have a result, a cancelled one has none.   *)
buildDetailedTaskResult(j) ==
  LET status == mapJobStateToTaskStatus(jobs[j].state)
  IN  [status |-> status, createdAt |-> jobs[j].started_at,
       lastUpdatedAt |-> jobs[j].last_updated_at, ttlMs |-> ttlMsFor(status),
       result |-> IF status \in {"completed", "failed"}
                  THEN {buildGhantikaResultExtras(j)} ELSE {}]

getTask(j) ==
  IF j \notin DOMAIN jobs THEN [status |-> "not found"]
  ELSE IF isExpiredTerminalRecord(j) THEN [status |-> "not found"]
  ELSE buildDetailedTaskResult(j)

birthIdentityProjection(j) ==
  IF child[j] = "no" THEN "absent"
  ELSE IF child[j] = "told" THEN "captured"
  ELSE IF jobs[j].identity_capture = "pending" THEN "pending" ELSE "unavailable"

toPublicProjection(j) ==
  [state |-> jobs[j].state, ended_at |-> jobs[j].ended_at, exit_code |-> jobs[j].exit_code,
   signal |-> jobs[j].signal, diagnostic |-> jobs[j].diagnostic, counts |-> chunks[j]]

buildStatusProjection(j) ==
  [public |-> toPublicProjection(j), pid |-> child[j] # "no",
   birth_identity |-> birthIdentityProjection(j)]

compareMostRecentFirst(i, j) ==
  IF jobs[i].started_at # jobs[j].started_at THEN jobs[i].started_at > jobs[j].started_at
  ELSE jobs[i].seq > jobs[j].seq

-----------------------------------------------------------------------------
ClockTicks == clock < MaxTime /\ clock' = clock + 1 /\ UNCHANGED recVars

JobStep(j) ==
  \/ SpawnChild(j) \/ OnSpawn(j) \/ OnError(j) \/ KilledInQueue(j) \/ KillSignaled(j)
  \/ UpdateKillSignal(j)
  \/ OnChildExit(j) \/ GateFires(j) \/ Released(j) \/ DeleteJob(j)
  \/ \E b \in BOOLEAN : CaptureSettles(j, b) \/ AppendOutput(j, b) \/ ReapDecides(j, b)

JobsNext == CreateJob \/ CreateFailedJob \/ RetentionTimer \/ ClockTicks \/ \E j \in DOMAIN jobs : JobStep(j)

JobsSpec == JobsInit /\ [][JobsNext]_jobsVars

-----------------------------------------------------------------------------
JobsTypeOK ==
  /\ clock \in 0 .. MaxTime /\ created \in 0 .. MaxJobs /\ DOMAIN jobs \subseteq 1 .. created
  /\ \A j \in DOMAIN jobs : jobs[j] \in JobRecord /\ jobs[j].seq = j
  /\ child \in [Ids -> {"no", "untold", "told"}] /\ chunks \in [Ids -> 0 .. MaxChunks]
  /\ childrenExited \subseteq Ids /\ unguarded \subseteq retentionEvicted
  /\ reapPending \cup strandedSlots \cup retentionEvicted \subseteq DOMAIN jobs

(* The output of a job whose cleanup is undecided, or was not confirmed, is *)
(* kept for whoever looks into it, except where it was reclaimed between a  *)
(* kill's mark and the leader's exit, the gap reapPending's comment tells.  *)
TroubleKeepsItsOutput ==
  \A j \in reapPending \cup strandedSlots : j \in retentionEvicted => j \in unguarded

(* A sweep takes the output of those that ended first, or are overdue, and  *)
(* leaves no more than the limit, none of it overdue.                       *)
TakesTheOldest ==
  LET taken == retentionEvicted' \ retentionEvicted
      kept  == Reclaimable \ taken
  IN  /\ \A j \in taken, k \in kept : Overdue(j) \/ jobs[j].ended_at <= jobs[k].ended_at
      /\ created' # created =>
           Cardinality(kept) <= MAX_RETAINED_JOBS /\ \A k \in kept : ~Overdue(k)

ReclaimsTheOldest == [][TakesTheOldest]_jobsVars

(* The final answer on a task stays final: its status, times and exit code  *)
(* never change, its counts never shrink whatever is reclaimed, it is not   *)
(* withdrawn before its time to live has passed since it ended, and never   *)
(* comes back.                                                              *)
Keeps(old, new) ==
  /\ \A f \in {"status", "createdAt", "ttlMs"} : old[f] = new[f]
  /\ old.lastUpdatedAt <= new.lastUpdatedAt
  /\ \A r \in old.result : \E s \in new.result : r.exitCode = s.exitCode /\ r.output <= s.output

AnswerStays(j) ==
  /\ getTask(j).status \in {"completed", "failed", "cancelled"} =>
       \/ Keeps(getTask(j), getTask(j)')
       \/ getTask(j)'.status = "not found" /\ clock' - jobs[j].ended_at >= TASK_TTL_MS
  /\ j \notin DOMAIN jobs => j \notin DOMAIN jobs'

FinalAnswersStay == [][\A j \in 1 .. created : AnswerStays(j)]_jobsVars

(* The three views of a record agree: a task is at work just where status   *)
(* has no end time, a diagnostic and an exit code go with the states they   *)
(* explain, an identity is told only of a child that has a pid, and list    *)
(* shows the youngest job first.                                            *)
ViewsAgree ==
  /\ \A j \in DOMAIN jobs :
       LET status == buildStatusProjection(j)
           s == status.public
           t == mapJobStateToTaskStatus(s.state)
       IN  /\ (ttlMsFor(t) = -1) <=> s.ended_at = -1
           /\ s.exit_code # Null => t = "completed"
           /\ s.diagnostic # Null <=> t = "failed"
           /\ s.signal # Null <=> t = "cancelled"
           /\ status.birth_identity = "captured" <=> jobs[j].identity_capture = "captured"
           /\ s.ended_at <= jobs[j].last_updated_at
  /\ \A i, j \in DOMAIN jobs : compareMostRecentFirst(i, j) <=> i > j

RecordsAreKept == JobsTypeOK /\ TroubleKeepsItsOutput /\ ViewsAgree

(* What was once answered of a job stays, and what is reclaimed is what     *)
(* ended first.                                                             *)
AnswersOutliveRecords == ReclaimsTheOldest /\ FinalAnswersStay

=============================================================================
