# ghantika in TLA+

ghantika is an MCP server that runs commands in the background: a client starts
a job, reads its output, waits for it, kills it, and an idle agent session is
woken when there is something to read. The program is one node process, yet it
is concurrent throughout: every command is a group of operating system processes
that live and die on their own, every check of them (`ps`, `pgrep`) is an
`await`, and between an `await` and its continuation any other callback may run.
Beside the server the repository holds programs that guard it: a test runner, a
coverage lock between processes, static checks, a doorbell between two
detectors. These modules model both, check them with TLC, and prove the core
with TLAPS.

All paths below are in the repository; `src/src/` is its TypeScript source and
`src/scripts/` the repository's own programs.

## 1. The system

| component | where | state | operations |
|---|---|---|---|
| slots and run queue | `jobStore.ts`, `scheduler.ts`, `tools/run.ts` | `activeSlots`, `queue`, `slotReserved`, `slotReleased`, `strandedSlots`, the cap | `requestSlot`, `enqueueJob`, `drainQueue`, `releaseSlot`, `markSlotStranded`, `retryStrandedSlot`, `removeFromQueue`, `setConcurrencyConfig`, `drainQueueOnShutdown`, `deleteJob` |
| job records | `jobStore.ts`, `tools/list.ts`, `tools/status.ts`, `tasksAdapter.ts` | `JobRecord`: state, `kill_confirmed`, `queue_position`, deadline, pid, times, signals, retention | `createJob`, `markRunning`, `markExited`, `markKilled`, `markDeadlineExceeded`, `markSpawnFailed`, `sweepRetention`, `deleteJob`, and the projections to `list`, `status` and a task |
| reap at leader exit | `jobStore.ts` | `reapAttempted`, `reapEntered`, `children` | `reapProcessGroupOnce` and its four callers |
| kill and cancel | `tools/kill.ts`, `tasksAdapter.ts`, `process.ts` | the suspended handlers | the terminal, queued and live branches; identity gate, SIGTERM, grace period, escalation gate, SIGKILL, confirmation |
| process identity | `process.ts` | birth identity of a pid, its capture in flight | capture with retry and deadline, batch reads, `/proc` and `ps` parsing, group confirmation |
| run() | `tools/run.ts`, `policy.ts` | none between calls | arguments and schema, working directory within the operator's roots, resolution of the executable, allowlist, start now or from the queue |
| output buffers | `jobStore.ts` | per stream: pending bytes, lines, `droppedCount`, `truncated`, `finalized`; the job's `seq` | `appendOutput`, `finalizeStream`, `sweepRetention` |
| output and tail | `tools/output.ts`, `tools/tail.ts` | none in the server; the client's cursor | a page after a cursor; the last lines; what is said of the lines that are gone |
| terminal-mark gate | `tools/run.ts` | `exitInfo`, ended and progressed streams, a scheduled check, `fired` | `onExit`, chunks, stream ends, `onReapSettled`, the check |
| follow | `tools/follow.ts`, `jobStore.ts` | listeners, timers, `outstandingFollowCount` | admission, recheck, wake, timeout, abort, resume |
| task watch | `tasksAdapter.ts` | pending lines, window timer, firehose streak, wake window, `last_wake_attempt` | `startTaskWatch`, `startTaskStatusNotifier`, `startTransportWakeOnOutput`, `startTransportWakeOnTerminal` |
| server | `server.ts` | stdin's buffer, the era, the handshake, early cancellations, the shutdown | cutting lines, dispatch, intercepted task methods, cancellation, `performShutdown` |
| wake transports | `wake/` | an app-server child and its session, two sockets | selection, probes, delivery, timeouts, crash safety |
| external wake | `scripts/dogfood-external-wake.mjs` | the poll loop, its controller | start, outcome line, exit, attempt, `stop()`, reap |
| doorbell cutover | `scripts/lib/doorbell-cutover*.mjs` | the trigger file, two detectors, its owner | arm, probe, hand over, mail, disarm |
| coverage lock, run and floor | `scripts/lib/coverage-floor-lock.mjs`, `scripts/run-tests.mjs`, `scripts/check-coverage-floor.mjs`, the wrappers | lock file, markers, token, summary | acquire, reclaim, hand over, abandon, release; run, flush, judge |
| test runner, sweep | `scripts/run-tests.mjs`, `scripts/measure-*.mjs` | batches, timers, what was seen of a file | flags, batches, three timers, verdict; repeats, recommendation |
| guards of workflow and pins | `scripts/verify-workflow-topology.mjs`, `scripts/gate-success-expression.mjs`, `scripts/check-sdk-exact-pin.mjs`, `scripts/check-typescript-peer-range.mjs` | none | parse, evaluate, compare |
| registry, other lints | `registry.ts`, `scripts/lib/ts-ast.mjs`, ... | none | tables and pure functions of files; not modelled |

### How they interact

`run()` judges its request, asks the store for a slot and, when it gets one,
spawns; otherwise the job waits in the store's FIFO with a closure that spawns
it. The child's `exit` event starts two things: the terminal-mark gate, which
marks the record once the output is in, and a reap of whatever is left of the
process group. `releaseSlot` shares that reap and awaits it, then frees the slot
and drains the queue, which spawns, which may fail and free the slot again. An
unconfirmed reap strands the slot, and a timer retries. At the same time
`kill()`, `tasks/cancel`, the deadline and the shutdown each run their own
sequence of awaits over the same record and the same sets, `tasks/get` may purge
the record, and the retention sweep may drop its output. `follow` and the task
watch hear of lines and of the end through listeners the store calls
synchronously; the watch notifies over the server's connection and dispatches
wake attempts, which talk to processes and sockets of their own.

### What is hard about it

- State read before an `await` and used after it: `releaseSlot`, the retry,
  `kill()` and the shutdown all act on a record another caller may have ended,
  freed, stranded or purged meanwhile; a pid may by then name someone else.
- The same fact kept twice by hand: `activeSlots` and the sets of reserved and
  released slots; `queue` and `queue_position`; a record's state and its group's
  processes, of which a descendant may outlive the leader.
- The event loop's order: exit before the last output, a check that cannot be
  cancelled, a window's timer that fires late, an exit event before the line
  that explains it, a cancellation before the request it cancels.
- Limits: the cap lowered below what is active, the resident budget of a
  stream, the budget of follow calls, the bounded map of early cancellations.
- Observers that fail, time out, or answer about a process that has gone.
- Crashes between two file operations of the coverage lock.
- Things that must happen: a slot is freed or disclosed as stranded; a job is
  marked although a descendant keeps its pipe open; a wait ends; a batch is
  sent; a wake attempt and a test run come to their end.

`PROJECT.json` lists each such hazard at its line, with the properties that
would catch it.

### What makes each component correct

| component | correct when |
|---|---|
| slots and queue | the count is exact; nothing that runs is uncounted; no job waits while there is room; no grant above the cap; a slot is never held in silence |
| records | the first terminal state stays; output of a record whose cleanup is open is kept; an answer once given is not taken back |
| kill and reap | one signalling reap per job, none once the pgid may belong to someone else; `kill_confirmed` is never said of a live group; the recorded signal and refusal are those of a call that did it |
| identity | a failed observation is never read as "gone"; what was found stays found; a text is read as it was printed |
| run() | arguments mean what the schema says; what starts is what the policy allowed |
| buffers | lines do not depend on how bytes were cut into chunks; every loss is disclosed; the budget holds |
| readers | what is shown is in order and once; what is missing was disclosed |
| gate | one mark, after all the command wrote, and always in the end |
| follow | no output is slept through; the budget is exact; a call leaves nothing behind; it ends |
| task watch | every line once and in order, one window late at most, nothing after the status; only a sustained rate stops it |
| server | each request is answered once or was cancelled; a cancellation reaches its request, whichever came first; a job admitted is reaped by the shutdown |
| wake transports | what is concluded of an attempt is what happened; no child outlives the server; each attempt ends |
| external wake, doorbell | an outcome is true and comes once; each mail resumes the agent, once, whoever owns the trigger |
| repository's programs | green means green: of the gate, the pins, the tests, the floor and the sweep |

## 2. The modules

| module | models | abstract or detailed |
|---|---|---|
| `SlotSemaphore` | what the slots promise: a semaphore with a FIFO | abstract |
| `JobSlots`, `MCJobSlots` | slots, queue, reap, kill, deadline, retry, purge, shutdown | detailed; implements `SlotSemaphore` |
| `JobRecords` | records over time, retention, expiry, and the answers of `list`, `status` and the tasks | detailed; takes reaps and kills as steps that may come |
| `ProcessGroup`, `KillEscalation` | a group of processes as the system shows it; every way the server signals it | detailed |
| `ObserverText`, `PidObservation` | what `ps` and `/proc` print; the observers and their timeouts | detailed |
| `RunRequest`, `SpawnPolicy`, `RunGate` | arguments and schema; paths, environment, allowlist on a disk; one call of `run()` | detailed |
| `StreamBuffer` | bytes to lines, evictions, retention | detailed |
| `OutputCursor`, `ToolViews`, `MCOutput` | paging readers; the answer of any one call | detailed; take from `StreamBuffer` only that the oldest lines may go |
| `TerminalMarkGate` | the gate and the event loop's phases | detailed; `JobSlots` has its result (`OnExit`, `GateFires`) |
| `FollowWait`, `ServerRequests`, `FollowSession` | the `follow` tool; requests and cancellations; a client that follows over one connection | detailed; `FollowSession` composes the two |
| `ServerWire` | stdin, both eras, the intercepted methods, the shutdown | detailed |
| `TaskWatch` | the watch, the notifier and the two wake starters | detailed |
| `WakeSelection`, `WakeTransports` | `selectAndWake`; the three transports and their peers | detailed |
| `ExternalWake` | the poll loop and its controller | detailed |
| `TriggerDetectors`, `DoorbellCutover` | the trigger's two detectors; the cutover and its harness | detailed |
| `CoverageFloorLock`, `CoverageGate`, `MCCoverageGate` | the lock between processes; the run and the floor check it guards | detailed |
| `TestRun`, `ConcurrencySweep` | the test runner; the sweeps of its concurrency | detailed |
| `WorkflowGate`, `DependencyPins` | edits of the workflow and of the pins, and their guards | detailed |
| `RepositoryVerdicts` | what `DependencyPins`, `TestRun` and `ConcurrencySweep` promise together | |
| `MCJobs`, `MCServer`, `MCWakes`, `MCRepository` | parts that share a run (section 3) | |
| `JobSlotsProofs`, `JobProofs`, `KillEscalationProofs`, `StreamBufferProofs`, `OutputProofs`, `ConnectionProofs`, `WakeProofs`, `RepositoryProofs` | theorems about the module they are named for; `JobProofs` is about `TerminalMarkGate`, `TaskWatch`, `PidObservation` (with `ObserverText`) and `JobRecords`, `ConnectionProofs` about `FollowSession` and `ServerWire`, `WakeProofs` about `WakeTransports`, `DoorbellCutover` and `ExternalWake`, `RepositoryProofs` about `CoverageGate`, `DependencyPins`, `TestRun` and `ConcurrencySweep` | proofs (section 4) |

**Grain.** Node drains every promise continuation that has nothing left to wait
for before it takes the next event. An action is therefore the code from one
event to the next real wait: a timer, a process, a pipe. So `OnExit` holds the
gate's callback, the entry of the eager reap, the guards of `releaseSlot` and,
when the reap decides without waiting, its commit, the drain of the queue and
the spawns of the dequeued jobs. A suspended call is `phase[j][k]`: which call
`k` about job `j` is waiting, and for what (`identity`: the gate's `ps`;
`snapshot`: the group's identities before SIGTERM; `confirm`: grace period,
SIGKILL and `pgrep`; `sent`, `missed`: the confirmation of a chosen signal;
`reaper`, `existence`: the two oracles of `reapProcessGroupOnce`). The coverage
lock is different: its programs are processes, so every file operation there is
a step, and a kill may fall between any two.

**Names.** Variables and operators keep the names of the fields and functions
they model where they have one. In `JobSlots`, `JobRecord.state` is `state`;
`"none"` is a job before its `run()`, `"purged"` one after `deleteJob`. `leader`
and `orphan` are the operating system's: whether the leader, and any descendant
in its group, is alive. History variables (`lostSlots`, `ever`, `received`,
`marks`, `wire`, `witnessed`, ...) are marked in the declarations and are read by
properties only.

**Faults.** An operator after a comment that starts with "Fault:" is not part of
the model. It is the form its neighbour would have with a plausible bug (a
dropped guard, a stale count), and `PROJECT.json` pairs it with the property
that finds it.

**What is abstracted.**

- In `JobSlots` the outcome of an external check is any that the code allows: a
  reap may confirm only a group that is empty, and may fail to confirm for any
  reason (`MayConfirm`); the identity gate may stop only when the pid names no
  process of ours, and may proceed whenever there is a group to be signalled.
  `KillEscalation` opens those checks: every observation is a step of its own,
  pids and group ids may be given to strangers, and the capture of the birth
  identity runs beside the calls.
- A group that has just emptied still takes a signal until its leader is waited
  for (`Signallable`).
- `JobRecords` takes what `JobSlots` decides (a reap settles, a slot strands) as
  steps that may come whenever the record allows them. `KilledInQueue` is the
  mark of a `kill()` or of the shutdown on a job without a child, of which no
  reap follows.
- In `CoverageFloorLock` a failed run is given up in the steps of the code:
  SIGTERM, which the command heeds now or not at all (`HeedsSigterm`), the end of
  `killBestEffort` (`Abandon`), and `release`, whose unlink may fail, so that
  the record stays for the next wrapper to judge.
- `StreamBuffer` has four kinds of bytes, enough for line ends, CRLF and a
  character of two bytes; sizes are of the decoded text, where a torn character
  became U+FFFD, as in the code.
- Paths are sequences of names and names sequences of letters in `SpawnPolicy`,
  so that case folding, links and prefixes are what they are; a disk folds case
  below a depth.
- `ObserverText` takes texts as tokens, and has the calendar in full, because the
  code re-parses the date `ps` prints.
- Messages of the wire, of the app-server and of the desktop app are records;
  their framing into chunks stays.
- `TaskWatch` counts time in ticks, one firehose period each, and takes at least
  one wake transport to be eligible. Elsewhere, too, durations are small numbers
  with the order the code's constants have.
- In `WorkflowGate` an expression is a tree and its text a sequence of tokens:
  the hand-written parser works on the tokens, the workflow on the tree.

## 3. The runs

Distinct states are of a complete search; no run has a state constraint. The
passing runs fire every action between them.

Some parts share a run although they share no state: a variable `part` says
which one a behaviour is of, the others stand at one fixed initial state, and
the fairness is that of the part that moves. Every property of a shared run is
about one part (or is the conjunction of one per part), so each part is checked
exactly as it would be alone.

| run | bounds | checks | what it shows |
|---|---|---|---|
| `one_job` | 1 job, 2 kill calls of any signal, every spawn outcome, a deadline, a descendant, purge, shutdown, 3 attempts | `LiveGroupsHoldSlots`, `ConfirmedMeansGone`, `SlotAccounting`, `SlotSettles`, `NoLateSignal`, `TerminalIsFinal` | every interleaving of the paths about one record |
| `queue` | 3 jobs, caps 1 and 2, queue of 2, every spawn outcome, shutdown | `WorkConserving`, `QueueSound`, `NoStartInShutdown`, `ImplementsSemaphore` | the FIFO under a changing cap, failing spawns and kills from its middle |
| `jobs` | judgement: requests over 6 disks, 5 policies, 3 roots, 1 change; observers: 2 pids with 3 turns each, timeouts of 1 to 3 ticks, all dates around the ends of months; gate: 2 streams, 3 writes; watch: 2 streams, 3 lines, 5 ticks | `RunsAreJudged`, `ObserversAreRight`, `MarkedOnceAfterOutput`, `ToldAsItHappened`, `FirehoseIsSustained`, `EndsAndLinesGoOut` | what surrounds a job, part by part |
| `records` | 2 jobs, one with every detail, 2 units of time, 1 chunk each, retention of 1 record | `RecordsAreKept`, `AnswersOutliveRecords` | sweep, expiry and late marks in every order |
| `kill_escalation` | one caller of each kind beside the exit reap, at most 2 at once, a member, a stranger | `KillsAreRecorded`, `NewcomersAreSpared`, `GateKnowsTheLeader` | observations that go stale before the signal |
| `output` | pages: 2 streams, 4 lines, 2 readers, pages of 1 and of everything; calls: 3 lines, any arguments | `PagesInOrder`, `GapsAreDisclosed`, `CallsAreHonest` | paging while lines come and go |
| `server` | wire: 6 scripts of 3 lines of two fragments; follow: 2 ids that differ in type only, budget 1, 1 early cancellation, 2 lines; buffer: 6 bytes of 4 kinds, 2 lines of 2 bytes, 2 bytes resident | `LinesAreWhole`, `LossIsDisclosed`, `FollowsAreSound`, `WireIsSound`, `CancelledIsCancelled`, `RequestsAreAnswered` | between a client and the output |
| `wakes` | transports: 1 attempt over every list of transports, 2 pages, 2 stray messages; doorbell: 3 mails, 3 attempts, 1 read that fails (`MaxUnread`); external: 1 handle | `AnswersStandUp`, `ExitLeavesNoChild`, `HandoffIsClean`, `OutcomesAreTrue`, `EachWakeEnds` | peers that answer late, wrongly or not at all |
| `coverage_gate` | 2 runs, 2 floor checks, 2 commits, 2 mishaps | `VerdictIsEarned`, `LockIsSound` | crashes and pid reuse at any step of the lock |
| `repository` | workflow: 2 edits, expressions of up to three parts; pins: 2 edits; tests: 3 files, 5 command lines; sweep: lists of up to 2 values, 2 repeats | `GreenMeansGreen`, `VerdictsAreEarned`, `ProgramsComeToAnEnd` | the guards against what they guard |

Two further runs refute what a comment of the code says: `purge_claim` and
`external_exit` (section 6).

**Why the bounds are enough.** The records of two jobs share only the count, the
cap and the queue; everything else about a job is its own. So one job with all
calls at once covers the races on a record, and three jobs, one running and two
waiting, cover the queue: a middle, a last, and a drain that dequeues two. Two
calls of one kind are the fewest that race. With 3 attempts, one more than
`MAX_STRANDED_SLOT_ATTEMPTS`, a retry can arm another one, also after its slot
was freed under it. In `JobRecords` one record is retained of two, so the sweep
has to choose. In `KillEscalation` two calls in progress are a signal and one
that overtakes it; a third only repeats the second. In `StreamBuffer` six bytes
make three full lines of two, one more than is retained, and a character that
straddles each cut. Four lines over two streams give a reader two pages with an
eviction in between. A watch with a window of one tick sees five windows, two
streaks of the firehose, and late timers. A line of the wire in two fragments may
be cut, joined to its neighbours or left off. Two mishaps of the lock are a crash
and the reuse of the crashed pid, or a crash during the recovery from a crash.
Bounds that stand for a constant of the code keep its role and not its size:
`MAX_LABEL_LENGTH`, `MAX_TIMER_DELAY_MS`, `MAX_TIMEOUT_MS`,
`MAX_PLAUSIBLE_ETIME_DAYS`, `START_FIELD` (19 in the code, 3 here: the name before
it may hold anything either way), `MAX_OUTSTANDING_FOLLOWS`,
`MAX_PENDING_EARLY_CANCELLATIONS` and the timeouts. The proofs remove the bounds
where they reach.

**Where a behaviour may stop.** `CHECK_DEADLOCK FALSE` is in every
configuration: a finite set of jobs, inputs or requests is used up, and then the
program is idle or over, which is no failure.

### Fairness

Only what the event loop, the timers of node and the operating system grant,
never a client, a command or a peer:

- `JobSlots`: a reap ends (its polling has a deadline) and a due retry timer
  fires. Nothing says the reap confirms. Under this alone `SlotSettles` holds:
  after the leader's exit a slot is freed, or ends as the disclosed residual.
- `TerminalMarkGate`: ready events are delivered, the check phase comes, the
  reap settles. No writer is assumed to close its pipe.
- `FollowSession`: a dispatched handler starts, a due timer fires and a settled
  call resumes, once the dispatch that holds the microtasks back is over.
- `TaskWatch`: time passes and a due window closes. No transport is assumed to
  answer.
- `WakeTransports`: an attempt's own next step, its timers, and the death of a
  child that was sent SIGKILL. Peers may be silent for ever.
- `DoorbellCutover`: timers fire, events on their way arrive, and a watcher's
  registration takes effect. A read of the trigger fails at most `MaxUnread`
  times. A mail whose read failed may never be seen: the harness then gives up
  (`WaitFails`), ten seconds being longer than any check still to come.
  `ExternalWake`: the loop and the controller go on; a
  checker that hangs is not assumed to end.
- `TestRun` and `ConcurrencySweep`: the runner's own steps and timers. A test may
  hang for ever. The wall-clock timer of the sweep is unref'd
  (`measure-concurrency-ceiling.mjs:230`): that it fires (`WallCap`) assumes that
  the stream which hangs keeps the event loop alive, as its child process does.

## 4. The proofs

A theorem holds for every value of the constants that satisfy the assumptions
named in its component's module: any finite set of jobs, calls, streams or ids,
any bounds. The assumptions say that bounds are natural numbers, that sets of
names do not overlap, that a client gives no two of its requests one id, that
the limits of a stream leave room for a line and for its marker (which
`jobStore.ts:623` sees to), that a default bound of a test run is positive,
that pids are positive, that a text the parsers are given has the shape of one,
and nothing about the code's behaviour; TLC evaluates each of them on a run. Every
specification proved about is one a run checks, alone or beside the parts that
share the run (section 3), and every inductive invariant was first checked by
TLC on the bounds of that run.

| module | theorems that state a property of a run |
|---|---|
| `JobSlotsProofs` | `SlotsAreExact` (`SlotAccounting`), `LiveGroupsAreCounted` (`LiveGroupsHoldSlots`), `ConfirmedAreGone` (`ConfirmedMeansGone`), `NoSlotIdlesWhileJobsWait` (`WorkConserving`), `TerminalStatesAreFinal` (`TerminalIsFinal`), `PositionsAreTrue` (`QueueSound`), `NothingStartsInShutdown` (`NoStartInShutdown`), `NoSignalAfterExit` (`NoLateSignal`), `SlotsAreASemaphore` (the refinement `ImplementsSemaphore`) |
| `JobProofs` | of the gate `MarkedAfterOutput` (`MarkedOnceAfterOutput`); of the watch `ToldInOrder` (`ToldAsItHappened`), `FirehoseStaysSustained` (`FirehoseIsSustained`); of the records `RecordsStayKept` (`RecordsAreKept`), `AnswersOutlive` (`AnswersOutliveRecords`); of the observers `ObserversStayRight` (`ObserversAreRight`) |
| `KillEscalationProofs` | `KillsAreTrue` (`KillsAreRecorded`), `NewcomersStaySpared` (`NewcomersAreSpared`), `GateStaysWithTheLeader` (`GateKnowsTheLeader`) |
| `StreamBufferProofs` | `LossesAreDisclosed` (`LossIsDisclosed`), `LinesStayWhole` (`LinesAreWhole`) |
| `OutputProofs` | `PagesStayInOrder` (`PagesInOrder`), `NoSilentGaps` (`GapsAreDisclosed`), `CallsStayHonest` (`CallsAreHonest`) |
| `ConnectionProofs` | `FollowsStaySound` (`FollowsAreSound`), `CancellationsReachTheirCalls` (`CancelledIsCancelled`), `WireStaysSound` (`WireIsSound`) |
| `WakeProofs` | `AnswersAreTrue` (`AnswersStandUp`), `NoChildIsLeft` (`ExitLeavesNoChild`), `HandoffStaysClean` (`HandoffIsClean`), `OutcomesStayTrue` (`OutcomesAreTrue`) |
| `RepositoryProofs` | `LockStaysSound` (`LockIsSound`), `VerdictsStayEarned` (`VerdictIsEarned`), `ProgramsVerdictsAreEarned` (`VerdictsAreEarned`) |

Besides them: the types of `JobSlots`, the gate, `FollowSession`,
`KillEscalation`, `StreamBuffer` and `OutputCursor`; `GrantsStayWithinCap`; `OneReapSignals`,
that two callers which reach the reap of one group together never both signal
it; and each inductive invariant as a theorem of its own.

### The inductive invariants, and why they are needed

**`JobSlotsProofs`.** None of the properties is inductive alone.
`SlotAccounting` breaks if a job in the queue already had a reservation,
`LiveGroupsHoldSlots` if `releaseSlot` may wait for a job that has none,
`WorkConserving` if a drain could stop early. `IInv` adds what the code relies
on without saying so:

- *store half* (`StoreInv`): queue entries are distinct; nothing was ever done
  to a job that waits (`WaitingUntouched`); a released slot was reserved, and
  a purged record keeps no reservation (`SlotsSound`); a live group has a
  tracked child or a purged record (`GroupsSound`).
- *calls half* (`CallInv`): no call, timer or exit belongs to a job that was not
  started, an armed retry has attempts left, and `releaseSlot` waits only for a
  job that took a slot (`CallsSound`).

The proof goes in two layers. Each action is first reduced to one of a few store
steps: records are rewritten (`RecordsKeep`), a slot is freed and the queue
drained (`FreeSlotKeeps`, over `DrainKeeps`), a slot is stranded, a job is
queued, started, removed or purged. Each of these keeps the store's half and
guarantees `StoreStep`: nobody becomes a waiting job again, no reservation
disappears, no terminal state changes, no grant above the cap. The calls' half of
every action follows from `StoreStep` alone, which is what keeps two dozen
actions from being proved twice. `DrainCount` is the arithmetic heart: a drain
that starts within the cap ends within it, throws included.

A second invariant is about the queue. `QInv` takes `IInv` and adds three facts: every
waiting job's `queuePosition` is its place (`PositionsSound`), from the shutdown
on the queue is empty (`NobodyWaitsInShutdown`), and of the callers about one job
at most one is in the phase that signals, and none enters it once the leader's
exit is delivered (`SignalsSound`).
The refinement maps the semaphore's holders to the jobs with a live reservation
and its queue to the store's. It is proved by classes of steps: a step that
leaves reservations and queue alone stutters; a start takes a slot; a cancelled
waiter leaves the middle of the queue; and a freed slot with the drain after it
is one `Serve`, whose batch is the prefix the drain took, throws included.

**`JobProofs`.** The gate's invariant is about one pass of the event loop:
an exit is delivered in the same pass as, or after, all that the command left in
the pipes (`ExitComesWithOutput`), because that was ready when the exit was.
Of `TaskWatch` the module takes the notifications and the open window after them
as one sequence of batches. Every step appends an empty batch, puts a line at the
end of the last, or drops the last for good, and each of the three keeps "every
line once and in order". `WindowInv` ties each pending line to a due time,
`StreakInv` the streak to the line it began with.
Of the records, `RecordsInv` says that a record's marks go with its state and
its times are in order (`RecordsOK`), and that what was reclaimed of a job in
trouble was reclaimed while its leader lived (`ReclaimOK`). That the sweep takes
the oldest needs an argument about its order: `byAge` with any tie-break is a
total order, so every job has a position, and the decision is the positions
below the overflow. Every action writes one record, marks it, leaves all alone,
or sweeps (`WriteKeeps`, `MarkKeeps`, `StillKeeps`, `SweepKeeps`); each of these
also proves the two action properties.
Of the observers, `ObsInv` judges a reply by the history of who was there
(`RepliesAreTrue`): the history only grows, so a reply that was true when it was
given is true when it is used, however late. `CallsAreBounded` says that every
bound still to come lies within the allowance, `BatchKnows` that a batch keeps
every row its calls brought. The texts need the calendar. `YearFound` and
`EveryDayIsOne` make the days of an era and the pairs of a year and a day of it
one and the same; with the months (`MonthFound`, `EveryDayHasAMonth`) and the leap
years (`DatesAreDays`) every day is one date and every date one day
(`EveryDayHasADate`, `DateReadBack`), so the round trip of `parsePidLstartRow`
takes a row exactly if it is a date with its own weekday (`RowsAreUnderstood`).
Two shapes of rows needed an argument of their own: a year below 100, which
`Date.UTC` reads as one of 1900 and which is therefore never read back
(`LaterYears`), and days and hours out of range, which it carries over.
`StatsAreUnderstood` counts the fields behind the last closing parenthesis,
whatever the name before it holds, `ElapsedIsUnderstood` puts the parts of an
elapsed time together again.

**`KillEscalationProofs`.** Whether a call may signal depends on what it saw of a
pid some steps ago. `GroupInv` says when a pid or a group id can belong to a
stranger at all: only after the leader was collected and the group was empty.
`CallInv` says what each call knows when a stranger came early (before its
snapshot) or between its snapshot and its gate. `ClockInv` bounds the capture by
its aggregate deadline, `RecordInv` relates the recorded signal to the signals
that were sent. The properties name the two gaps in which the escalation can
miss a stranger; the proof shows that there are no others.

**`StreamBufferProofs`.** What a stream holds is computed: a chunk is split into
lines, and the oldest lines go until the budget is kept. `StreamInv` has conjuncts
for both halves. Of the bytes, `ChunkingIrrelevant` says that lines and
partial line are what the text so far gives however it was cut, and that is an
induction over the text: the recursive functions are shown to have the values
their equations name (`RecursionExists`), and one byte more gives what one step
of the reader gives (`ByteTaken`). `PartialPends`, `Empties` and `PendingIsTail`
say that the partial line is the end of what came, `CutsAreClean` that a forced
cut stands between two characters. Of the retention, `BudgetIsKept` and
`LossIsDisclosed` follow from what the two evictions leave, the longest end of the
lines that fits (`NewestIs`, `FitToBudgetIs`), and count. Induction here is a consequence of the well-foundedness of
`<` (`NatLessThanWellFounded`): a set of naturals has a least member
(`LeastExists`), so a set that holds 0 and with each number the next holds all
(`Induction`).

**`OutputProofs`.** `StreamInv`: what was dropped of a stream is its lost
lines and fragments, and everything up to the head has a number. `ReaderInv`: no
cursor is ahead of its streams, every retained line behind a cursor was shown,
and what a reader missed is within what it was told. Lines are ranked by the
size of sets (`FiniteSetTheorems`), which takes the place of an induction over
the page: a sequence in order that covers a set of lines is its order
(`AscendingIsUnique`), so what is left of a page is the page of what is left
(`AscendingGoesOn`). A step either grows the streams (`Grows`) or shows a page
(`ShowsKeeps`). `CallsStayHonest` needs of `StreamInv` that what a stream lost is
older than all it retains; a behaviour of single calls is one of the paged
streams (`CallsReadTheStreams`), so the same invariant holds of it.

**`ConnectionProofs`.** Of the follow calls, `NoLostWakeup` is the centre: a call
that sleeps has
seen everything up to the version it sleeps on, or its wakeup is on the way.
`BudgetInv` counts the calls that hold a place, `RequestsInv` says which
cancellations are remembered for whom, `HeadsHaveMax` that the head of a set of
streams exists.
Of the wire, `ReadInv` says that pipe and buffer are the client's text from where
the reading stands, whatever the chunks; `CutsAreLines` then says what a chunk
completes, and `ClassifiedLines` that its messages and its wrong lines are taken
from it each once, in order. `QueueInv`, `PendingInv` and `SentInv` follow a
request by its number: what waits has a larger number than what was taken, so a
request that is pending or answered cannot come again. That the SDK never sees an
intercepted method needs the era to be settled while anything is pending
(`PendingInv`), that a late first message cannot open the gate of a shutdown needs
a job to imply an era (`JobsInv`). `CoverInv` says that no request is lost, and
`CountInv` counts the replies by a bijection with the lines they answer. Assumed of
a client: no two of its requests have the same id, none has a null id.

**`WakeProofs`.** Three components, three invariants. `TransportsInv` says of
every attempt what it has walked past and reported (`AttemptInv`), what its
app-server (`ChildInv`) and its desktop connection (`IpcInv`) may be doing, and
is proved by families of steps (messaging, app-server, desktop, session ends),
each of which touches one attempt (`OthersKeep`). `DoorbellInv` says who owns
the trigger at each step of the cutover and what each cycle consumed.
`ExternalInv` keeps the loop, the controller and the result in agreement.

**`RepositoryProofs`.** *The lock and the floor check.* Wrappers come one after the other, so each step is the
one active wrapper's, its command's or the system's (`Alone`, `MovedKeeps`).
`LockInv` says what a wrapper carries at each step: from its start until it
writes, the record it read is the one on disk; before its own spawn its command
is unborn; no record names an owner that failed; and at a spawn the floor job
the lock names is not alive. `RunInv` ties the files to the last test run: a
completion marker with that run's token is of its commit, and says that it ran to
its end (`MarkerOfLatest`); a record that lets a floor check start is of that run,
which is over (`OfLatest`); and what a floor check has read is still so
(`StillSo`). The last two hold only while no two commands have overlapped, which
is the condition `VerdictIsEarned` names; that an overlap needs a killed wrapper
and a floor job the lock does not name is `LockStaysSound`.

*The pins.* `PinInv` adds types and that what nobody edited is as the repository
has it. What counts is the acceptance: `AcceptedIsPinned` derives, from the guard's own
comparisons, that the production install is the required version of the two
packages and no other, and that the compiler lies within the range of every
package that asks for one. *The test run.* The exit code is computed from what
was collected, so its half of the property follows step by step; the idle
watchdog needs `ClockInv`: the last event is no earlier than the start of any
file that runs, and time does not pass a file's own timeout while it runs, so if
the idle bound is longer than a test's, only a file that hangs can let it
expire. *The sweep.* `WitnessInv` says that what the results of a candidate tell
is what went wrong in its runs, and that a failure nobody caused has a crowd for
its reason; `RowsInv` counts the repeats. The recommendation is then a maximum
over a finite set, which exists by induction (`FiniteHasMax`).

### What is only model-checked

Out of the prover's reach, or not true without more than the code justifies:

- Liveness under fairness: `SlotSettles`, `EndsAndLinesGoOut`,
  `RequestsAreAnswered`, `EachWakeEnds`, `ProgramsComeToAnEnd`.
- `GreenMeansGreen`: the parser of the gate's expression is a recursive operator
  over trees and token sequences, and the prover takes no module with one.
- `RunsAreJudged` depends on what a disk may hold. The case probe
  (`policy.ts:165`) compares the files two spellings lead to; where a link leads
  from the one to the file of the other it cannot tell that from case folding. A
  theorem would have to assume that no disk has such a link, which nothing in the
  code justifies; so the property is checked on the disks, policies and paths of
  `jobs`, which have none, and stated of no others.

## 5. The plan

The modules of the plan are written: slots, records, kills, identity, run(),
buffers, readers, gate, follow, watch, server, wakes, and the repository's
programs. Every safety property of a passing run but the two named at the end
of section 4 is a theorem, and so is the refinement.

**Not modelled, and why.**

- The Windows process tree, `taskkill` and PowerShell, `spawn` itself, and the
  formatting of tool results: input and output with no state of their own.
- `registry.ts`, `ts-ast.mjs`, `check-no-tasks-import.mjs`,
  `check-module-boundaries.mjs`, the stdio-purity and npm-ci-usage lints: pure
  functions of the files they read. The reproducibility of an install and the
  capture of golden files are comparisons of two outputs.
- Of processes: descendants whose own pid is recycled, the `/proc` degrade hatch
  that only tests open, a clock that is set back.
- Of `run()`: empty entries of `PATH`, links that alias a flipped spelling, an
  empty `cwd`.
- Of the server: the `discover` probe's fallback, the meta stamp of intercepted
  results, the branch that answers an internal error.
- Of the wakes: `throws` of a transport's own code, the payload of a turn, a
  foreign writer that tears the trigger file, the doorbell's dedupe
  ages, a second `reapAll` beside the first.
- Of the repository's programs: the YAML reader, `include` of a matrix, timers
  that fire late, the reporters' text.

## 6. Where the code and its comments part

Two runs refute a comment:

- **A purge can strand a slot** (`purge_claim`). `isExpiredTerminalRecord` keeps
  a stranded record from the TTL purge, and `deleteJob`'s comment
  (`src/src/jobStore.ts:3761`) concludes that the purge can never strand a slot.
  A record turns terminal with the signal, though, before its reap has
  decided anything: purged in between, its reservation is gone when
  `releaseSlot` resumes, and `activeSlots` stays one too high. In practice the
  reap would have to outlast the TTL. `SlotAccounting` is stated with
  `lostSlots` for this reason, and is exact.
- **A fire may be reported as a failed detection** (`external_exit`). The
  controller settles on the poll loop's `exit` event when it has seen no line
  (`src/scripts/dogfood-external-wake.mjs:532`); node may emit `exit` before the
  last data of stdout. The comment at line 409 says that a failure is never
  indistinguishable from a genuine fire.

Seven more claims are stated as definitions that no run lists, because the model
violates them; each can be added to a configuration to see the counterexample:

| definition | claim |
|---|---|
| `JobSlots!RetryReconsults` | `retryStrandedSlot` (`jobStore.ts:2469`): an unconfirmed attempt leaves `hasReapBeenAttempted` false. `kill()` with SIGKILL sets it before it signals (`tools/kill.ts:503`), so every later retry takes the short-circuit |
| `TaskWatch!BurstsDoNotAccumulate` | `checkFirehose` (`tasksAdapter.ts:1179`): separate bursts never accumulate elapsed time. The average is looked at only when a line arrives, so a large burst carries the streak over a silence |
| `KillEscalation!RefusalMeansNoEscalation` | `escalation_refused_reason` (`jobStore.ts:370`) is there when SIGKILL was not sent; an overlapping call may have sent it |
| `WakeTransports!OneWakePerAttempt` | a later transport is only tried once an earlier one has conclusively failed to deliver (`wake/selectTransport.ts:173`); a turn whose answer is late is delivered all the same, and the next transport wakes again |
| `DoorbellCutover!OnlyTheArmedReport` | after the fallback it is the monitor that must deliver (the harness); a follow-up check of ghantika's detector that was scheduled before still reports |
| `CoverageGate!VerdictNeedsNoToken` | the closure does not depend on the token's write succeeding (`run-tests.mjs:1585`, `check-coverage-floor.mjs:346`); when clearing the markers and the write both fail, the token of an earlier run of this commit is still there and matches its completion record |
| `RunRequest!SchemaNeverOverRejects` | `minLength` is kept out of the shared branch so that the schema refuses nothing the handler takes (`tools/run.ts:236`); an argv whose later item is empty is taken by the handler and refused by the schema |

Seen while modelling, without a definition:

- `server.ts`: a cancellation that comes when its map is full is dropped, and for
  the ids 0 and `""` nothing else remembers it; entries of requests that never
  come stay (429-441). A second identical SIGTERM during the reap kills the
  process (1782), although the comment speaks of the first only. The shutdown does
  not wait for an exit reap already on its way.
- `jobStore.ts`: the comment on `last_wake_attempt` (404) says it is written
  once, on a terminal record; `startTransportWakeOnOutput` also dispatches
  attempts while the job is live, and they may settle out of order. Between a
  kill's mark and the release of its slot the sweep may reclaim output
  (`unguarded` in `JobRecords`).
- `process.ts`: a custom SIGKILL sent during another call's grace period leaves
  SIGTERM as the recorded signal; a recorded member that left by `setsid` is
  refused at the escalation gate.
- `wake/`: an error in one IPC frame discards the good frames of its chunk;
  `child.stdin` has no error listener.
- Doorbell: a mail that arrives during the cutover may be reported by either
  detector; a read error schedules no follow-up, so that ghantika's detector
  misses a mail whose only event met it (`EachWakeEnds` allows that for a
  mail whose read failed, and for no other); a failed write of a probe leaves
  its waiter pending.
- Coverage gate: `workerPid` is never consulted; a floor wrapper killed before its
  first write leaves the lock as it was; a run killed before its token is written
  is told from a missing run only by the markers.
- Sweep: the note on an inconclusive value is not given when a lower value failed
  (`measure-concurrency-ceiling.mjs:320`); `--repeats 0` is vacuously clean; the
  hosted script does not stop a stream that timed out and ignores crashes without
  a name.
- Workflow guard: a parenthesis inside a string makes the depth negative, and the
  `||` after it is not split (`MCRepository!WithStrings` in place of
  `MCExpressions` shows it).
- External wake: `stop()` during a wake yields "stopped" though the session was
  woken; during a running reap it returns early; a checker that ignores SIGTERM
  outlives the outcome.
- Test runner: `describe.skip` is invisible to the check of unsanctioned skips;
  unknown flags are ignored; once the last event has come no timer guards the
  junit reporter.
- Pins: copies of `@modelcontextprotocol/*` nested in other packages are not
  looked at; a prerelease compares as its release.

## 7. Running it

    tlc -workers 2 -config JobSlots_OneJob.cfg MCJobSlots.tla
    tlapm JobSlotsProofs.tla

Each entry of `runs` in `PROJECT.json` names its module and configuration. The
longest run takes about three minutes.
