------------------------------ MODULE TestRun -------------------------------
(***************************************************************************)
(* One run of run-tests.mjs: what it reads from its command line and finds  *)
(* on disk, the two batches of node:test, the idle, wall and leak timers,   *)
(* and the verdict.  Time counts in units; a timer that is due fires before *)
(* time goes on.  The files a test run is judged by afterwards (markers,    *)
(* token, lock) are CoverageGate's.                                         *)
(***************************************************************************)
EXTENDS Integers, Sequences, FiniteSets, SequencesExt

CONSTANTS
  TestFiles,             \* bound: the test files there may be; each holds one test
  SERIAL_ONLY_TEST_FILES,
  CriticalTests, Sanctioned,  \* critical-tests.json and the skip baseline of this platform
  Defaults,              \* the timeouts and the concurrency without a flag
  CommandLines,          \* bound: the arguments a run is given
  Repositories,          \* bound: what git lists, or nothing when it cannot be asked
  Unreadable,            \* bound: the files in directories that cannot be read
  MaxTime                \* bound: beyond every timer

VARIABLES
  runStage,              \* "starting", "running", "complete", "exited"
  exitCode, exitedBy,
  options,
  tracked,               \* what git lists, or that it could not be asked
  discovered,
  batches, currentBatch,
  now, lastEvent, leakAt,
  timersArmed,           \* the idle and the wall timer
  fileState, startedAt,  \* when a running file started
  filesWithAnyEvent, filesWithOwnCompletion,
  skipResults, didFail,
  named,                 \* the files the idle diagnostic names
  leaked                 \* something keeps the process alive

settingVars == <<options, tracked, discovered, batches>>
eventVars   == <<filesWithAnyEvent, filesWithOwnCompletion, skipResults, didFail, lastEvent>>
fileVars    == <<fileState, startedAt>>
verdictVars == <<exitCode, exitedBy, named, leaked, leakAt>>
testRunVars ==
  <<runStage, settingVars, currentBatch, now, timersArmed, fileVars, eventVars, verdictVars>>

Unasked == [listed |-> FALSE, files |-> {}]

-----------------------------------------------------------------------------
(* The command line: the last of two equal flags counts, and what is not a  *)
(* flag with a value is passed over.                                        *)

CLI_FLAGS == {"testTimeout", "idleTimeout", "wallTimeout", "leakWindow", "concurrency"}

Refused(argv) == \E i \in DOMAIN argv : argv[i].flag \in CLI_FLAGS /\ argv[i].value <= 0

parseArgs(argv) ==
  [key \in CLI_FLAGS |->
     LET last == SelectLastInSeq(argv, LAMBDA arg : arg.flag = key)
     IN  IF last = 0 THEN Defaults[key] ELSE argv[last].value]

(* A critical test is one there may be; without a flag there is a bound.    *)
ASSUME RunnerAssumption ==
  /\ CriticalTests \subseteq TestFiles
  /\ Defaults \in [CLI_FLAGS -> Nat \ {0}]
  /\ CommandLines \subseteq Seq([flag : STRING, value : Int])

(* The test files under test/; a directory that cannot be read is passed    *)
(* over, and its files with it.                                             *)
walk(unreadable) == TestFiles \ unreadable

getTrackedTestFiles(repository) == IF repository = {} THEN Unasked ELSE [listed |-> TRUE, files |-> repository]

checkTrackedFileParity == tracked'.listed => tracked'.files \subseteq discovered'

(* One after the other, and no batch of nothing.                            *)
BatchOf(files) == IF files = {} THEN <<>> ELSE <<files>>

partitionTestFilesForBatches ==
  BatchOf(discovered' \cap SERIAL_ONLY_TEST_FILES) \o BatchOf(discovered' \ SERIAL_ONLY_TEST_FILES)

TestRunInit ==
  /\ runStage = "starting" /\ exitCode = "none" /\ exitedBy = "none"
  /\ options = Defaults /\ tracked = Unasked /\ discovered = {} /\ batches = <<>> /\ currentBatch = 1
  /\ now = 0 /\ lastEvent = 0 /\ leakAt = 0 /\ timersArmed = FALSE
  /\ fileState = [f \in TestFiles |-> "waiting"] /\ startedAt = [f \in TestFiles |-> 0]
  /\ filesWithAnyEvent = {} /\ filesWithOwnCompletion = {} /\ skipResults = {} /\ didFail = FALSE
  /\ named = {} /\ leaked \in BOOLEAN

ExitsBy(reason, code) == runStage' = "exited" /\ exitedBy' = reason /\ exitCode' = code

Starts ==
  /\ runStage = "starting"
  /\ \E argv \in CommandLines, unreadable \in Unreadable, repository \in Repositories, unparseable \in BOOLEAN :
       /\ options' = IF Refused(argv) THEN Defaults ELSE parseArgs(argv)
       /\ discovered' = walk(unreadable) /\ tracked' = getTrackedTestFiles(repository)
       /\ batches' = partitionTestFilesForBatches
       /\ IF Refused(argv) \/ discovered' = {} \/ ~checkTrackedFileParity \/ unparseable
          THEN ExitsBy("start", "1") /\ UNCHANGED timersArmed
          ELSE runStage' = "running" /\ timersArmed' = TRUE /\ UNCHANGED <<exitCode, exitedBy>>
  /\ UNCHANGED <<currentBatch, now, fileVars, eventVars, named, leaked, leakAt>>

-----------------------------------------------------------------------------
(* The files of a batch, and the events they cause.                         *)

noteEvent(f) ==
  /\ filesWithAnyEvent' = filesWithAnyEvent \cup {f}
  /\ lastEvent' = now

InBatch(f, state) == runStage = "running" /\ f \in batches[currentBatch] /\ fileState[f] = state

UnderWay == {f \in discovered : fileState[f] \in {"running", "hung"}}

(* Only the batch of the others has more than one file at a time.           *)
Concurrency ==
  IF batches[currentBatch] \subseteq SERIAL_ONLY_TEST_FILES THEN 1 ELSE options.concurrency

FileStarts(f) ==
  /\ InBatch(f, "waiting") /\ Cardinality(UnderWay) < Concurrency
  /\ fileState' = [fileState EXCEPT ![f] = "running"] /\ startedAt' = [startedAt EXCEPT ![f] = now]
  /\ noteEvent(f)
  /\ UNCHANGED <<filesWithOwnCompletion, skipResults, didFail>>
  /\ UNCHANGED <<runStage, settingVars, currentBatch, now, timersArmed, verdictVars>>

(* What classifyTestCompletionForSkipDiscipline keeps of a file's events: a *)
(* suite, and the file itself, are no tests.                                *)
Completions(f, occurrences) == {[identity |-> f, kind |-> kind] : kind \in occurrences \ {"suite"}}

Done(f) ==
  /\ fileState' = [fileState EXCEPT ![f] = "done"] /\ startedAt' = [startedAt EXCEPT ![f] = 0]
  /\ noteEvent(f) /\ filesWithOwnCompletion' = filesWithOwnCompletion \cup {f}
  /\ UNCHANGED <<runStage, settingVars, currentBatch, now, timersArmed, verdictVars>>

(* A file ends: its test may have been declared more than once.             *)
FileCompletes(f) ==
  /\ InBatch(f, "running") /\ Done(f)
  /\ \/ \E occurrences \in {{"suite"}, {"ran"}, {"skip"}, {"ran", "skip"}, {"todo"}} :
          skipResults' = skipResults \cup Completions(f, occurrences) /\ UNCHANGED didFail
     \/ didFail' = TRUE /\ skipResults' = skipResults \cup Completions(f, {"ran"})

(* node:test fails the test that takes longer than its timeout.             *)
TestTimesOut(f) ==
  /\ InBatch(f, "running") /\ now - startedAt[f] >= options.testTimeout
  /\ Done(f) /\ didFail' = TRUE /\ UNCHANGED skipResults

(* A file hangs outside of its tests, perhaps after a test that was called  *)
(* like the file itself.                                                    *)
FileHangs(f) ==
  /\ InBatch(f, "running") /\ fileState' = [fileState EXCEPT ![f] = "hung"]
  /\ \/ UNCHANGED <<filesWithAnyEvent, filesWithOwnCompletion, lastEvent>>
     \/ noteEvent(f) /\ filesWithOwnCompletion' = filesWithOwnCompletion \cup {f}
  /\ UNCHANGED <<runStage, settingVars, currentBatch, now, timersArmed, startedAt, skipResults, didFail, verdictVars>>

(* node:test says nothing at all of a file.                                 *)
FilePassedOver(f) ==
  /\ InBatch(f, "waiting") /\ fileState' = [fileState EXCEPT ![f] = "done"]
  /\ UNCHANGED <<runStage, settingVars, currentBatch, now, timersArmed, startedAt, eventVars, verdictVars>>

-----------------------------------------------------------------------------
(* The ends.                                                                *)

IsSkipped(occurrences) == "skip" \in occurrences

(* Fault: a skip is forgotten when the same name completed again.           *)
SkipDisciplineOfTheRest(seen) ==
  /\ \A f \in TestFiles \ Sanctioned : seen[f] # {"skip"}
  /\ \A f \in CriticalTests : seen[f] # {} /\ "ran" \in seen[f]

checkSkipDiscipline(seen) ==
  /\ \A f \in TestFiles \ Sanctioned : ~IsSkipped(seen[f])
  /\ \A f \in CriticalTests :
       seen[f] # {} /\ ~IsSkipped(seen[f]) /\ "todo" \notin seen[f]

Seen == [f \in TestFiles |-> {r.kind : r \in {q \in skipResults : q.identity = f}}]

(* Fault: the timers are cleared with any batch.                            *)
ArmedAfterNone(isLastBatch) == FALSE

ArmedAfter(isLastBatch) == ~isLastBatch

missingFloor == tracked.files \ filesWithAnyEvent

(* The stream of a batch ends, and its reporters have written everything.   *)
BatchEnds ==
  LET isLastBatch == currentBatch = Len(batches) IN
  /\ runStage = "running" /\ \A f \in batches[currentBatch] : fileState[f] = "done"
  /\ timersArmed' = ArmedAfter(isLastBatch)
  /\ IF isLastBatch
     THEN /\ runStage' = "complete" /\ leakAt' = now + options.leakWindow
          /\ exitCode' = IF ~didFail /\ missingFloor = {} /\ checkSkipDiscipline(Seen) THEN "0" ELSE "1"
          /\ UNCHANGED currentBatch
     ELSE currentBatch' = currentBatch + 1 /\ UNCHANGED <<runStage, leakAt, exitCode>>
  /\ UNCHANGED <<settingVars, now, fileVars, eventVars, exitedBy, named, leaked>>

IdleDue == timersArmed /\ now >= lastEvent + options.idleTimeout
WallDue == timersArmed /\ now >= options.wallTimeout
LeakDue == runStage = "complete" /\ leaked /\ now >= leakAt

onIdleTimeout ==
  /\ runStage = "running" /\ IdleDue /\ ExitsBy("idle", "1")
  /\ named' = discovered \ filesWithOwnCompletion
  /\ UNCHANGED <<settingVars, currentBatch, now, timersArmed, fileVars, eventVars, leaked, leakAt>>

onWallTimeout ==
  /\ runStage = "running" /\ WallDue /\ ExitsBy("wall", "1")
  /\ UNCHANGED <<settingVars, currentBatch, now, timersArmed, fileVars, eventVars, named, leaked, leakAt>>

onPostCompletionLeak ==
  /\ LeakDue /\ ExitsBy("leak", "1")
  /\ UNCHANGED <<settingVars, currentBatch, now, timersArmed, fileVars, eventVars, named, leaked, leakAt>>

(* Nothing holds the event loop, and the leak timer is unref'd.             *)
Drains ==
  /\ runStage = "complete" /\ ~leaked /\ ExitsBy("drain", exitCode)
  /\ UNCHANGED <<settingVars, currentBatch, now, timersArmed, fileVars, eventVars, named, leaked, leakAt>>

LeakCloses ==
  /\ runStage = "complete" /\ leaked /\ leaked' = FALSE
  /\ UNCHANGED <<runStage, settingVars, currentBatch, now, timersArmed, fileVars, eventVars, exitCode, exitedBy,
                 named, leakAt>>

Due == IdleDue \/ WallDue \/ LeakDue

(* node:test starts what it can, ends a batch that is done, and fails a     *)
(* test that is over its time, at once; a loop that nothing holds ends.     *)
TestsWait ==
  /\ runStage = "complete" => leaked
  /\ runStage = "running" =>
       /\ \E f \in batches[currentBatch] : fileState[f] # "done"
       /\ \A f \in TestFiles : ~InBatch(f, "waiting") \/ Cardinality(UnderWay) >= Concurrency
       /\ \A f \in TestFiles : InBatch(f, "running") => now - startedAt[f] < options.testTimeout

Tick ==
  /\ runStage \in {"running", "complete"} /\ ~Due /\ TestsWait
  /\ now < MaxTime /\ now' = now + 1
  /\ UNCHANGED <<runStage, settingVars, currentBatch, timersArmed, fileVars, eventVars, verdictVars>>

TestsGoOn ==
  \E f \in TestFiles :
    FileStarts(f) \/ FileCompletes(f) \/ TestTimesOut(f) \/ FileHangs(f) \/ FilePassedOver(f)

TestRunNext ==
  \/ Starts \/ TestsGoOn \/ BatchEnds
  \/ onIdleTimeout \/ onWallTimeout \/ onPostCompletionLeak \/ Drains \/ LeakCloses \/ Tick

RunnerFairness ==
  /\ WF_testRunVars(Starts) /\ WF_testRunVars(BatchEnds) /\ WF_testRunVars(Tick) /\ WF_testRunVars(Drains)
  /\ WF_testRunVars(onIdleTimeout) /\ WF_testRunVars(onWallTimeout) /\ WF_testRunVars(onPostCompletionLeak)
  /\ WF_testRunVars(\E f \in TestFiles : FileStarts(f) \/ TestTimesOut(f))

TestRunSpec == TestRunInit /\ [][TestRunNext]_testRunVars /\ RunnerFairness

-----------------------------------------------------------------------------

(* A green exit was earned: every file git lists was run, no test failed,   *)
(* none was skipped without leave even once, every critical test really     *)
(* ran, and nothing was left running.  And the idle watchdog, unless its    *)
(* bound is set below a test's own, stops no run that would have gone on:   *)
(* it fires on a file that hangs, and names it unless a test has its name.  *)
TestVerdictsAreTrue ==
  /\ exitCode = "0" =>
       /\ ~didFail /\ discovered # {} /\ tracked.files \subseteq filesWithAnyEvent
       /\ \A r \in skipResults : r.kind = "skip" => r.identity \in Sanctioned
       /\ \A f \in CriticalTests : [identity |-> f, kind |-> "ran"] \in skipResults
  /\ exitedBy = "drain" => ~leaked
  /\ exitedBy = "idle" =>
       LET hung == {f \in discovered : fileState[f] = "hung"}
       IN  /\ options.idleTimeout > options.testTimeout => hung # {}
           /\ hung \ filesWithOwnCompletion \subseteq named

(* Whatever hangs, in whichever batch, the run comes to an explicit end.    *)
RunComesToAnEnd == <>(runStage = "exited" /\ exitCode # "none")

=============================================================================
