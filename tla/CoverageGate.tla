---------------------------- MODULE CoverageGate ----------------------------
(***************************************************************************)
(* The two commands the coverage lock guards, composed with the lock:       *)
(* run-tests.mjs under c8 (the worker's command), which records on disk     *)
(* whether it ran to its end, and check-coverage-floor.mjs (the floor's     *)
(* command), which must tell from those files whether coverage-summary.json *)
(* is this checkout's and whole.                                            *)
(***************************************************************************)
EXTENDS CoverageFloorLock

CONSTANT Batches    \* the serial-only batch, then the concurrent one

ASSUME BatchesAssumption == Batches \in Nat \ {0}

VARIABLES
  run,          \* where each command is; a run's batch, its head, a check's token
  truncated,    \* which of the two truncation markers exist
  completion,   \* run-completed.json
  runToken,     \* .run-token.json: the run that wrote it
  summary,      \* coverage-summary.json: the run it describes, all of it or not
  latest,       \* history: the last test run whose command started
  overlapped    \* history: some command started while another one ran

runVars == <<run, truncated, completion, runToken, summary, latest>>
vars    == <<lockVars, runVars, overlapped>>

Markers   == {"primary", "fallback"}
NoRun     == [at |-> "none", batch |-> 0, ended |-> FALSE, flushed |-> FALSE,
              headSha |-> NoOne, token |-> NoOne, whole |-> FALSE]
NoMarker  == [headSha |-> NoOne, runToken |-> NoOne]
NoSummary == [run |-> NoOne, whole |-> FALSE]

Init ==
  /\ LockInit
  /\ run = [w \in Wrappers |-> NoRun]
  /\ truncated = {}
  /\ completion = NoMarker /\ runToken = NoOne /\ summary = NoSummary
  /\ latest = NoOne /\ overlapped = FALSE

Running(w, at) == command[w] = "alive" /\ run[w].at = at
Moves(w, at)   == run' = [run EXCEPT ![w].at = at]
Keep           == UNCHANGED <<pc, seen, lock, wrapper, command, head, overlapped>>

-----------------------------------------------------------------------------
(* run-tests.mjs                                                            *)

(* Each unlink is best effort: a marker that stays reads as a truncation.   *)
ClearsMarkers == \/ Fine /\ truncated' = {}
                 \/ Mishap /\ truncated' \in (SUBSET truncated) \ {{}}

(* main: the token's write is tried once.  A missing tracked file or an     *)
(* unreadable baseline ends the run here, with no marker of its own.        *)
WritesToken(w) == \/ Fine /\ runToken' = w
                  \/ Mishap /\ UNCHANGED runToken

BeginRun(w) ==
  /\ w \in Workers /\ Running(w, "begin")
  /\ \/ ClearsMarkers /\ runToken' = w
     \/ WritesToken(w) /\ truncated' = {}
  /\ \/ Moves(w, "report")
     \/ run' = [run EXCEPT ![w].at = "tests", ![w].batch = 1, ![w].headSha = head]
  /\ Keep /\ UNCHANGED <<completion, summary, latest>>

BatchOver(r) == r.ended /\ r.flushed

(* tryAdvanceOrFinishBatch: the next batch, or the end of the run.          *)
AfterBatch(r) ==
  IF ~BatchOver(r) THEN r
  ELSE IF r.batch = Batches THEN [r EXCEPT !.at = "complete"]
  ELSE [r EXCEPT !.batch = @ + 1, !.ended = FALSE, !.flushed = FALSE]

(* 'end' of the runner's stream and 'finish' of the junit sink.             *)
StreamEnds(w) ==
  /\ Running(w, "tests") /\ ~run[w].ended
  /\ run' = [run EXCEPT ![w] = AfterBatch([run[w] EXCEPT !.ended = TRUE])]
  /\ Fine /\ Keep /\ UNCHANGED <<truncated, completion, runToken, summary, latest>>

JunitFinishes(w) ==
  /\ Running(w, "tests") /\ ~run[w].flushed
  /\ run' = [run EXCEPT ![w] = AfterBatch([run[w] EXCEPT !.flushed = TRUE])]
  /\ Fine /\ Keep /\ UNCHANGED <<truncated, completion, runToken, summary, latest>>

(* onNormalCompletion, whether the tests passed or not; the leak watchdog   *)
(* that may end the process afterwards writes no marker.                    *)
Complete(w) ==
  /\ Running(w, "complete")
  /\ \/ Fine /\ completion' = [headSha |-> run[w].headSha, runToken |-> w]
     \/ Mishap /\ UNCHANGED completion
  /\ run' = [run EXCEPT ![w].at = "report", ![w].whole = TRUE]
  /\ Keep /\ UNCHANGED <<truncated, runToken, summary, latest>>

(* The timers of a run are cleared once its last batch's stream has ended.  *)
TimersArmed(r) == ~(r.ended /\ r.batch = Batches)

(* onIdleTimeout and onWallTimeout: the primary marker, else the fallback,  *)
(* else nothing; then a hard exit.                                          *)
TimesOut(w) ==
  /\ Running(w, "tests") /\ TimersArmed(run[w])
  /\ \/ Fine /\ truncated' = truncated \cup {"primary"}
     \/ Mishap /\ truncated' = truncated \cup {"fallback"}
     \/ /\ mishaps + 2 <= MaxMishaps /\ mishaps' = mishaps + 2
        /\ UNCHANGED truncated
  /\ Moves(w, "report")
  /\ Keep /\ UNCHANGED <<completion, runToken, summary, latest>>

(* Under c8 the test process alone may be killed.                           *)
TestsKilled(w) ==
  /\ w \in Workers /\ command[w] = "alive" /\ run[w].at \in {"begin", "tests", "complete"}
  /\ Mishap /\ Moves(w, "report")
  /\ Keep /\ UNCHANGED <<truncated, completion, runToken, summary, latest>>

(* c8 writes its summary of whatever ran, and exits.                        *)
Report(w) ==
  /\ w \in Workers /\ Running(w, "report")
  /\ summary' = [run |-> w, whole |-> run[w].whole]
  /\ Moves(w, "exiting") /\ Fine
  /\ Keep /\ UNCHANGED <<truncated, completion, runToken, latest>>

-----------------------------------------------------------------------------
(* check-coverage-floor.mjs: one file after the other.                      *)

(* "void", "unreadable", or "judged": passed or failed by the floors.       *)
Checking == Fine /\ Keep /\ UNCHANGED <<truncated, completion, runToken, summary, latest>>

ReadsTruncation == truncated # {}

CheckTruncation(f) ==
  /\ f \in Floors /\ Running(f, "begin")
  /\ \/ ReadsTruncation /\ Moves(f, "void")
     \/ ~ReadsTruncation /\ Moves(f, "completion")
  /\ Checking

CompletedHere == completion # NoMarker /\ completion.headSha = head

CheckCompletion(f) ==
  /\ Running(f, "completion")
  /\ \/ ~CompletedHere /\ Moves(f, "void")
     \/ /\ CompletedHere
        /\ run' = [run EXCEPT ![f].at = "token", ![f].token = completion.runToken]
  /\ Checking

(* Fault: the head alone ties a completion marker to the run.               *)
TokenIgnored(f) == TRUE

TokenMatches(f) == runToken # NoOne /\ runToken = run[f].token

CheckToken(f) ==
  /\ Running(f, "token")
  /\ \/ ~TokenMatches(f) /\ Moves(f, "void")
     \/ TokenMatches(f) /\ Moves(f, "summary")
  /\ Checking

CheckFloors(f) ==
  /\ Running(f, "summary")
  /\ Moves(f, IF summary = NoSummary THEN "unreadable" ELSE "judged")
  /\ Checking

-----------------------------------------------------------------------------
(* The lock and its commands together.                                      *)

StartCommand(w) ==
  /\ SpawnCommand(w)
  /\ Moves(w, "begin")
  /\ overlapped' = (overlapped \/ \E v \in Wrappers : command[v] = "alive")
  /\ latest' = IF w \in Workers THEN w ELSE latest
  /\ UNCHANGED <<truncated, completion, runToken, summary>>

EndCommand(w) ==
  /\ run[w].at \in {"exiting", "void", "unreadable", "judged"} /\ CommandExits(w)
  /\ run' = [run EXCEPT ![w] = [NoRun EXCEPT !.headSha = run[w].headSha]]
  /\ UNCHANGED <<truncated, completion, runToken, summary, latest, overlapped>>

LockStep(w) ==
  /\ \/ WorkerStarts(w) \/ CheckOwner(w) \/ CheckFloor(w) \/ WriteWorking(w)
     \/ SpawnFails(w) \/ WritePid(w) \/ WritePublishing(w)
     \/ FloorStarts(w) \/ WriteFloorPid(w) \/ WriteFloorIdentity(w) \/ WriteDone(w)
     \/ HeedsSigterm(w) \/ Abandon(w) \/ Release(w) \/ WrapperExits(w) \/ WrapperKilled(w)
  /\ UNCHANGED <<runVars, overlapped>>

CommandStep(w) ==
  \/ BeginRun(w) \/ StreamEnds(w) \/ JunitFinishes(w) \/ Complete(w) \/ TimesOut(w)
  \/ TestsKilled(w) \/ Report(w)
  \/ CheckTruncation(w) \/ CheckCompletion(w) \/ CheckToken(w) \/ CheckFloors(w)
  \/ EndCommand(w)

Environment == (PidReused \/ Checkout) /\ UNCHANGED <<runVars, overlapped>>

Next == Environment \/ \E w \in Wrappers : LockStep(w) \/ StartCommand(w) \/ CommandStep(w)

Spec == Init /\ [][Next]_vars

-----------------------------------------------------------------------------
(* The floor check judges a summary only if a whole run of this checkout,   *)
(* the last to begin, wrote it: no truncated, killed or older run passes,   *)
(* whichever writes failed.  It rests on that run's token having reached    *)
(* the disk, and on no two runs having overlapped.                          *)
Judges(f) == run[f].at = "summary" /\ run'[f].at = "judged"
Earned == summary = [run |-> latest, whole |-> TRUE] /\ run[latest].headSha = head
JudgesTheEarned ==
  \A f \in Floors : Judges(f) /\ runToken = latest /\ ~overlapped => Earned

VerdictIsEarned == [][JudgesTheEarned]_vars

(* run-tests.mjs:1585 says of a run that generated its token that "the      *)
(* closure this buys does not depend on the write succeeding", and          *)
(* check-coverage-floor.mjs:346 that after a failed write "nothing          *)
(* legitimate is on disk to compare against".                               *)
VerdictNeedsNoToken ==
  [][\A f \in Floors :
       Judges(f) /\ run[latest].headSha # NoOne /\ ~overlapped => Earned]_vars

(* A command starts beside a running one only if the wrapper of that one    *)
(* was killed and the lock does not name it as the floor job: no failure    *)
(* path, no reclaim and no reused pid lets two commands overlap, and a      *)
(* recorded floor job is safe even when orphaned.                           *)
StartsBesideOrphans ==
  \A w, v \in Wrappers :
    command[w] = "unborn" /\ command'[w] = "alive" /\ command[v] = "alive"
      => pc[v] = "killed" /\ lock.floorJob # v

OverlapIsUnrecorded == [][StartsBesideOrphans]_vars

(* The record never pairs a floor job's pid with another's birth identity,  *)
(* which would make the live job look like a stranger.                      *)
IdentityIsTheJobs == lock.floorIdentity \in {NoOne, lock.floorJob}

(* A worker is refused only because of a process the lock names and that    *)
(* still has its part to play, or a reused pid it has no identity for: a    *)
(* run that crashed, or failed and removed its record, never blocks the     *)
(* next one, and one that could not remove it only until its wrapper is     *)
(* gone.                                                                    *)
CauseToRefuse(r) ==
  \/ wrapper[r.owner] = "alive" /\ pc[r.owner] # "released"
  \/ wrapper[r.owner] = "recycled" /\ ~r.ownerKnown
  \/ /\ r.phase = "floor-running"
     /\ \/ command[r.floorJob] = "alive"
        \/ command[r.floorJob] = "recycled" /\ r.floorIdentity = NoOne

RefusesForCause ==
  \A w \in Workers :
    pc[w] # "refused" /\ pc'[w] = "refused" /\ mishaps' = mishaps => CauseToRefuse(seen[w])

RefusedForCause == [][RefusesForCause]_vars

(* The lock neither lets commands overlap nor keeps them apart for nothing, *)
(* and says whom it stands for.                                             *)
LockIsSound == OverlapIsUnrecorded /\ RefusedForCause /\ []IdentityIsTheJobs

=============================================================================
