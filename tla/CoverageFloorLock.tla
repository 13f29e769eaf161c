------------------------- MODULE CoverageFloorLock -------------------------
(***************************************************************************)
(* The lock file that `npm run coverage` (a worker wrapper) hands over to   *)
(* `npm run check:coverage-floor` (a floor wrapper), as the real processes  *)
(* use it: each wrapper and the command it spawns is an OS process that may *)
(* be killed at any step, and whose pid may then name a stranger.           *)
(*                                                                          *)
(* A process is "unborn", "alive", "dead", or "recycled": dead, with its    *)
(* pid now naming an unrelated live process.  Every file operation, spawn   *)
(* and liveness observation is a step of its own: the wrappers are          *)
(* different processes, and a kill may fall between any two.                *)
(* workerPid, which nothing ever reads back, is left out of the record, and *)
(* so is the released sidecar, which only words the reason of a refusal.    *)
(***************************************************************************)
EXTENDS Integers, FiniteSets

CONSTANTS
  Workers, Floors,   \* the wrapper invocations, each run once
  Heads,             \* commits that may be checked out
  NoOne,
  MaxMishaps         \* bound on failed writes, spawns and observations, kills, pid reuses

ASSUME LockAssumption ==
  /\ Workers \cap Floors = {} /\ NoOne \notin Workers \cup Floors
  /\ MaxMishaps \in Nat

Wrappers == Workers \cup Floors

VARIABLES
  pc,        \* what each wrapper does next
  seen,      \* the record a wrapper carries: read at its start, then its own last write
  lock,      \* the primary lock file
  wrapper,   \* the wrapper processes
  command,   \* the process each wrapper spawned
  head,      \* the commit checked out
  mishaps

lockVars == <<pc, seen, lock, wrapper, command, head, mishaps>>

NoRecord == [phase |-> "none", owner |-> NoOne, ownerKnown |-> FALSE,
             headSha |-> NoOne, floorJob |-> NoOne, floorIdentity |-> NoOne]

ProcStates == {"unborn", "alive", "dead", "recycled"}
Phases     == {"none", "working", "publishing", "floor-running", "done"}
Returned   == {"idle", "refused", "finished", "released", "kept", "killed"}

Mishap == mishaps < MaxMishaps /\ mishaps' = mishaps + 1
Fine   == mishaps' = mishaps

Goes(w, to) == pc' = [pc EXCEPT ![w] = to]

LockInit ==
  /\ pc = [w \in Wrappers |-> "idle"]
  /\ seen = [w \in Wrappers |-> NoRecord]
  /\ lock = NoRecord
  /\ wrapper = [w \in Wrappers |-> "unborn"]
  /\ command = [w \in Wrappers |-> "unborn"]
  /\ head \in Heads
  /\ mishaps = 0

-----------------------------------------------------------------------------
(* Liveness of a recorded pid.                                              *)

(* checkPidLiveness of the pid of p, whose process is in this status, with   *)
(* an identity captured from identityOf.                                    *)
Verdicts(status, identityOf, p) ==
  IF identityOf = NoOne
  THEN {IF status \in {"alive", "recycled"} THEN "alive-unconfirmed" ELSE "not-found"}
  ELSE {"observer-failure",
        CASE status = "dead" -> "not-found"
          [] status = "alive" /\ identityOf = p -> "alive-confirmed"
          [] OTHER -> "identity-mismatch"}

Blocks(verdict) == verdict \in {"alive-confirmed", "alive-unconfirmed", "observer-failure"}

(* A verdict the observer could not reach is a mishap.                      *)
Observed(verdict) == IF verdict = "observer-failure" THEN Mishap ELSE Fine

OwnerVerdicts(r) == Verdicts(wrapper[r.owner], IF r.ownerKnown THEN r.owner ELSE NoOne, r.owner)
FloorVerdicts(r) == Verdicts(command[r.floorJob], r.floorIdentity, r.floorJob)

-----------------------------------------------------------------------------
(* The worker wrapper: acquireAsWorker.                                     *)

(* CI runs the wrappers one after the other: one starts only when every     *)
(* earlier one has returned or was killed, its process perhaps not yet gone.*)
Start(w) ==
  /\ pc[w] = "idle"
  /\ \A v \in Wrappers : pc[v] \in Returned
  /\ wrapper' = [wrapper EXCEPT ![w] = "alive"]
  /\ seen' = [seen EXCEPT ![w] = lock]

(* No record, or a "done" one, is free without a look at any process; a     *)
(* file that cannot be read or parsed is refused.                           *)
WorkerStarts(w) ==
  /\ w \in Workers /\ Start(w)
  /\ \/ Fine /\ Goes(w, IF lock.phase \in {"none", "done"} THEN "writeWorking" ELSE "checkOwner")
     \/ Mishap /\ Goes(w, "refused")
  /\ UNCHANGED <<lock, command, head>>

CheckOwner(w) ==
  /\ pc[w] = "checkOwner"
  /\ \E verdict \in OwnerVerdicts(seen[w]) :
       /\ Observed(verdict)
       /\ Goes(w, IF Blocks(verdict) THEN "refused"
                  ELSE IF seen[w].phase = "floor-running" THEN "checkFloor"
                  ELSE "writeWorking")
  /\ UNCHANGED <<seen, lock, wrapper, command, head>>

(* Fault: the record of the dead floor job is carried forward as it was.    *)
ReclaimedWhole(r) == r

(* A floor wrapper that reclaims drops the dead job's identity; a worker    *)
(* writes a record of its own anyway.                                       *)
Reclaimed(r) == [r EXCEPT !.floorIdentity = NoOne]

CheckFloor(w) ==
  /\ pc[w] = "checkFloor"
  /\ \E verdict \in FloorVerdicts(seen[w]) :
       /\ Observed(verdict)
       /\ Goes(w, IF Blocks(verdict) THEN "refused"
                  ELSE IF w \in Workers THEN "writeWorking" ELSE "spawn")
  /\ seen' = [seen EXCEPT ![w] = Reclaimed(@)]
  /\ UNCHANGED <<lock, wrapper, command, head>>

(* writeIdentityAtomic: the record r replaces the lock file whole, or the   *)
(* write throws and the file keeps what it held.                            *)
Writes(w, r, onSuccess, onThrow) ==
  \/ Fine /\ lock' = r /\ seen' = [seen EXCEPT ![w] = r] /\ Goes(w, onSuccess)
  \/ Mishap /\ Goes(w, onThrow) /\ UNCHANGED <<lock, seen>>

(* The identity of a worker that cannot capture its own stays unknown.      *)
WriteWorking(w) ==
  /\ pc[w] = "writeWorking"
  /\ LET Working(known) == [NoRecord EXCEPT !.phase = "working", !.owner = w,
                                            !.ownerKnown = known, !.headSha = head]
     IN  \/ Writes(w, Working(TRUE), "spawn", "abandon")
         \/ Mishap /\ lock' = Working(FALSE) /\ seen' = [seen EXCEPT ![w] = lock']
            /\ Goes(w, "spawn")
  /\ UNCHANGED <<wrapper, command, head>>

(* defaultSpawnTracked: no child, or one that lives on when its wrapper     *)
(* is killed.                                                               *)
SpawnCommand(w) ==
  /\ pc[w] = "spawn"
  /\ command' = [command EXCEPT ![w] = "alive"]
  /\ Fine /\ Goes(w, IF w \in Workers THEN "writePid" ELSE "writeFloorPid")
  /\ UNCHANGED <<seen, lock, wrapper, head>>

SpawnFails(w) ==
  /\ pc[w] = "spawn"
  /\ Mishap /\ Goes(w, "abandon")
  /\ UNCHANGED <<seen, lock, wrapper, command, head>>

WritePid(w) ==
  /\ pc[w] = "writePid"
  /\ Writes(w, seen[w], "running", "abandon")
  /\ UNCHANGED <<wrapper, command, head>>

(* The command ended, whatever its exit code.                               *)
WritePublishing(w) ==
  /\ w \in Workers /\ pc[w] = "running" /\ command[w] # "alive"
  /\ Writes(w, [seen[w] EXCEPT !.phase = "publishing"], "finished", "abandon")
  /\ UNCHANGED <<wrapper, command, head>>

-----------------------------------------------------------------------------
(* The floor wrapper: acquireAsFloorJob.                                    *)

(* classifyFloorAcquisition: a matching "publishing" record is taken with   *)
(* no look at any process.                                                  *)
FloorStarts(f) ==
  /\ f \in Floors /\ Start(f)
  /\ \/ /\ Fine
        /\ Goes(f, CASE lock.phase = "publishing" /\ lock.headSha = head -> "spawn"
                     [] lock.phase \in {"floor-running", "done"} -> "checkFloor"
                     [] OTHER -> "refused")
     \/ Mishap /\ Goes(f, "refused")
  /\ UNCHANGED <<lock, command, head>>

(* Write A; the birth identity is not captured yet.                         *)
WriteFloorPid(f) ==
  /\ pc[f] = "writeFloorPid"
  /\ Writes(f, [seen[f] EXCEPT !.phase = "floor-running", !.floorJob = f],
            "capture", "abandon")
  /\ UNCHANGED <<wrapper, command, head>>

(* The capture comes to nothing, or write B lands, or write B throws, which *)
(* is survived: latestSnapshot then stays write A's.                        *)
WriteFloorIdentity(f) ==
  /\ pc[f] = "capture"
  /\ \/ Writes(f, [seen[f] EXCEPT !.floorIdentity = f], "running", "running")
     \/ command[f] # "alive" /\ Fine /\ Goes(f, "running") /\ UNCHANGED <<lock, seen>>
  /\ UNCHANGED <<wrapper, command, head>>

WriteDone(f) ==
  /\ f \in Floors /\ pc[f] = "running" /\ command[f] # "alive"
  /\ Writes(f, [seen[f] EXCEPT !.phase = "done"], "release", "abandon")
  /\ UNCHANGED <<wrapper, command, head>>

-----------------------------------------------------------------------------
(* After a failure: abandonOnFailure.                                       *)

(* killBestEffort sends SIGTERM at once; the command goes on until it heeds *)
(* it.                                                                      *)
HeedsSigterm(w) ==
  /\ pc[w] = "abandon" /\ command[w] = "alive"
  /\ command' = [command EXCEPT ![w] = "dead"]
  /\ UNCHANGED <<pc, seen, lock, wrapper, head, mishaps>>

(* Fault: the failed run's command is left running.                         *)
AbandonSparesCommand(w) ==
  /\ pc[w] = "abandon" /\ Goes(w, "release")
  /\ UNCHANGED <<seen, lock, wrapper, command, head, mishaps>>

(* It ended within the grace period, or is sent SIGKILL, after which it     *)
(* does nothing more.                                                       *)
Abandon(w) ==
  /\ pc[w] = "abandon" /\ Goes(w, "release")
  /\ command' = [command EXCEPT ![w] = IF @ = "alive" THEN "dead" ELSE @]
  /\ UNCHANGED <<seen, lock, wrapper, head, mishaps>>

(* release, of a failed run or of a floor check that is done: the lock file *)
(* is removed, or the unlink fails and the record is kept.                  *)
Release(w) ==
  /\ pc[w] = "release"
  /\ \/ Fine /\ lock' = NoRecord /\ Goes(w, "released")
     \/ Mishap /\ Goes(w, "kept") /\ UNCHANGED lock
  /\ seen' = [seen EXCEPT ![w] = NoRecord]
  /\ UNCHANGED <<wrapper, command, head>>

-----------------------------------------------------------------------------
(* The operating system.                                                    *)

WrapperExits(w) ==
  /\ pc[w] \in {"refused", "finished", "released", "kept"} /\ wrapper[w] = "alive"
  /\ wrapper' = [wrapper EXCEPT ![w] = "dead"]
  /\ seen' = [seen EXCEPT ![w] = NoRecord]
  /\ UNCHANGED <<pc, lock, command, head, mishaps>>

CommandExits(w) ==
  /\ command[w] = "alive"
  /\ command' = [command EXCEPT ![w] = "dead"]
  /\ UNCHANGED <<pc, seen, lock, wrapper, head, mishaps>>

(* SIGKILL, or the machine's memory: no handler runs, the command survives. *)
WrapperKilled(w) ==
  /\ pc[w] \notin Returned /\ Mishap
  /\ wrapper' = [wrapper EXCEPT ![w] = "dead"]
  /\ Goes(w, "killed")
  /\ seen' = [seen EXCEPT ![w] = NoRecord]
  /\ UNCHANGED <<lock, command, head>>

(* Of the pids the lock names; the others nobody looks at.                  *)
PidReused ==
  /\ Mishap
  /\ \/ /\ lock.owner # NoOne /\ wrapper[lock.owner] = "dead"
        /\ wrapper' = [wrapper EXCEPT ![lock.owner] = "recycled"]
        /\ UNCHANGED command
     \/ /\ lock.floorJob # NoOne /\ command[lock.floorJob] = "dead"
        /\ command' = [command EXCEPT ![lock.floorJob] = "recycled"]
        /\ UNCHANGED wrapper
  /\ UNCHANGED <<pc, seen, lock, head>>

(* Another commit is checked out, between two wrappers and never under a    *)
(* running command.                                                         *)
Checkout ==
  /\ \A w \in Wrappers : pc[w] \in Returned /\ command[w] # "alive"
  /\ \E h \in Heads \ {head} : head' = h
  /\ Mishap
  /\ UNCHANGED <<pc, seen, lock, wrapper, command>>

=============================================================================
